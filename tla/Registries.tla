----------------------------- MODULE Registries -----------------------------
(***************************************************************************)
(* The three registries of mongo_orchestration (Servers, ReplicaSets and   *)
(* ShardedClusters, each a Container), the requests that create and remove *)
(* what is in them, and cleanup_storage, the handler of SIGTERM and SIGINT *)
(* (mongo_orchestration/__init__.py).                                      *)
(*                                                                         *)
(* A thing is a server, a replica set or a sharded cluster; its parts are  *)
(* the servers of a set, or the shards, routers and configuration servers  *)
(* of a cluster.  Creating or removing a thing is a job, and its parts are *)
(* jobs of an executor that the job waits for.  The jobs of a request run  *)
(* in a worker thread of the HTTP server.  The handler runs in the main    *)
(* thread, and a second signal runs it again on top of itself: then the    *)
(* main thread does what the innermost handler does, and an exception of   *)
(* that one ends them all.  SystemExit ends the process; the loop of       *)
(* cheroot, the server in the requirements, catches and logs every other   *)
(* exception and goes on serving.                                          *)
(*                                                                         *)
(* Simplifications: how a server starts and stops is in Servers, what a    *)
(* set or a cluster does with its parts in ReplicaSet, ReplicaSetInit and  *)
(* ShardedCluster; a thing is created once; the ids that clients give to   *)
(* parts are their own; no signal arrives while an exception of a handler  *)
(* is on its way; Container.__del__ is left out.                           *)
(***************************************************************************)
EXTENDS Naturals, FiniteSets, Sequences

CONSTANTS
  Server, ReplicaSet, Cluster,  \* what may be created
  Parts,                        \* what a thing is made of
  Id,                           \* the ids of the things, in their registry
  Nothing,                      \* a free id
  Worker,                       \* the worker threads
  MaxSignals,                   \* bound: SIGTERMs and SIGINTs
  MaxEvents                     \* bound: requests and signals

Thing == Server \cup ReplicaSet \cup Cluster
Level == 1..MaxSignals          \* depth of the handlers on the main thread
Actor == Worker \cup Level
Ids   == {Id[x] : x \in Thing}

\* What clients create and remove themselves.
Roots == {x \in Thing : \A y \in Thing : x \notin Parts[y]}

\* A part is made for one thing, and has an id of its own.  What clients create
\* may be given an id that another thing of its kind has been given.
ASSUME RegistriesAssumption ==
  /\ IsFiniteSet(Thing)
  /\ Nothing \notin Thing
  /\ Parts \in [Thing -> SUBSET Thing]
  /\ \A x \in Thing : /\ x \in Server => Parts[x] = {}
                      /\ x \in ReplicaSet => Parts[x] \subseteq Server
                      /\ x \in Cluster => Parts[x] \subseteq Thing \ Cluster
  /\ \A x, y \in Thing : x # y => Parts[x] \cap Parts[y] = {}
  /\ \A x, y \in Thing : x # y /\ Id[x] = Id[y] =>
       /\ {x, y} \subseteq Roots
       /\ \E K \in {Server, ReplicaSet, Cluster} : {x, y} \subseteq K
  /\ Worker \cap Nat = {}
  /\ MaxSignals \in Nat
  /\ MaxEvents \in Nat

\* Servers, sets and clusters are of different classes; no removal is done by
\* a handler called Nothing.
ASSUME KindsAssumption ==
  /\ Server \cap ReplicaSet = {}
  /\ (Server \cup ReplicaSet) \cap Cluster = {}
  /\ Nothing \notin Nat

VARIABLES
  registry,  \* the storages: the thing that an id names
  running,   \* the servers whose process runs
  job,       \* what an actor does to a thing
  root,      \* the thing of a worker's request
  created,   \* what has been created
  requests,  \* how many requests there have been
  stack,     \* the handlers on the main thread, the innermost last
  leaving,   \* the exception that is on its way out of them
  signals,   \* how many signals there have been
  exited,    \* the process has ended
  touched,   \* history: servers that somebody else was at since the signal
  lost,      \* history: servers that ran and were in no registry
  restored,  \* history: things that a command stored after their removal
  popper,    \* history: the handler that took what an id named
  missed     \* history: what the handler did not find

requestVars == <<root, created, requests>>
mainVars    == <<stack, leaving, signals, exited>>
history     == <<touched, lost, restored, popper, missed>>
vars == <<registry, running, job, root, created, requests, stack, leaving, signals,
          exited, touched, lost, restored, popper, missed>>

-----------------------------------------------------------------------------
Label == {"idle", "make", "making", "store", "hold", "ran", "pop", "parts",
          "stop", "submit", "collect", "stop_main", "done", "raised"}

Frame == [pc : {"clusters", "sets", "servers"}, todo : SUBSET Ids]

Missed == [level : 0..MaxSignals, id : Ids \cup {Nothing}]

NoMiss == [level |-> 0, id |-> Nothing]

TypeOK ==
  /\ registry \in [Ids -> Thing \cup {Nothing}]
  /\ \A x \in Thing : registry[Id[x]] # Nothing => Id[registry[Id[x]]] = Id[x]
  /\ running \subseteq Server
  /\ job \in [Actor -> [Thing -> Label]]
  /\ root \in [Worker -> Thing \cup {Nothing}]
  /\ created \subseteq Thing
  /\ requests \in 0..MaxEvents
  /\ stack \in Seq(Frame) /\ Len(stack) <= MaxSignals
  /\ leaving \in {"no", "error", "exit"}
  /\ signals \in 0..MaxSignals
  /\ exited \in BOOLEAN
  /\ touched \subseteq Server
  /\ lost \subseteq Server
  /\ restored \subseteq Thing
  /\ popper \in [Ids -> Level \cup {Nothing}]
  /\ missed \in Missed

Idle == [x \in Thing |-> "idle"]

\* A thing, its parts, and theirs.
Whole(x) == {x} \cup Parts[x] \cup UNION {Parts[y] : y \in Parts[x]}

\* Some things are there before the first signal.
Init ==
  /\ \E S \in SUBSET Roots :
       /\ \A x, y \in S : Id[x] = Id[y] => x = y
       /\ created = UNION {Whole(x) : x \in S}
  /\ registry = [i \in Ids |->
       IF \E x \in created : Id[x] = i
       THEN CHOOSE x \in created : Id[x] = i ELSE Nothing]
  /\ running = created \cap Server
  /\ job = [a \in Actor |-> Idle]
  /\ root = [w \in Worker |-> Nothing]
  /\ requests = 0
  /\ stack = <<>>
  /\ leaving = "no"
  /\ signals = 0
  /\ exited = FALSE
  /\ touched = {}
  /\ lost = {}
  /\ restored = {}
  /\ popper = [i \in Ids |-> Nothing]
  /\ missed = NoMiss

-----------------------------------------------------------------------------
(***************************************************************************)
(* Jobs.                                                                   *)
(***************************************************************************)
Registered(x) == registry[Id[x]] = x
Ended(a, x)   == job[a][x] \in {"done", "raised"}
Active(a, x)  == job[a][x] # "idle" /\ ~Ended(a, x)

Goto(a, x, label) == job' = [job EXCEPT ![a][x] = label]

\* The job of a new request.
Begin(w, x, label) == job' = [job EXCEPT ![w] = [Idle EXCEPT ![x] = label]]

\* Job x submits its parts and waits for them.
Submit(a, x, label, partLabel) ==
  job' = [job EXCEPT ![a] = [y \in Thing |->
            IF y = x THEN label
            ELSE IF y \in Parts[x] THEN partLabel ELSE job[a][y]]]

PartsEnded(a, x)  == \A y \in Parts[x] : Ended(a, y)
PartsRaised(a, x) == \E y \in Parts[x] : job[a][y] = "raised"

\* Who is at a thing is at its servers.
Touch(a, x) ==
  touched' = IF a \in Worker /\ signals > 0
             THEN touched \cup (Whole(x) \cap Server) ELSE touched

\* Mutant: the object is looked up, and its id deleted later.
Read(a, x) ==
  /\ popper' = [popper EXCEPT ![Id[x]] = IF a \in Level THEN a ELSE Nothing]
  /\ UNCHANGED registry

\* self._storage.pop(id)
Take(a, x) ==
  /\ registry' = [registry EXCEPT ![Id[x]] = Nothing]
  /\ popper' = [popper EXCEPT ![Id[x]] = IF a \in Level THEN a ELSE Nothing]

\* self[id] = object: another server of this id is in no registry any more.
Put(x) ==
  /\ registry' = [registry EXCEPT ![Id[x]] = x]
  /\ lost' = lost \cup (({registry[Id[x]]} \ {x}) \cap running)

-----------------------------------------------------------------------------
(***************************************************************************)
(* Creation.                                                               *)
(***************************************************************************)
\* A worker takes the next request when it has answered the last one.
Accept(w, x) ==
  /\ root[w] # Nothing => Ended(w, root[w])
  /\ root' = [root EXCEPT ![w] = x]
  /\ requests + signals < MaxEvents
  /\ requests' = requests + 1

\* POST and PUT: "already exists" is tested now, and never again.
Create(w, x) ==
  /\ Accept(w, x)
  /\ x \in Roots \ created
  /\ registry[Id[x]] = Nothing
  /\ created' = created \cup Whole(x)
  /\ Begin(w, x, "make")
  /\ Touch(w, x)
  /\ UNCHANGED <<registry, running, mainVars, lost, restored, popper, missed>>

\* Server.start, or the executor of a constructor.
Make(a, x) ==
  /\ job[a][x] = "make"
  /\ IF x \in Server
     THEN running' = running \cup {x} /\ Goto(a, x, "store")
     ELSE Submit(a, x, "making", "make") /\ UNCHANGED running
  /\ Touch(a, x)
  /\ UNCHANGED <<registry, requestVars, mainVars, lost, restored, popper,
                 missed>>

\* Server() or start() raises, with or without a process that runs on.
MakeFails(a, x) ==
  /\ job[a][x] = "make"
  /\ x \in Server
  /\ \/ UNCHANGED <<running, lost>>
     \/ running' = running \cup {x} /\ lost' = lost \cup {x}
  /\ Goto(a, x, "raised")
  /\ Touch(a, x)
  /\ UNCHANGED <<registry, requestVars, mainVars, restored, popper, missed>>

\* A part that raised ends the constructor; the others stay.
Made(a, x) ==
  /\ job[a][x] = "making"
  /\ PartsEnded(a, x)
  /\ Goto(a, x, IF PartsRaised(a, x) THEN "raised" ELSE "store")
  /\ UNCHANGED <<registry, running, requestVars, mainVars, history>>

\* Mutant: the id of the request is handed down to the parts.
StoreAsRoot(a, x) ==
  /\ job[a][x] = "store"
  /\ registry' = [registry EXCEPT ![Id[root[a]]] = x]
  /\ Goto(a, x, "done")
  /\ Touch(a, x)
  /\ UNCHANGED <<running, requestVars, mainVars, lost, restored, popper,
                 missed>>

\* The thing is stored under its id, whatever the id names by now.
Store(a, x) ==
  /\ job[a][x] = "store"
  /\ Put(x)
  /\ Goto(a, x, "done")
  /\ Touch(a, x)
  /\ UNCHANGED <<running, requestVars, mainVars, restored, popper, missed>>

-----------------------------------------------------------------------------
(***************************************************************************)
(* Commands and removal.                                                   *)
(***************************************************************************)
\* Servers.command, member_add and member_command of ReplicaSets, router_add
\* of ShardedClusters and their like: the object is looked up ...
Command(w, x) ==
  /\ Accept(w, x)
  /\ Registered(x)
  /\ Begin(w, x, "hold")
  /\ Touch(w, x)
  /\ UNCHANGED <<registry, running, created, mainVars, lost, restored, popper,
                 missed>>

\* ... a set has a member do it, ...
CommandPart(w, x) ==
  /\ job[w][x] = "hold"
  /\ x \in ReplicaSet
  /\ \A p \in Parts[x] : job[w][p] = "idle"
  /\ \E p \in Parts[x] : Registered(p) /\ Goto(w, p, "hold")
  /\ Touch(w, x)
  /\ UNCHANGED <<registry, running, requestVars, mainVars, lost, restored,
                 popper, missed>>

\* ... the process of a server is started or stopped, ...
CommandRuns(w, x) ==
  /\ job[w][x] = "hold"
  /\ x \in Server
  /\ running' \in {running \cup {x}, running \ {x}}
  /\ Goto(w, x, "ran")
  /\ Touch(w, x)
  /\ UNCHANGED <<registry, requestVars, mainVars, lost, restored, popper,
                 missed>>

Commanding(w, x) ==
  /\ job[w][x] \in {"hold", "ran"}
  /\ \A p \in Parts[x] : job[w][p] \notin {"hold", "ran"}

\* ... and the object is stored when the command has run, whatever has been
\* removed since.
CommandEnds(w, x) ==
  /\ Commanding(w, x)
  /\ ~PartsRaised(w, x)
  /\ Put(x)
  /\ restored' = IF Registered(x) THEN restored ELSE restored \cup {x}
  /\ Goto(w, x, "done")
  /\ Touch(w, x)
  /\ UNCHANGED <<running, requestVars, mainVars, popper, missed>>

\* A command that raises stores nothing.
CommandFails(w, x) ==
  /\ Commanding(w, x)
  /\ lost' = IF Registered(x) THEN lost ELSE lost \cup ({x} \cap running)
  /\ Goto(w, x, "raised")
  /\ Touch(w, x)
  /\ UNCHANGED <<registry, running, requestVars, mainVars, restored, popper,
                 missed>>

\* DELETE: 404 when there is no such thing now.
Remove(w, x) ==
  /\ Accept(w, x)
  /\ Registered(x)
  /\ Begin(w, x, "pop")
  /\ Touch(w, x)
  /\ UNCHANGED <<registry, running, created, mainVars, lost, restored, popper,
                 missed>>

\* Servers.remove stops the server it has taken ...
StopNext(jobs, x) == [jobs EXCEPT ![x] = "stop"]

\* ... and cleanup() of a set or a cluster has its parts removed.
CleanupNext(jobs, x) ==
  [y \in Thing |-> IF y = x THEN "parts"
                   ELSE IF y \in Parts[x] THEN "pop" ELSE jobs[y]]

\* remove(): what the id names, which may be another thing by now, is taken
\* out of the storage; a KeyError when there is none.
Pop(a, x) ==
  /\ job[a][x] = "pop"
  /\ LET y    == registry[Id[x]]
         jobs == [job[a] EXCEPT ![x] = "idle"] IN
     IF y = Nothing
     THEN /\ Goto(a, x, "raised")
          /\ missed' = IF a \in Level THEN [level |-> a, id |-> Id[x]]
                       ELSE missed
          /\ Touch(a, x)
          /\ UNCHANGED <<registry, root, popper>>
     ELSE /\ Take(a, y)
          /\ Touch(a, y)
          /\ job' = [job EXCEPT ![a] = IF y \in Server THEN StopNext(jobs, y)
                                       ELSE CleanupNext(jobs, y)]
          /\ root' = IF a \in Worker /\ root[a] = x
                     THEN [root EXCEPT ![a] = y] ELSE root
          /\ UNCHANGED missed
  /\ UNCHANGED <<running, created, requests, mainVars, lost, restored>>

\* server.stop(); server.cleanup()
Stop(a, x) ==
  /\ job[a][x] = "stop"
  /\ running' = running \ {x}
  /\ Goto(a, x, "done")
  /\ Touch(a, x)
  /\ UNCHANGED <<registry, requestVars, mainVars, lost, restored, popper,
                 missed>>

PartsGone(a, x) ==
  /\ job[a][x] = "parts"
  /\ PartsEnded(a, x)
  /\ Goto(a, x, IF PartsRaised(a, x) THEN "raised" ELSE "done")
  /\ UNCHANGED <<registry, running, requestVars, mainVars, history>>

-----------------------------------------------------------------------------
(***************************************************************************)
(* The handler.                                                            *)
(***************************************************************************)
Depth == Len(stack)
Top   == stack[Depth]

\* The main thread executes the innermost handler.
On(pc) == stack # <<>> /\ leaving = "no" /\ Top.pc = pc

SetTop(pc, todo) == stack' = [stack EXCEPT ![Depth] = [pc |-> pc, todo |-> todo]]

\* for id in self: a copy of the keys
Keys(S) == {Id[x] : x \in {y \in S : Registered(y)}}

Raise(i) ==
  /\ leaving' = "error"
  /\ missed' = [level |-> Depth, id |-> i]
  /\ UNCHANGED <<registry, job, stack, popper>>

\* SIGTERM or SIGINT.  What a handler below has taken is not stopped any more.
Signal ==
  /\ leaving = "no"
  /\ signals < MaxSignals
  /\ requests + signals < MaxEvents
  /\ signals' = signals + 1
  /\ stack' = Append(stack, [pc |-> "clusters", todo |-> Keys(Cluster)])
  /\ touched' = touched
       \cup {s \in Server : \E w \in Worker, x \in Thing :
                              Active(w, x) /\ s \in Whole(x)}
       \cup {s \in Server : \E k \in Level : job[k][s] = "stop_main"}
  /\ popper' = [i \in Ids |->
       IF popper[i] \in Level /\ popper[i] > Depth THEN Nothing ELSE popper[i]]
  /\ missed' = NoMiss
  /\ UNCHANGED <<registry, running, job, requestVars, leaving, exited, lost,
                 restored>>

\* ShardedClusters.cleanup: remove(cluster_id) takes what the id names now.
ClusterPop(i) ==
  /\ On("clusters")
  /\ i \in Top.todo
  /\ \A x \in Cluster : job[Depth][x] = "idle"
  /\ IF registry[i] = Nothing THEN Raise(i)
     ELSE /\ Take(Depth, registry[i])
          /\ Goto(Depth, registry[i], "submit")
          /\ UNCHANGED <<stack, leaving, missed>>
  /\ UNCHANGED <<running, requestVars, signals, exited, touched, lost,
                 restored>>

\* Mutant: the members of a shard that is a replica set are removed as well.
ClusterSubmitMembers(c) ==
  /\ On("clusters")
  /\ job[Depth][c] = "submit"
  /\ \/ \E x \in Whole(c) : job[Depth][x] = "idle" /\ Goto(Depth, x, "pop")
     \/ /\ \A x \in Whole(c) : job[Depth][x] # "idle"
        /\ Goto(Depth, c, "collect")
  /\ UNCHANGED <<registry, running, requestVars, mainVars, history>>

\* ShardedCluster.cleanup submits the removals one by one ...
ClusterSubmit(c) ==
  /\ On("clusters")
  /\ job[Depth][c] = "submit"
  /\ \/ \E x \in Parts[c] : job[Depth][x] = "idle" /\ Goto(Depth, x, "pop")
     \/ /\ \A x \in Parts[c] : job[Depth][x] # "idle"
        /\ Goto(Depth, c, "collect")
  /\ UNCHANGED <<registry, running, requestVars, mainVars, history>>

\* Mutant: the results are asked for only when none of them raised.
ClusterCollectDone(c) ==
  /\ On("clusters")
  /\ job[Depth][c] = "collect"
  /\ \A x \in Parts[c] : job[Depth][x] = "done"
  /\ SetTop("clusters", Top.todo \ {Id[c]})
  /\ job' = [job EXCEPT ![Depth] = Idle]
  /\ UNCHANGED <<registry, running, requestVars, leaving, signals, exited,
                 history>>

\* ... and asks for the results when all have ended.
ClusterCollect(c) ==
  /\ On("clusters")
  /\ job[Depth][c] = "collect"
  /\ PartsEnded(Depth, c)
  /\ IF PartsRaised(Depth, c)
     THEN leaving' = "error" /\ UNCHANGED <<job, stack>>
     ELSE /\ SetTop("clusters", Top.todo \ {Id[c]})
          /\ job' = [job EXCEPT ![Depth] = Idle]
          /\ UNCHANGED leaving
  /\ UNCHANGED <<registry, running, requestVars, signals, exited, history>>

\* ReplicaSets.cleanup begins with Servers().cleanup().
ClustersEnd ==
  /\ On("clusters")
  /\ Top.todo = {}
  /\ SetTop("sets", Keys(Server))
  /\ UNCHANGED <<registry, running, job, requestVars, leaving, signals,
                 exited, history>>

\* Mutant: Servers does not override Container.cleanup, which stops nothing.
ServerClear(i) ==
  /\ On("sets") \/ On("servers")
  /\ i \in Top.todo
  /\ registry' = [registry EXCEPT ![i] = Nothing]
  /\ popper' = [popper EXCEPT ![i] = Depth]
  /\ SetTop(Top.pc, Top.todo \ {i})
  /\ UNCHANGED <<running, job, requestVars, leaving, signals, exited,
                 touched, lost, restored, missed>>

\* Servers.cleanup: remove(server_id) ...
ServerPop(i) ==
  /\ On("sets") \/ On("servers")
  /\ i \in Top.todo
  /\ \A x \in Server : job[Depth][x] # "stop_main"
  /\ IF registry[i] = Nothing THEN Raise(i)
     ELSE /\ Take(Depth, registry[i])
          /\ Goto(Depth, registry[i], "stop_main")
          /\ UNCHANGED <<stack, leaving, missed>>
  /\ UNCHANGED <<running, requestVars, signals, exited, touched, lost,
                 restored>>

\* Mutant: the loop asks the registry what is left.
ServerStopAgain(s) ==
  /\ On("sets") \/ On("servers")
  /\ job[Depth][s] = "stop_main"
  /\ running' = running \ {s}
  /\ Goto(Depth, s, "idle")
  /\ SetTop(Top.pc, Keys(Server))
  /\ UNCHANGED <<registry, requestVars, leaving, signals, exited, history>>

\* ... which stops it in the main thread.
ServerStop(s) ==
  /\ On("sets") \/ On("servers")
  /\ job[Depth][s] = "stop_main"
  /\ running' = running \ {s}
  /\ Goto(Depth, s, "idle")
  /\ SetTop(Top.pc, Top.todo \ {Id[s]})
  /\ UNCHANGED <<registry, requestVars, leaving, signals, exited, history>>

\* self._storage.clear(), and Servers().cleanup() again.
SetsEnd ==
  /\ On("sets")
  /\ Top.todo = {}
  /\ registry' = [i \in Ids |->
       IF registry[i] \in ReplicaSet THEN Nothing ELSE registry[i]]
  /\ SetTop("servers", Keys(Server))
  /\ UNCHANGED <<running, job, requestVars, leaving, signals, exited, history>>

\* sys.exit(0)
ServersEnd ==
  /\ On("servers")
  /\ Top.todo = {}
  /\ leaving' = "exit"
  /\ UNCHANGED <<registry, running, job, requestVars, stack, signals, exited,
                 history>>

\* An exception leaves the innermost handler; an executor of its own is waited
\* for.
Unwind ==
  /\ stack # <<>> /\ leaving # "no"
  /\ \A x \in Thing : job[Depth][x] \notin {"pop", "stop", "parts"}
  /\ stack' = SubSeq(stack, 1, Depth - 1)
  /\ job' = [job EXCEPT ![Depth] = Idle]
  /\ leaving' = IF Depth = 1 /\ leaving = "error" THEN "no" ELSE leaving
  /\ UNCHANGED <<registry, running, requestVars, signals, exited, history>>

\* SystemExit leaves the main program.
Exit ==
  /\ stack = <<>> /\ leaving = "exit" /\ ~exited
  /\ exited' = TRUE
  /\ UNCHANGED <<registry, running, job, requestVars, stack, leaving,
                 signals, history>>

-----------------------------------------------------------------------------
\* The threads end with the process.
Job(a, x) ==
  /\ ~exited
  /\ \/ Make(a, x) \/ MakeFails(a, x) \/ Made(a, x) \/ Store(a, x)
     \/ Pop(a, x) \/ Stop(a, x) \/ PartsGone(a, x)

Handler ==
  \/ \E i \in Ids : ClusterPop(i) \/ ServerPop(i)
  \/ \E c \in Cluster : ClusterSubmit(c) \/ ClusterCollect(c)
  \/ \E s \in Server : ServerStop(s)
  \/ ClustersEnd \/ SetsEnd \/ ServersEnd \/ Unwind

Request(w) ==
  /\ ~exited
  /\ \/ \E x \in Roots : Create(w, x)
     \/ \E x \in Thing :
          \/ Command(w, x) \/ CommandPart(w, x) \/ CommandRuns(w, x)
          \/ CommandEnds(w, x) \/ CommandFails(w, x)
          \/ Remove(w, x)

Next ==
  \/ \E a \in Actor, x \in Thing : Job(a, x)
  \/ \E w \in Worker : Request(w)
  \/ Handler
  \/ Signal
  \/ Exit

Spec == Init /\ [][Next]_vars

-----------------------------------------------------------------------------
(***************************************************************************)
(* Properties.                                                             *)
(***************************************************************************)
\* When the handler has ended the process, the only servers left are those
\* that a request was at while it ran, or that a handler had in its hands when
\* the next signal came, and those that were in no registry: their creation or
\* a command of theirs had failed while the process ran, or another server had
\* taken their id.  So the servers of sets and clusters whose creation had
\* failed go too, and those of a set or cluster that another one with its id
\* had replaced (cleanup_storage).
ExitIsClean == exited => running \subseteq touched \cup lost

\* Clusters, sets and servers are cleaned up in this order so that nobody asks
\* for what is gone: a KeyError never ends the handler because of an id that it
\* has removed itself (ShardedClusters.cleanup, ReplicaSets.cleanup).
NoSelfTrip == missed.level > 0 => popper[missed.id] # missed.level

\* A thing is removed by one actor at a time, be it a request, the removal of
\* what it is a part of, or a handler: so no two of them stop one process and
\* delete its files.  What a command has stored again after its removal is the
\* exception; its parts are not (the remove and command methods of Servers,
\* ReplicaSets and ShardedClusters).
Removing(a, x) ==
  job[a][x] \in {"parts", "stop", "submit", "collect", "stop_main"}

OneRemover ==
  \A x \in Thing \ restored :
    Cardinality({a \in Actor : Removing(a, x)}) <= 1

\* While a handler is at work it can take a step, or an executor of it can,
\* whatever failed and whoever took something away; every such step brings it
\* nearer to its end (the waits for futures in ShardedCluster.cleanup and
\* ReplicaSet.cleanup).
NeverStuck ==
  stack # <<>> => ENABLED (Handler \/ \E k \in Level, x \in Thing : Job(k, x))

\* How much of a job is still to do, and of the rounds of a handler.
ToDo(label) ==
  CASE label = "idle" -> 3
    [] label \in {"submit", "pop"} -> 2
    [] label \in {"done", "raised"} -> 0
    [] OTHER -> 1

Rounds(pc) ==
  CASE pc = "clusters" -> 2 [] pc = "sets" -> 1 [] pc = "servers" -> 0

JobsEnd ==
  /\ \A k \in Level, x \in Thing : ToDo(job'[k][x]) <= ToDo(job[k][x])
  /\ \E k \in Level, x \in Thing : ToDo(job'[k][x]) < ToDo(job[k][x])

\* It leaves the handler, raises, goes on to the next round, is done with one
\* thing of this round, or with a part of the work on one.
Nearer ==
  \/ Len(stack') < Len(stack)
  \/ /\ Len(stack') = Len(stack)
     /\ \/ leaving = "no" /\ leaving' # "no"
        \/ /\ leaving' = leaving
           /\ \/ Rounds(Top'.pc) < Rounds(Top.pc)
              \/ Top'.pc = Top.pc /\ Top'.todo \subseteq Top.todo
                 /\ Top'.todo # Top.todo
              \/ stack' = stack /\ JobsEnd

\* Every step of a handler, or of an executor of one, brings the handlers
\* nearer to their end, whatever requests register, remove and store again
\* meanwhile: cleanup works on a copy of the keys, and looks for nothing twice.
\* Only another signal gives them more to do (cleanup_storage).
NearerTheEnd ==
  [][ signals' = signals
        /\ <<stack, leaving, [k \in Level |-> job[k]]>>'
             # <<stack, leaving, [k \in Level |-> job[k]]>>
      => Nearer ]_vars

\* "Clean up processes after SIGTERM or SIGINT is received"
\* (cleanup_storage): when no handler is at work any more, no server is left
\* that was in a registry, if no request and no other signal met the handler.
SignalCleansUp ==
  signals > 0 /\ stack = <<>> /\ touched = {} => running \subseteq lost
=============================================================================
