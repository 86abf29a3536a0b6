------------------------------ MODULE Servers -------------------------------
(***************************************************************************)
(* Single servers: class Server and class Servers of                       *)
(* mongo_orchestration/servers.py, the process control of process.py they  *)
(* use, and the handlers of apps/servers.py.                               *)
(*                                                                         *)
(* A process of this module is a worker thread of the HTTP server.  It     *)
(* serves one request at a time; pc is where the request stands and stack  *)
(* where the calls of start() and stop() it is inside of return to.  A     *)
(* step is a stretch of code between two points where the thread blocks (a *)
(* subprocess, a socket, a wait) or where another thread can see a half    *)
(* done change of the registry.  mongod processes boot, exit and crash by  *)
(* themselves.                                                             *)
(*                                                                         *)
(* Simplifications: all servers are mongods, each with its own port and    *)
(* dbpath; auth_key and login come together; timeouts may fire at any      *)
(* time; the six isMaster attempts are one step, and so are connecting and *)
(* sending the shutdown command.  mongod --repair is a field of its server *)
(* and no process of os.                                                   *)
(***************************************************************************)
EXTENDS Naturals, Sequences

CONSTANTS
  Id,        \* server ids a client may use
  Obj,       \* Server objects
  Pid,       \* process ids
  Thread,    \* worker threads
  NoObj, NoPid, NoId,
  Serial     \* clients wait for the reply before they use an id again

ASSUME ServersAssumption ==
  /\ NoObj \notin Obj
  /\ NoPid \notin Pid
  /\ NoId \notin Id
  /\ Serial \in BOOLEAN

VARIABLES
  storage,   \* Servers._storage
  server,    \* the fields of every Server object, and its files
  os,        \* the processes of the operating system
  thread,    \* the request every worker thread serves
  failed,    \* history: servers whose start() raised after mprocess()
  lost       \* history: servers whose create() raised

vars == <<storage, server, os, thread, failed, lost>>

-----------------------------------------------------------------------------
(***************************************************************************)
(* State.                                                                  *)
(***************************************************************************)
\* Fields of a Server: proc, login, restart_required, and
\*   auth   cfg has auth and keyFile
\*   conf   the file config_path is there; its content is cfg
\*   data   the dbpath is there
\*   users  the login user has been added to the data
\*   lock   mongod.lock is not empty and no process holds it
\*   old    config files that config_path named before are still there
\*   repair mongod --repair runs on the dbpath, or has just succeeded
\*   kept   cleanup() met something it could not remove
ServerRecord ==
  [proc : Pid \cup {NoPid}, login : BOOLEAN, restart_required : BOOLEAN,
   auth : BOOLEAN, conf : BOOLEAN, data : BOOLEAN, users : BOOLEAN,
   lock : BOOLEAN, old : BOOLEAN, repair : {"none", "runs", "done"},
   kept : BOOLEAN]

NewServer(wantsAuth) ==
  [proc |-> NoPid, login |-> wantsAuth, restart_required |-> wantsAuth,
   auth |-> FALSE, conf |-> TRUE, data |-> TRUE,
   users |-> FALSE, lock |-> FALSE, old |-> FALSE, repair |-> "none",
   kept |-> FALSE]

\* A process is booting, serves its port, is exiting, or is gone (a zombie
\* that is reaped at once, or a free process id).
Process == [obj : Obj \cup {NoObj}, auth : BOOLEAN,
            st : {"boot", "up", "exiting", "gone"}]

Gone == [obj |-> NoObj, auth |-> FALSE, st |-> "gone"]

Label == {"idle", "create", "construct", "command", "remove", "register",
          "store", "cleanup", "start", "repair", "repairing", "spawn", "wait",
          "reap_child", "is_master", "add_users", "secure", "stop", "shutdown",
          "await", "kill", "reap", "rewrite"}

\* Where start() and stop() return to: the end of a request, and in between the
\* step of start() or restart() that follows their stop().
Last    == {"register", "store", "cleanup"}
Shallow == {<<l>> : l \in Last}
Deep    == {<<m, l>> : m \in {"secure", "rewrite"}, l \in Last}
Stacks  == {<<>>} \cup Shallow \cup Deep

Idle == [pc |-> "idle", stack |-> <<>>, id |-> NoId, self |-> NoObj,
         child |-> NoPid, tries |-> 0]

Request == [pc : Label, stack : Stacks, id : Id \cup {NoId},
            self : Obj \cup {NoObj}, child : Pid \cup {NoPid}, tries : 0..1]

TypeOK ==
  /\ storage \in [Id -> Obj \cup {NoObj}]
  /\ server \in [Obj -> ServerRecord]
  /\ os \in [Pid -> Process]
  /\ thread \in [Thread -> Request]
  /\ failed \subseteq Obj
  /\ lost \subseteq Obj

Init ==
  /\ storage = [i \in Id |-> NoObj]
  /\ server = [o \in Obj |-> [NewServer(FALSE) EXCEPT !.conf = FALSE,
                                                      !.data = FALSE]]
  /\ os = [p \in Pid |-> Gone]
  /\ thread = [t \in Thread |-> Idle]
  /\ failed = {}
  /\ lost = {}

Registered == {o \in Obj : \E i \in Id : storage[i] = o}
InHand     == {o \in Obj : \E t \in Thread : thread[t].self = o}
Alive(p)   == p # NoPid /\ os[p].st # "gone"
LiveOf(o)  == {p \in Pid : Alive(p) /\ os[p].obj = o}

\* The process that answers at the server's hostname, if any.
Serving(o) == {p \in LiveOf(o) : os[p].st = "up"}

\* An object, or a process id, that nothing refers to can be a new one.
FreshObj(o) ==
  /\ o \notin Registered \cup InHand
  /\ LiveOf(o) = {}
  /\ server[o].repair # "runs"
FreshPid(p) ==
  /\ ~Alive(p)
  /\ \A o \in Registered \cup InHand : server[o].proc # p
  /\ \A t \in Thread : thread[t].child # p

-----------------------------------------------------------------------------
(***************************************************************************)
(* The control of a thread.                                                *)
(***************************************************************************)
At(t, label) == thread[t].pc = label
Self(t)      == thread[t].self
Me(t)        == server[Self(t)]

Goto(t, label) == thread' = [thread EXCEPT ![t].pc = label]

\* Call of start() or stop(), which goes on at back when it has returned.
Call(t, label, back) ==
  thread' = [thread EXCEPT ![t].pc = label,
                           ![t].stack = <<back>> \o thread[t].stack]

Return(t) ==
  thread' = [thread EXCEPT ![t].pc = Head(thread[t].stack),
                           ![t].stack = Tail(thread[t].stack),
                           ![t].child = NoPid]

\* The reply is sent.
Reply(t) == thread' = [thread EXCEPT ![t] = Idle]

\* An exception leaves the handler: error_wrap makes it an error reply.  When
\* the request was a create, nothing keeps the object.
Creating(t) == \E k \in DOMAIN thread[t].stack : thread[t].stack[k] = "register"

Raise(t) ==
  /\ Reply(t)
  /\ lost' = IF Creating(t) THEN lost \cup {Self(t)} ELSE lost

-----------------------------------------------------------------------------
(***************************************************************************)
(* Requests.                                                               *)
(***************************************************************************)
\* POST, PUT or DELETE of /servers/<id>.
Receive(t, i, label) ==
  /\ At(t, "idle")
  /\ label \in {"create", "command", "remove"}
  /\ Serial => \A u \in Thread : thread[u].id # i
  /\ thread' = [thread EXCEPT ![t].pc = label, ![t].id = i]
  /\ UNCHANGED <<storage, server, os, failed, lost>>

\* Servers.create: if server_id in self, ServersError.
Create(t) ==
  /\ At(t, "create")
  /\ IF storage[thread[t].id] # NoObj THEN Reply(t) ELSE Goto(t, "construct")
  /\ UNCHANGED <<storage, server, os, failed, lost>>

\* Server(...): dbpath, port and config file; then start() if autostart.
Construct(t, o, wantsAuth, autostart) ==
  /\ At(t, "construct")
  /\ FreshObj(o)
  /\ server' = [server EXCEPT ![o] = NewServer(wantsAuth)]
  /\ failed' = failed \ {o}
  /\ lost' = lost \ {o}
  /\ thread' = [thread EXCEPT
       ![t].self = o,
       ![t].pc = IF autostart THEN "start" ELSE "register",
       ![t].stack = IF autostart THEN <<"register">> ELSE <<>>]
  /\ UNCHANGED <<storage, os>>

\* The constructor raises: no such release, no free port, no version.
ConstructFails(t) ==
  /\ At(t, "construct")
  /\ Reply(t)
  /\ UNCHANGED <<storage, server, os, failed, lost>>

\* self[server_id] = server, at the end of create() ...
Register(t) ==
  /\ At(t, "register")
  /\ storage' = [storage EXCEPT ![thread[t].id] = Self(t)]
  /\ Reply(t)
  /\ UNCHANGED <<server, os, failed, lost>>

\* ... and self._storage[server_id] = server at the end of command().
Store(t) ==
  /\ At(t, "store")
  /\ storage' = [storage EXCEPT ![thread[t].id] = Self(t)]
  /\ Reply(t)
  /\ UNCHANGED <<server, os, failed, lost>>

\* host_command and Servers.command: 404, or the method that is asked for.
Command(t, method) ==
  /\ At(t, "command")
  /\ method \in {"start", "stop", "restart"}
  /\ LET o == storage[thread[t].id] IN
       IF o = NoObj THEN Reply(t)
       ELSE thread' = [thread EXCEPT
              ![t].self = o,
              ![t].pc = IF method = "restart" THEN "stop" ELSE method,
              ![t].stack = IF method = "restart" THEN <<"rewrite", "store">>
                           ELSE <<"store">>]
  /\ UNCHANGED <<storage, server, os, failed, lost>>

\* host_del and Servers.remove: 404, or pop and stop().
Remove(t) ==
  /\ At(t, "remove")
  /\ LET o == storage[thread[t].id] IN
       IF o = NoObj THEN Reply(t) /\ UNCHANGED storage
       ELSE /\ storage' = [storage EXCEPT ![thread[t].id] = NoObj]
            /\ thread' = [thread EXCEPT ![t].self = o, ![t].pc = "stop",
                                        ![t].stack = <<"cleanup">>]
  /\ UNCHANGED <<server, os, failed, lost>>

\* Server.cleanup: cleanup_mprocess(config_path, cfg) knows the last config
\* file only, and remove_path swallows an OSError.
Cleanup(t) ==
  /\ At(t, "cleanup")
  /\ \E kept \in BOOLEAN :
       server' = [server EXCEPT ![Self(t)].data = @ /\ kept,
                                ![Self(t)].conf = @ /\ kept,
                                ![Self(t)].lock = @ /\ kept,
                                ![Self(t)].kept = kept]
  /\ Reply(t)
  /\ UNCHANGED <<storage, os, failed, lost>>

-----------------------------------------------------------------------------
(***************************************************************************)
(* Server.start                                                            *)
(***************************************************************************)
\* Mutant: neither is_alive nor the lock is looked at.
StartBlind(t) ==
  /\ At(t, "start")
  /\ Goto(t, "spawn")
  /\ UNCHANGED <<storage, server, os, failed, lost>>

\* if self.is_alive: return True; and _is_locked.
Start(t) ==
  /\ At(t, "start")
  /\ IF Alive(Me(t).proc) THEN Return(t)
     ELSE Goto(t, IF Me(t).lock \/ Serving(Self(t)) # {} THEN "repair"
                  ELSE "spawn")
  /\ UNCHANGED <<storage, server, os, failed, lost>>

\* repair_mongo: Popen of mongod --repair ...
Repair(t) ==
  /\ At(t, "repair")
  /\ Me(t).repair # "runs"
  /\ server' = [server EXCEPT ![Self(t)].repair = "runs"]
  /\ Goto(t, "repairing")
  /\ UNCHANGED <<storage, os, failed, lost>>

\* ... and readline(), which returns when the repair ends: it logs to a file.
Repaired(t) ==
  /\ At(t, "repairing")
  /\ Me(t).repair = "done"
  /\ server' = [server EXCEPT ![Self(t)].repair = "none"]
  /\ Goto(t, "spawn")
  /\ UNCHANGED <<storage, os, failed, lost>>

\* Popen raises, the dbpath is in use, the repair has failed, or a line came
\* after the 45 seconds; then the repair is terminated and not waited for.
\* start() does not catch the Exception.
RepairFails(t) ==
  /\ At(t, "repair") \/ (At(t, "repairing") /\ Me(t).repair # "done")
  /\ Raise(t)
  /\ UNCHANGED <<storage, server, os, failed>>

\* mprocess: Popen with the config file.
Spawn(t, p) ==
  /\ At(t, "spawn")
  /\ Me(t).conf
  /\ FreshPid(p)
  /\ os' = [os EXCEPT ![p] = [obj |-> Self(t), auth |-> Me(t).auth,
                              st |-> "boot"]]
  /\ thread' = [thread EXCEPT ![t].pc = "wait", ![t].child = p]
  /\ UNCHANGED <<storage, server, failed, lost>>

\* mprocess: there is no config file, or Popen raises OSError.
SpawnFails(t) ==
  /\ At(t, "spawn")
  /\ Raise(t)
  /\ UNCHANGED <<storage, server, os, failed>>

\* wait_for: somebody answers at the port; start() keeps the Popen object.
WaitConnects(t) ==
  /\ At(t, "wait")
  /\ Alive(thread[t].child)
  /\ Serving(Self(t)) # {}
  /\ server' = [server EXCEPT ![Self(t)].proc = thread[t].child]
  /\ thread' = [thread EXCEPT ![t].pc = "is_master", ![t].child = NoPid]
  /\ UNCHANGED <<storage, os, failed, lost>>

\* wait_for: proc.poll() is not None, OSError.
WaitDies(t) ==
  /\ At(t, "wait")
  /\ ~Alive(thread[t].child)
  /\ Raise(t)
  /\ UNCHANGED <<storage, server, os, failed>>

\* SIGTERM to p, if it is still there.
Terminated(p) == IF Alive(p) THEN [os EXCEPT ![p].st = "exiting"] ELSE os

\* Mutant: a child that does not answer in time is left alone.
WaitTimesOutLeaves(t) ==
  /\ At(t, "wait")
  /\ Raise(t)
  /\ UNCHANGED <<storage, server, os, failed>>

\* Mutant: wait_for has no timeout of its own.
WaitTimesOutDead(t) ==
  /\ At(t, "wait")
  /\ ~Alive(thread[t].child)
  /\ Goto(t, "reap_child")
  /\ UNCHANGED <<storage, server, os, failed, lost>>

\* wait_for: the timeout; kill_mprocess terminates the child ...
WaitTimesOut(t) ==
  /\ At(t, "wait")
  /\ os' = Terminated(thread[t].child)
  /\ Goto(t, "reap_child")
  /\ UNCHANGED <<storage, server, failed, lost>>

\* ... waits for it to exit, and mprocess raises TimeoutError.
ReapChild(t) ==
  /\ At(t, "reap_child")
  /\ ~Alive(thread[t].child)
  /\ Raise(t)
  /\ UNCHANGED <<storage, server, os, failed>>

\* The connection property logs in once the server has been restarted with
\* authentication; that fails if the user is not there.
CanConnect(o) ==
  /\ Serving(o) # {}
  /\ server[o].login /\ ~server[o].restart_required => server[o].users

\* isMaster answers.
IsMaster(t) ==
  /\ At(t, "is_master")
  /\ CanConnect(Self(t))
  /\ IF Me(t).restart_required THEN Goto(t, "add_users") ELSE Return(t)
  /\ UNCHANGED <<storage, server, os, failed, lost>>

\* Six ConnectionFailures, or an OperationFailure: start() raises and leaves
\* the process as it is.
IsMasterFails(t) ==
  /\ At(t, "is_master")
  /\ failed' = failed \cup {Self(t)}
  /\ Raise(t)
  /\ UNCHANGED <<storage, server, os>>

\* _add_users; an OperationFailure is swallowed.  Then stop().
AddUsers(t) ==
  /\ At(t, "add_users")
  /\ Serving(Self(t)) # {}
  /\ \E ok \in BOOLEAN : server' = [server EXCEPT ![Self(t)].users = @ \/ ok]
  /\ Call(t, "stop", "secure")
  /\ UNCHANGED <<storage, os, failed, lost>>

\* _add_users: a ConnectionFailure is not swallowed.
AddUsersFails(t) ==
  /\ At(t, "add_users")
  /\ failed' = failed \cup {Self(t)}
  /\ Raise(t)
  /\ UNCHANGED <<storage, server, os>>

\* Mutant: the configuration is written again as it was.
SecureForgets(t) ==
  /\ At(t, "secure")
  /\ server' = [server EXCEPT ![Self(t)].restart_required = FALSE]
  /\ Goto(t, "start")
  /\ UNCHANGED <<storage, os, failed, lost>>

\* A new config file with auth and keyFile, and start() again.  Nothing names
\* the first file any more.
Secure(t) ==
  /\ At(t, "secure")
  /\ server' = [server EXCEPT ![Self(t)].auth = TRUE,
                              ![Self(t)].restart_required = FALSE,
                              ![Self(t)].old = @ \/ Me(t).conf,
                              ![Self(t)].conf = TRUE,
                              ![Self(t)].data = TRUE]
  /\ Goto(t, "start")
  /\ UNCHANGED <<storage, os, failed, lost>>

-----------------------------------------------------------------------------
(***************************************************************************)
(* Server.stop and Server.restart                                          *)
(***************************************************************************)
\* shutdown(): return early if the server has already exited.
Stop(t) ==
  /\ At(t, "stop")
  /\ IF Alive(Me(t).proc)
     THEN thread' = [thread EXCEPT ![t].pc = "shutdown", ![t].tries = 0]
     ELSE Return(t)
  /\ UNCHANGED <<storage, server, os, failed, lost>>

\* The shutdown command reaches whoever serves the port, or gets lost: a
\* ConnectionFailure is swallowed.
Shutdown(t) ==
  /\ At(t, "shutdown")
  /\ CanConnect(Self(t)) \/ thread[t].tries = 1
  /\ \E reached \in BOOLEAN :
       os' = [p \in Pid |-> IF reached /\ p \in Serving(Self(t))
                            THEN [os[p] EXCEPT !.st = "exiting"] ELSE os[p]]
  /\ Goto(t, "await")
  /\ UNCHANGED <<storage, server, failed, lost>>

\* No connection, or the command is refused: PyMongoError.
ShutdownFails(t) ==
  /\ At(t, "shutdown")
  /\ Goto(t, "kill")
  /\ UNCHANGED <<storage, server, os, failed, lost>>

\* Mutant: the exit of the process is not waited for.
AwaitedEarly(t) ==
  /\ At(t, "await")
  /\ Return(t)
  /\ UNCHANGED <<storage, server, os, failed, lost>>

\* wait_mprocess(self.proc, 5) returns the exit code.
Awaited(t) ==
  /\ At(t, "await")
  /\ ~Alive(Me(t).proc)
  /\ Return(t)
  /\ UNCHANGED <<storage, server, os, failed, lost>>

\* Mutant: the attempts are counted without a bound.
AwaitTimesOutMore(t) ==
  /\ At(t, "await")
  /\ thread' = [thread EXCEPT ![t].pc = "shutdown",
                              ![t].tries = thread[t].tries + 1]
  /\ thread[t].tries < 3
  /\ UNCHANGED <<storage, server, os, failed, lost>>

\* Five seconds are over: a second attempt, then ServersError.
AwaitTimesOut(t) ==
  /\ At(t, "await")
  /\ thread' = [thread EXCEPT
       ![t].pc = IF thread[t].tries = 0 THEN "shutdown" ELSE "kill",
       ![t].tries = 1]
  /\ UNCHANGED <<storage, server, os, failed, lost>>

\* kill_mprocess(self.proc): terminate() ...
Kill(t) ==
  /\ At(t, "kill")
  /\ os' = Terminated(Me(t).proc)
  /\ thread' = [thread EXCEPT ![t].pc = "reap", ![t].child = Me(t).proc]
  /\ UNCHANGED <<storage, server, failed, lost>>

\* ... and communicate(), which returns when the process is gone.
Reap(t) ==
  /\ At(t, "reap")
  /\ ~Alive(thread[t].child)
  /\ Return(t)
  /\ UNCHANGED <<storage, server, os, failed, lost>>

\* restart(): after stop(), a new config file from the same cfg, and start().
Rewrite(t) ==
  /\ At(t, "rewrite")
  /\ server' = [server EXCEPT ![Self(t)].old = @ \/ Me(t).conf,
                              ![Self(t)].conf = TRUE]
  /\ Goto(t, "start")
  /\ UNCHANGED <<storage, os, failed, lost>>

-----------------------------------------------------------------------------
(***************************************************************************)
(* The processes.                                                          *)
(***************************************************************************)
\* The port and the dbpath are free: the process serves.
Boot(p) ==
  /\ os[p].st = "boot"
  /\ server[os[p].obj].data
  /\ server[os[p].obj].repair # "runs"
  /\ LiveOf(os[p].obj) \ {q \in Pid : os[q].st = "boot"} = {}
  /\ os' = [os EXCEPT ![p].st = "up"]
  /\ UNCHANGED <<storage, server, thread, failed, lost>>

\* A process that boots may exit, and must when it cannot serve.
BootFails(p) ==
  /\ os[p].st = "boot"
  /\ os' = [os EXCEPT ![p] = Gone]
  /\ UNCHANGED <<storage, server, thread, failed, lost>>

\* The end of a shutdown.
Exit(p) ==
  /\ os[p].st = "exiting"
  /\ os' = [os EXCEPT ![p] = Gone]
  /\ UNCHANGED <<storage, server, thread, failed, lost>>

\* kill -9, or a failure of mongod: the lock file stays.
Crash(p) ==
  /\ os[p].st = "up"
  /\ os' = [os EXCEPT ![p] = Gone]
  /\ server' = [server EXCEPT ![os[p].obj].lock = server[os[p].obj].data]
  /\ UNCHANGED <<storage, thread, failed, lost>>

\* The repair exits; it has failed if somebody used the dbpath.
RepairEnds(o) ==
  /\ server[o].repair = "runs"
  /\ \E ok \in BOOLEAN :
       /\ ok => Serving(o) = {} /\ server[o].data
       /\ server' = [server EXCEPT ![o].repair = IF ok THEN "done" ELSE "none",
                                   ![o].lock = @ /\ ~ok]
  /\ UNCHANGED <<storage, os, thread, failed, lost>>

-----------------------------------------------------------------------------
\* What the thread does by itself once it has a request.
Step(t) ==
  \/ Create(t)
  \/ \E o \in Obj, a, b \in BOOLEAN : Construct(t, o, a, b)
  \/ ConstructFails(t)
  \/ Register(t) \/ Store(t)
  \/ \E m \in {"start", "stop", "restart"} : Command(t, m)
  \/ Remove(t) \/ Cleanup(t)
  \/ Start(t) \/ Repair(t) \/ Repaired(t) \/ RepairFails(t)
  \/ \E p \in Pid : Spawn(t, p)
  \/ SpawnFails(t)
  \/ WaitConnects(t) \/ WaitDies(t) \/ WaitTimesOut(t) \/ ReapChild(t)
  \/ IsMaster(t) \/ IsMasterFails(t) \/ AddUsers(t) \/ AddUsersFails(t)
  \/ Secure(t)
  \/ Stop(t) \/ Shutdown(t) \/ ShutdownFails(t)
  \/ Awaited(t) \/ AwaitTimesOut(t) \/ Kill(t) \/ Reap(t) \/ Rewrite(t)

Next ==
  \/ \E t \in Thread, i \in Id, l \in {"create", "command", "remove"} :
       Receive(t, i, l)
  \/ \E t \in Thread : Step(t)
  \/ \E o \in Obj : RepairEnds(o)
  \/ \E p \in Pid : Boot(p) \/ BootFails(p) \/ Exit(p) \/ Crash(p)

Spec == Init /\ [][Next]_vars

\* readline() of repair_mongo waits for the repair, however long it runs.
Reading(t) == At(t, "repairing") /\ Me(t).repair = "runs"

\* A thread goes on when it can.  Nothing makes a process exit.
Fairness == \A t \in Thread : WF_vars(~Reading(t) /\ Step(t))

FairSpec == Spec /\ Fairness

-----------------------------------------------------------------------------
(***************************************************************************)
(* Properties.                                                             *)
(***************************************************************************)
\* A mongod that runs can be reached: its server is registered or in the
\* hands of a request, and the Popen object is known.  The exception is a
\* create() that failed after mprocess() (Server.start, Servers.create).
NoOrphan ==
  \A p \in Pid : Alive(p) =>
    \/ /\ os[p].obj \in Registered \cup InHand
       /\ server[os[p].obj].proc = p \/ \E t \in Thread : thread[t].child = p
    \/ os[p].obj \in lost \cap failed

\* A server as its client sees it: in the making until create() registers it
\* or raises, then under its id until remove() pops it.
Making(o) == \E t \in Thread : Self(t) = o /\ (Creating(t) \/ At(t, "register"))

Place == [o \in Obj |->
  IF o \in Registered THEN CHOOSE i \in Id : storage[i] = o
  ELSE IF Making(o) THEN "making" ELSE "out"]

Running == [p \in Pid |->
  IF Alive(p) THEN [obj |-> os[p].obj, auth |-> os[p].auth] ELSE Gone]

Hard == {o \in Obj : server[o].login /\ ~server[o].restart_required}

Life == INSTANCE ServerLife
          WITH place <- Place, running <- Running, hard <- Hard,
               NoProcess <- Gone

\* Whatever requests, restarts, timeouts and crashes do, the threads implement
\* the life of a server: two mongods never run on the same dbpath, not even
\* for a moment of a restart, no request starts a server that has been
\* removed, and an id names one server at a time (Server.start, stop, restart,
\* Servers.create, command, remove).
Lives == Life!Spec

\* What Servers.remove is done with runs no mongod, and neither its data nor
\* the config file it ran with last is there, unless cleanup() could not remove
\* them.  (A repair that nobody waited for may still run, and the config files
\* of its earlier starts stay: old.)
RemovedIsClean ==
  \A o \in Obj \ (Registered \cup InHand \cup lost) :
    /\ LiveOf(o) = {}
    /\ server[o].data \/ server[o].conf => server[o].kept

\* A server created with a login serves with authentication whenever no
\* request works on it, unless a start() of it failed half way (Server.start).
SecuredServes ==
  \A o \in Registered \ (InHand \cup failed) :
    server[o].login => \A p \in Serving(o) : os[p].auth

\* After the restart with authentication no process of the server is started
\* without it, by any request (Server.start, Server.restart).
SecuredForGood ==
  [][\A p \in Pid :
       ~Alive(p) /\ os'[p].st = "boot" =>
         \/ os'[p].auth
         \/ server[os'[p].obj].login => server[os'[p].obj].restart_required]_vars

\* The waits without a limit: readline() of repair_mongo and communicate() of
\* kill_mprocess, while the process they wait for does not exit.
Stuck(t) ==
  \/ Reading(t)
  \/ thread[t].pc \in {"reap", "reap_child"} /\ Alive(thread[t].child)

\* Every request is answered, through every failed start, second start and
\* second shutdown attempt, unless its thread waits for good for a process
\* that was told to exit or a repair (Server.start, stop, restart).
Replied == \A t \in Thread : []<>At(t, "idle") \/ <>[]Stuck(t)
=============================================================================
