----------------------------- MODULE ReplicaSet -----------------------------
(***************************************************************************)
(* The members of one replica set: the membership part of class ReplicaSet *)
(* of mongo_orchestration/replica_sets.py, the wrappers of ReplicaSets and *)
(* the handlers of apps/replica_sets.py that reach it.                     *)
(*                                                                         *)
(* Three views of the members have to agree: the configuration that mongod *)
(* replicates (a list of members, each with an _id), server_map (_id to    *)
(* host, what every call looks hosts up in), and the servers registered in *)
(* Servers, which run the processes.  A request changes them one after the *)
(* other, with a reconfig in between that mongod may refuse.               *)
(*                                                                         *)
(* Simplifications: a host stands for the server that has its port, so the *)
(* port of a registered server is not handed out again; all members vote;  *)
(* replSetReconfig is atomic at the primary; the waits may time out at any *)
(* time; member settings other than _id and host are left out.  The reset  *)
(* of a set is in ReplicaSetInit.                                          *)
(***************************************************************************)
EXTENDS Naturals, Sequences, FiniteSets, SequencesExt, FiniteSetsExt

CONSTANTS
  Host,        \* hosts of servers that may become members
  NoHost,
  Members,     \* how many members the set is created with
  MaxId,       \* bound: the largest member _id of the model
  MaxVersion,  \* bound: the largest configuration version of the model
  Thread       \* worker threads

ASSUME ReplicaSetAssumption ==
  /\ IsFiniteSet(Host)
  /\ NoHost \notin Host
  /\ Members \in 1..Cardinality(Host)
  /\ MaxId \in Nat /\ MaxVersion \in Nat
  /\ Members <= MaxId + 1

VARIABLES
  config,      \* the members of the replica set configuration
  version,     \* its version
  primary,     \* the host that is primary, if any
  server_map,  \* ReplicaSet.server_map
  servers,     \* the hosts of the servers in the Servers registry
  up,          \* the hosts at which a mongod runs
  stored,      \* the replica set is in the ReplicaSets registry
  request,     \* the request every thread serves
  surprise     \* history: what has gone wrong so far

vars == <<config, version, primary, server_map, servers, up, stored, request,
          surprise>>

-----------------------------------------------------------------------------
(***************************************************************************)
(* State.                                                                  *)
(***************************************************************************)
MemberId == 0..MaxId
Member   == [_id : MemberId, host : Host]

Label == {"idle", "add", "create", "del", "status", "pop", "update",
          "reconfig", "wait", "map", "finish", "remove", "store", "cleanup",
          "command", "run", "kept"}

Idle == [pc |-> "idle", op |-> "idle", id |-> 0, host |-> NoHost,
         cfg |-> <<>>, base |-> 0, todo |-> {}, raises |-> FALSE]

\* What can happen that the handlers do not repair:
\*   gap        the _ids of the configuration are not its positions any more
\*   reconnect  repl_update took a lost connection for a success
\*   abort      a request raised between two of its changes
\*   restored   a replica set was stored again after its DELETE
\*   overlap    two requests were under way at once
\*   revived    a command registered a server again that had been removed
\*   reused     a new server got a port that a request or a view still names
Surprise == {"gap", "reconnect", "abort", "restored", "overlap", "revived",
             "reused"}

TypeOK ==
  /\ config \in Seq(Member)
  /\ version \in 0..MaxVersion
  /\ primary \in Host \cup {NoHost}
  /\ DOMAIN server_map \subseteq MemberId
  /\ \A m \in DOMAIN server_map : server_map[m] \in Host
  /\ servers \subseteq Host
  /\ up \subseteq Host
  /\ stored \in BOOLEAN
  /\ surprise \subseteq Surprise
  /\ \A t \in Thread :
       /\ request[t].pc \in Label
       /\ request[t].host \in Host \cup {NoHost}
       /\ request[t].cfg \in Seq(Member)
       /\ request[t].todo \subseteq MemberId

Ids(c)   == {c[k]._id : k \in DOMAIN c}
Hosts(c) == {c[k].host : k \in DOMAIN c}

\* update_server_map
ServerMap(c) ==
  [m \in Ids(c) |-> (CHOOSE x \in ToSet(c) : x._id = m).host]

\* Positions count from 0, as in the code.
Dense(c) == \A k \in DOMAIN c : c[k]._id = k - 1

Majority(c, S) == 2 * Cardinality(Hosts(c) \cap S) > Len(c)

Quiet == \A t \in Thread : request[t].pc = "idle"

\* A set that __init__ has created: members 0 .. Members - 1, all running.
Init ==
  /\ \E hosts \in [1..Members -> Host] :
       /\ \A j, k \in 1..Members : hosts[j] = hosts[k] => j = k
       /\ config = [k \in 1..Members |-> [_id |-> k - 1, host |-> hosts[k]]]
  /\ version = 0
  /\ primary \in Hosts(config)
  /\ server_map = ServerMap(config)
  /\ servers = Hosts(config)
  /\ up = servers
  /\ stored = TRUE
  /\ request = [t \in Thread |-> Idle]
  /\ surprise = {}

-----------------------------------------------------------------------------
(***************************************************************************)
(* The control of a thread.                                                *)
(***************************************************************************)
At(t, label)   == request[t].pc = label
Goto(t, label) == request' = [request EXCEPT ![t].pc = label]
Reply(t)       == request' = [request EXCEPT ![t] = Idle]

\* An exception ends the request with an error reply.  Half is TRUE when the
\* request has already changed something.
Raise(t, half) ==
  /\ Reply(t)
  /\ surprise' = IF half THEN surprise \cup {"abort"} ELSE surprise

setVars   == <<config, version, primary>>
localVars == <<server_map, servers, up, stored>>

Operation == {"add", "del", "update", "command", "cleanup"}

\* The handlers answer 404 when the replica set is not stored.
Receive(t, op, m) ==
  /\ At(t, "idle")
  /\ stored
  /\ op \in Operation
  /\ surprise' = IF Quiet THEN surprise ELSE surprise \cup {"overlap"}
  /\ IF op = "cleanup"
     THEN /\ stored' = FALSE
          /\ request' = [request EXCEPT ![t].pc = op, ![t].op = op,
                                        ![t].todo = DOMAIN server_map]
     ELSE /\ request' = [request EXCEPT ![t].pc = op, ![t].op = op,
                                        ![t].id = IF op = "add" THEN 0 ELSE m]
          /\ UNCHANGED stored
  /\ UNCHANGED <<setVars, server_map, servers, up>>

\* Every command goes to the primary; connection() gives up after a minute.
NoPrimary(t) ==
  /\ request[t].pc \in {"add", "status", "pop", "update", "wait", "finish"}
  /\ primary = NoHost
  /\ Raise(t, request[t].pc \in {"wait", "finish"})
  /\ UNCHANGED <<setVars, localVars>>

-----------------------------------------------------------------------------
(***************************************************************************)
(* repl_member_add                                                         *)
(***************************************************************************)
\* repl_config = self.config; member_id = max(...) + 1
AddRead(t) ==
  /\ At(t, "add")
  /\ primary # NoHost
  /\ config # <<>> /\ Max(Ids(config)) < MaxId
  /\ request' = [request EXCEPT ![t].pc = "create", ![t].cfg = config,
                                ![t].base = version,
                                ![t].id = Max(Ids(config)) + 1]
  /\ UNCHANGED <<setVars, localVars, surprise>>

\* The pool hands out ports that nobody listens on: of a server that has been
\* removed, too.
Free(h) == h \notin servers \cup up

\* No view of the members names the host any more.
Unmentioned(h) ==
  /\ h \notin Hosts(config)
  /\ \A m \in DOMAIN server_map : server_map[m] # h
  /\ \A t \in Thread : h # request[t].host /\ h \notin Hosts(request[t].cfg)

\* member_create: a new server with a port of its own is registered.
AddCreate(t, h) ==
  /\ At(t, "create")
  /\ Free(h)
  /\ surprise' = IF Unmentioned(h) THEN surprise
                 ELSE surprise \cup {"reused"}
  /\ servers' = servers \cup {h}
  /\ up' = up \cup {h}
  /\ request' = [request EXCEPT
       ![t].pc = "reconfig", ![t].host = h, ![t].id = 0,
       ![t].cfg = Append(@, [_id |-> request[t].id, host |-> h])]
  /\ UNCHANGED <<setVars, server_map, stored>>

\* Servers.create raises; its mongod may run, without being registered.
AddCreateFails(t) ==
  /\ At(t, "create")
  /\ \/ UNCHANGED up
     \/ \E h \in Host : Free(h) /\ up' = up \cup {h}
  /\ Raise(t, FALSE)
  /\ UNCHANGED <<setVars, server_map, servers, stored>>

-----------------------------------------------------------------------------
(***************************************************************************)
(* member_del and member_update                                            *)
(***************************************************************************)
\* server_id = host_to_server_id(member_id_to_host(member_id)): KeyError for
\* an unknown member, None for a host that no server has.
DelLookup(t) ==
  /\ At(t, "del")
  /\ LET m == request[t].id IN
       IF m \notin DOMAIN server_map THEN Raise(t, FALSE)
       ELSE /\ request' = [request EXCEPT
                 ![t].pc = "status",
                 ![t].host = IF server_map[m] \in servers THEN server_map[m]
                             ELSE NoHost]
            /\ UNCHANGED surprise
  /\ UNCHANGED <<setVars, localVars>>

\* member_id in [member['_id'] for member in self.members()]
DelStatus(t) ==
  /\ At(t, "status")
  /\ primary # NoHost
  /\ IF request[t].id \in Ids(config) THEN Goto(t, "pop")
     ELSE request' = [request EXCEPT ![t].pc = "remove", ![t].id = 0]
  /\ UNCHANGED <<setVars, localVars, surprise>>

\* config['members'].pop(member_id): by position.
DelPop(t) ==
  /\ At(t, "pop")
  /\ primary # NoHost
  /\ LET k == request[t].id + 1 IN
       IF k > Len(config) THEN Raise(t, FALSE)
       ELSE /\ request' = [request EXCEPT
                 ![t].pc = "reconfig", ![t].cfg = RemoveAt(config, k),
                 ![t].base = version, ![t].id = 0]
            /\ UNCHANGED surprise
  /\ UNCHANGED <<setVars, localVars>>

\* config['members'][member_id].update(...): by position.
Update(t) ==
  /\ At(t, "update")
  /\ primary # NoHost
  /\ LET k == request[t].id + 1 IN
       IF k > Len(config) THEN Raise(t, FALSE)
       ELSE /\ request' = [request EXCEPT
                 ![t].pc = "reconfig", ![t].cfg = config,
                 ![t].base = version, ![t].id = 0]
            /\ UNCHANGED surprise
  /\ UNCHANGED <<setVars, localVars>>

\* self._servers.remove(server_id)
DelRemove(t) ==
  /\ At(t, "remove")
  /\ LET h == request[t].host IN
       IF h \notin servers
       THEN Raise(t, TRUE) /\ UNCHANGED <<servers, up, primary>>
       ELSE /\ servers' = servers \ {h}
            /\ up' = up \ {h}
            /\ primary' = IF primary = h THEN NoHost ELSE primary
            /\ Goto(t, "store")
            /\ UNCHANGED surprise
  /\ UNCHANGED <<config, version, server_map, stored>>

-----------------------------------------------------------------------------
(***************************************************************************)
(* member_command, Servers.command                                         *)
(***************************************************************************)
\* Mutant: the None of host_to_server_id is taken for a server.
CommandLookupNone(t) ==
  /\ At(t, "command")
  /\ request[t].id \in DOMAIN server_map
  /\ LET h == server_map[request[t].id] IN
       request' = [request EXCEPT ![t].pc = "run", ![t].id = 0,
                                  ![t].host = IF h \in servers THEN h
                                              ELSE NoHost]
  /\ UNCHANGED <<setVars, localVars, surprise>>

\* server_id = host_to_server_id(member_id_to_host(member_id)), then
\* server = self._storage[server_id]: a KeyError if there is none.
CommandLookup(t) ==
  /\ At(t, "command")
  /\ LET m == request[t].id IN
       IF m \in DOMAIN server_map /\ server_map[m] \in servers
       THEN /\ request' = [request EXCEPT ![t].pc = "run", ![t].id = 0,
                                          ![t].host = server_map[m]]
            /\ UNCHANGED surprise
       ELSE Raise(t, FALSE)
  /\ UNCHANGED <<setVars, localVars>>

\* server.start(), stop() or restart(), which stops and then starts, on the
\* Server in hand: another request may remove it meanwhile.
CommandStarts(t) ==
  /\ At(t, "run")
  /\ up' = up \cup {request[t].host}
  /\ Goto(t, "kept")
  /\ UNCHANGED <<setVars, server_map, servers, stored, surprise>>

CommandStops(t) ==
  /\ At(t, "run")
  /\ up' = up \ {request[t].host}
  /\ primary' = IF primary = request[t].host THEN NoHost ELSE primary
  /\ \E next \in {"run", "kept"} : Goto(t, next)
  /\ UNCHANGED <<config, version, server_map, servers, stored, surprise>>

\* start raises, its mongod may run: nothing is stored back.
CommandFails(t) ==
  /\ At(t, "run")
  /\ up' \in {up, up \cup {request[t].host}}
  /\ Raise(t, FALSE)
  /\ UNCHANGED <<setVars, server_map, servers, stored>>

\* self._storage[server_id] = server: it is registered, whoever removed it.
CommandKept(t) ==
  /\ At(t, "kept")
  /\ servers' = servers \cup {request[t].host}
  /\ surprise' = IF request[t].host \in servers THEN surprise
                 ELSE surprise \cup {"revived"}
  /\ Goto(t, "store")
  /\ UNCHANGED <<setVars, server_map, up, stored>>

-----------------------------------------------------------------------------
(***************************************************************************)
(* repl_update                                                             *)
(***************************************************************************)
\* Mutant: the version is not looked at (a reconfig with force).
AcceptableForced(c, v) == primary \in Hosts(c) /\ Majority(c, up)

\* mongod takes a configuration that is newer than its own, that the primary
\* is in, and of which a majority can be reached.
Acceptable(c, v) ==
  /\ v > version
  /\ primary \in Hosts(c)
  /\ Majority(c, up)

Apply(c, v) ==
  /\ config' = c
  /\ version' = v
  /\ surprise' = IF Dense(c) THEN surprise ELSE surprise \cup {"gap"}

\* The local configuration is not used any more.
Waits(t) ==
  request' = [request EXCEPT ![t].pc = "wait", ![t].cfg = <<>>, ![t].base = 0]

\* cfg['version'] += 1; replSetReconfig
Reconfig(t) ==
  /\ At(t, "reconfig")
  /\ request[t].base < MaxVersion
  /\ Acceptable(request[t].cfg, request[t].base + 1)
  /\ Apply(request[t].cfg, request[t].base + 1)
  /\ Waits(t)
  /\ UNCHANGED <<primary, localVars>>

\* Mutant: the refusal is taken for a reconfiguration.
ReconfigRefusedIgnored(t) ==
  /\ At(t, "reconfig")
  /\ Waits(t)
  /\ UNCHANGED <<setVars, localVars, surprise>>

\* OperationFailure, which repl_update does not catch.
ReconfigRefused(t) ==
  /\ At(t, "reconfig")
  /\ Raise(t, request[t].op = "add")
  /\ UNCHANGED <<setVars, localVars>>

\* AutoReconnect: the connection is lost, before or after the primary has
\* applied the configuration.  server_map is made from the new one.
ReconfigReconnect(t) ==
  /\ At(t, "reconfig")
  /\ request[t].base < MaxVersion
  /\ server_map' = ServerMap(request[t].cfg)
  /\ \/ /\ Acceptable(request[t].cfg, request[t].base + 1)
        /\ Apply(request[t].cfg, request[t].base + 1)
     \/ /\ surprise' = surprise \cup {"reconnect"}
        /\ UNCHANGED <<config, version>>
  /\ Waits(t)
  /\ UNCHANGED <<primary, servers, up, stored>>

\* waiting_config_state, check_config_state: config = self.config ...
WaitRead(t) ==
  /\ At(t, "wait")
  /\ primary # NoHost
  /\ request' = [request EXCEPT ![t].pc = "map", ![t].cfg = config]
  /\ UNCHANGED <<setVars, localVars, surprise>>

\* ... update_server_map(config), and member_info of every member, a KeyError
\* if one of them has no server.  The loop goes round until the members report
\* what the configuration says, or time is over.
WaitMap(t) ==
  /\ At(t, "map")
  /\ server_map' = ServerMap(request[t].cfg)
  /\ IF Hosts(request[t].cfg) \subseteq servers
     THEN /\ \E next \in {"wait", "finish"} :
               request' = [request EXCEPT ![t].pc = next, ![t].cfg = <<>>]
          /\ UNCHANGED surprise
     ELSE Raise(t, TRUE)
  /\ UNCHANGED <<setVars, servers, up, stored>>

\* return self.connection() and True
Finish(t) ==
  /\ At(t, "finish")
  /\ primary # NoHost
  /\ Goto(t, IF request[t].op = "del" THEN "remove" ELSE "store")
  /\ UNCHANGED <<setVars, localVars, surprise>>

\* ReplicaSets: self[repl_id] = repl
Store(t) ==
  /\ At(t, "store")
  /\ stored' = TRUE
  /\ surprise' = IF stored THEN surprise ELSE surprise \cup {"restored"}
  /\ Reply(t)
  /\ UNCHANGED <<setVars, server_map, servers, up>>

-----------------------------------------------------------------------------
(***************************************************************************)
(* ReplicaSets.remove, ReplicaSet.cleanup: member_del(m, reconfig=False)   *)
(* for every member, by the executor's threads.                            *)
(***************************************************************************)
\* Mutant: only a member that runs is removed.
CleanupMemberUp(t, m) ==
  /\ At(t, "cleanup")
  /\ m \in request[t].todo
  /\ LET gone == IF server_map[m] \in up THEN {server_map[m]} ELSE {}
     IN  /\ servers' = servers \ gone
         /\ up' = up \ gone
         /\ primary' = IF primary \in gone THEN NoHost ELSE primary
         /\ request' = [request EXCEPT ![t].todo = @ \ {m}]
  /\ UNCHANGED <<config, version, server_map, stored, surprise>>

CleanupMember(t, m) ==
  /\ At(t, "cleanup")
  /\ m \in request[t].todo
  /\ LET known == m \in DOMAIN server_map /\ server_map[m] \in servers
         gone  == IF known THEN {server_map[m]} ELSE {}
     IN  /\ servers' = servers \ gone
         /\ up' = up \ gone
         /\ primary' = IF primary \in gone THEN NoHost ELSE primary
         /\ request' = [request EXCEPT ![t].todo = @ \ {m},
                                       ![t].raises = @ \/ ~known]
  /\ UNCHANGED <<config, version, server_map, stored, surprise>>

\* f.result() raises what a member_del raised, else server_map.clear()
CleanupEnds(t) ==
  /\ At(t, "cleanup")
  /\ request[t].todo = {}
  /\ IF request[t].raises THEN Raise(t, TRUE) /\ UNCHANGED server_map
     ELSE /\ Reply(t)
          /\ server_map' = <<>>
          /\ UNCHANGED surprise
  /\ UNCHANGED <<setVars, servers, up, stored>>

-----------------------------------------------------------------------------
(***************************************************************************)
(* The replica set itself.                                                 *)
(***************************************************************************)
\* A mongod ends: a crash, or somebody stops it from outside.
Down(h) ==
  /\ h \in up
  /\ up' = up \ {h}
  /\ primary' = IF primary = h THEN NoHost ELSE primary
  /\ UNCHANGED <<config, version, server_map, servers, stored, request,
                 surprise>>

StepDown ==
  /\ primary # NoHost
  /\ primary' = NoHost
  /\ UNCHANGED <<config, version, localVars, request, surprise>>

Elect(h) ==
  /\ primary = NoHost
  /\ h \in up \cap Hosts(config)
  /\ Majority(config, up)
  /\ primary' = h
  /\ UNCHANGED <<config, version, localVars, request, surprise>>

-----------------------------------------------------------------------------
Step(t) ==
  \/ NoPrimary(t)
  \/ AddRead(t) \/ (\E h \in Host : AddCreate(t, h)) \/ AddCreateFails(t)
  \/ DelLookup(t) \/ DelStatus(t) \/ DelPop(t) \/ DelRemove(t)
  \/ Update(t)
  \/ CommandLookup(t) \/ CommandStarts(t) \/ CommandStops(t)
  \/ CommandFails(t) \/ CommandKept(t)
  \/ Reconfig(t) \/ ReconfigRefused(t) \/ ReconfigReconnect(t)
  \/ WaitRead(t) \/ WaitMap(t) \/ Finish(t) \/ Store(t)
  \/ (\E m \in MemberId : CleanupMember(t, m)) \/ CleanupEnds(t)

Mongod ==
  \/ \E h \in Host : Down(h) \/ Elect(h)
  \/ StepDown

Next ==
  \/ \E t \in Thread, op \in Operation, m \in MemberId : Receive(t, op, m)
  \/ \E t \in Thread : Step(t)
  \/ Mongod

Spec == Init /\ [][Next]_vars

-----------------------------------------------------------------------------
(***************************************************************************)
(* Properties.                                                             *)
(***************************************************************************)
\* Between requests the configured members are the registered servers of the
\* replica set, also after requests that overlapped, and server_map knows each
\* of them unless they did: through elections, crashes, commands, and deletes
\* and updates that mongod refused.  It is no promise once a request has
\* raised between two of its changes (an add that mongod refused, a primary
\* lost while a request waited), or something else of Surprise has happened
\* (repl_member_add, member_del, member_command, repl_update).
Consistent ==
  Quiet /\ stored /\ surprise \subseteq {"overlap"} =>
    /\ Hosts(config) = servers
    /\ surprise = {} => server_map = ServerMap(config)

\* A server that a member delete stops is not in the configuration any more,
\* also when another request reconfigures meanwhile (member_del).
RemovesOutsiders ==
  [][\A t \in Thread :
       At(t, "remove") /\ request'[t].pc = "store"
         /\ surprise \cap {"gap", "reconnect", "reused"} = {}
       => request[t].host \notin Hosts(config)]_vars

\* Something that the handlers do not repair has happened to the members.
Disturbed == surprise \cap {"gap", "reconnect", "restored", "reused"} # {}

Life == INSTANCE MemberLife WITH
  members <- Hosts(config), open <- stored, disturbed <- Disturbed

\* The hosts join and leave the configuration one at a time, with a registered
\* server, and a server goes after its host: no reconfiguration undoes another
\* one, whichever requests overlap, are refused or raise half way
\* (repl_member_add, member_del, repl_update, ReplicaSet.cleanup).
Lives == Life!Spec

\* At any time, in the middle of requests too and after requests that raised, a
\* configured member of a stored replica set has a registered server: members
\* and member_info find it (host_to_server_id).
MembersServed == Life!Served

\* A DELETE of the replica set that no other request overlaps leaves no server
\* of it registered, members that are down included (ReplicaSet.cleanup).
CleanupComplete ==
  Quiet /\ ~stored /\ surprise = {} => servers = {}

\* member_del ("remove member from replica set") removes the member it is asked
\* to remove, from the configuration and from the servers.
AgreeWithGaps ==
  Quiet /\ stored /\ surprise \subseteq {"gap"} => Hosts(config) = servers
=============================================================================
