--------------------------- MODULE ReplicaSetInit ---------------------------
(***************************************************************************)
(* How a replica set is created: ReplicaSet.__init__ and what it calls in  *)
(* mongo_orchestration/replica_sets.py, the end of ReplicaSets.create, and *)
(* ReplicaSet.reset of a set that is there.                                *)
(*                                                                         *)
(* One request creates one set.  Its executors run member_create and       *)
(* Server.restart of all members at once, and one that raises does not     *)
(* stop the others.  In between the request waits for mongods that crash,  *)
(* elect, step down and replicate when they like, and for servers that     *)
(* another client may delete.                                              *)
(*                                                                         *)
(* Simplifications: a member stands for its host and its server; a wait    *)
(* may time out at any time; a member that has settled stays so until its  *)
(* process ends; the X.509 user is left out.  So are two branches that     *)
(* pymongo never lets the code reach: a replSetInitiate that answers       *)
(* without ok (it raises), and a set with login and no members.            *)
(***************************************************************************)
EXTENDS Naturals, FiniteSets

CONSTANTS
  Member,       \* the members of the request
  First,        \* the one with index 0
  NoMember,
  Shapes,       \* which members may be arbiters, or may not become primary
  Disturbances  \* bound: crashes and deletions from outside

ASSUME ReplicaSetInitAssumption ==
  /\ IsFiniteSet(Member)
  /\ First \in Member
  /\ NoMember \notin Member
  /\ Shapes \subseteq [arbiters : SUBSET Member, electable : SUBSET Member]
  /\ \A s \in Shapes : s.arbiters \cap s.electable = {}
  /\ Disturbances \in Nat

VARIABLES
  params,            \* rs_params: login, auth_key, and the members' rsParams
  pc,                \* where the request stands
  task,              \* the future of every member in the executor at work
  server_map,        \* ReplicaSet.server_map
  restart_required,  \* ReplicaSet.restart_required
  server,            \* the server of every member
  initiated,         \* the members have a replica set configuration
  primary,           \* the member that is primary, if any
  stored,            \* the set is in the ReplicaSets registry
  reply,             \* what the last request was answered
  disturbed,         \* how many disturbances there have been
  since              \* history: members that went down since reset() began

requestVars == <<pc, task, reply>>
setVars     == <<server_map, restart_required, stored>>
mongoVars   == <<server, initiated, primary>>
history     == <<disturbed, since>>
vars == <<params, pc, task, server_map, restart_required, server, initiated,
          primary, stored, reply, disturbed, since>>

-----------------------------------------------------------------------------
(***************************************************************************)
(* State.                                                                  *)
(***************************************************************************)
Label == {"members", "init", "reach", "initiate", "states", "config", "users",
          "acks", "auth", "restart", "settle", "actualize", "primary",
          "register", "cleanup_init", "cleanup", "reset", "end"}

\* A server: registered in Servers; its process; whether that runs, and is
\* configured to run, with the keyFile; whether connections to it log in; and
\* whether its data have the user.  A process that syncs is in one of the
\* bad_states of check_member_state.
ServerRecord ==
  [reg : BOOLEAN, st : {"none", "sync", "ok", "down"}, keyed : BOOLEAN,
   conf : BOOLEAN, login : BOOLEAN, user : BOOLEAN]

NoServer == [reg |-> FALSE, st |-> "none", keyed |-> FALSE, conf |-> FALSE,
             login |-> FALSE, user |-> FALSE]

Params == [login : BOOLEAN, auth_key : BOOLEAN, shape : Shapes]

TypeOK ==
  /\ params \in Params
  /\ pc \in Label
  /\ task \in [Member -> {"idle", "stopped", "done", "raised"}]
  /\ server_map \subseteq Member
  /\ restart_required \in BOOLEAN
  /\ server \in [Member -> ServerRecord]
  /\ initiated \in BOOLEAN
  /\ primary \in Member \cup {NoMember}
  /\ stored \in BOOLEAN
  /\ reply \in {"none", "ok", "refused", "error"}
  /\ disturbed \in 0..Disturbances
  /\ since \subseteq Member

Arbiters   == params.shape.arbiters
Data       == Member \ Arbiters
Running(m) == server[m].st \in {"sync", "ok"}

NoTask == [m \in Member |-> "idle"]

Init ==
  /\ params \in Params
  /\ pc = "members"
  /\ task = NoTask
  /\ server_map = {}
  /\ restart_required = (params.login \/ params.auth_key)
  /\ server = [m \in Member |-> NoServer]
  /\ initiated = FALSE
  /\ primary = NoMember
  /\ stored = FALSE
  /\ reply = "none"
  /\ disturbed = 0
  /\ since = {}

-----------------------------------------------------------------------------
(***************************************************************************)
(* The control of the request.                                             *)
(***************************************************************************)
At(label) == pc = label

Goto(label) == pc' = label /\ UNCHANGED <<task, reply>>

\* An executor with one task for every member.
Submit(label) == pc' = label /\ task' = NoTask /\ UNCHANGED reply

Ends(m, result) ==
  task' = [task EXCEPT ![m] = result] /\ UNCHANGED <<pc, reply>>

Answer(r) == pc' = "end" /\ reply' = r /\ task' = NoTask

\* An exception leaves the constructor, or reset(): what is there stays.
Raise == Answer("error")

\* Futures are collected when all of them have ended.
Collected(S) == \A m \in S : task[m] \in {"done", "raised"}
Raised(S)    == \E m \in S : task[m] = "raised"

\* connection(): there is a primary, and it knows the user, if the connection
\* logs in.
LogsIn   == params.login /\ ~restart_required
Connects == primary # NoMember /\ (LogsIn => server[primary].user)

-----------------------------------------------------------------------------
(***************************************************************************)
(* The members, and repl_init.                                             *)
(***************************************************************************)
\* member_create: a server without auth is created, started, registered.
MemberCreate(m) ==
  /\ At("members")
  /\ task[m] = "idle"
  /\ server' = [server EXCEPT ![m] = [NoServer EXCEPT !.reg = TRUE,
                                                      !.st = "sync"]]
  /\ Ends(m, "done")
  /\ UNCHANGED <<params, setVars, initiated, primary, history>>

\* Servers.create raises.
MemberFails(m) ==
  /\ At("members")
  /\ task[m] = "idle"
  /\ Ends(m, "raised")
  /\ UNCHANGED <<params, setVars, mongoVars, history>>

\* config_members = [f.result() for f in futures]
MembersEnd ==
  /\ At("members")
  /\ Collected(Member)
  /\ IF Raised(Member) THEN Raise ELSE Goto("init")
  /\ UNCHANGED <<params, setVars, mongoVars, history>>

\* Mutant: without a member that may become primary, None gets into the map.
ReplInitNone ==
  /\ At("init")
  /\ server_map' = Member \cup (IF params.shape.electable = {} THEN {NoMember}
                               ELSE {})
  /\ Goto("reach")
  /\ UNCHANGED <<params, restart_required, stored, mongoVars, history>>

\* update_server_map(config); the first member that may become primary is
\* init_server, and an IndexError when there is none.
ReplInit ==
  /\ At("init")
  /\ server_map' = Member
  /\ IF params.shape.electable = {} THEN Raise ELSE Goto("reach")
  /\ UNCHANGED <<params, restart_required, stored, mongoVars, history>>

\* wait_while_reachable
Reached ==
  /\ At("reach")
  /\ \A m \in server_map : Running(m)
  /\ Goto("initiate")
  /\ UNCHANGED <<params, setVars, mongoVars, history>>

\* "all servers must be reachable": cleanup() and return False
Unreachable ==
  /\ At("reach")
  /\ Submit("cleanup_init")
  /\ UNCHANGED <<params, setVars, mongoVars, history>>

\* replSetInitiate, which needs every member.
Initiate ==
  /\ At("initiate")
  /\ \A m \in server_map : Running(m)
  /\ initiated' = TRUE
  /\ Goto("states")
  /\ UNCHANGED <<params, setVars, server, primary, history>>

\* PyMongoError: raise
InitiateFails ==
  /\ At("initiate")
  /\ Raise
  /\ UNCHANGED <<params, setVars, mongoVars, history>>

\* check_member_state: what replSetGetStatus says of a member that is down is
\* not among the bad states.
MemberStates == Connects /\ \A m \in Member : Running(m) => server[m].st = "ok"

\* return self.waiting_member_state(): True ...
StatesOk ==
  /\ At("states")
  /\ MemberStates
  /\ Goto("config")
  /\ UNCHANGED <<params, setVars, mongoVars, history>>

\* ... or False: cleanup() of the constructor.
StatesTimeOut ==
  /\ At("states")
  /\ Submit("cleanup")
  /\ UNCHANGED <<params, setVars, mongoVars, history>>

-----------------------------------------------------------------------------
(***************************************************************************)
(* cleanup(): member_del(m, reconfig=False) for every member.              *)
(***************************************************************************)
Stopped(m) == IF primary = m THEN NoMember ELSE primary

\* Mutant: a member whose process has gone is not removed.
CleanupMemberRunning(m) ==
  /\ pc \in {"cleanup_init", "cleanup"}
  /\ m \in server_map /\ task[m] = "idle"
  /\ Ends(m, "done")
  /\ server' = IF Running(m) THEN [server EXCEPT ![m] = NoServer] ELSE server
  /\ primary' = Stopped(m)
  /\ UNCHANGED <<params, setVars, initiated, history>>

\* Servers.remove: a KeyError when somebody else has removed the server.
CleanupMember(m) ==
  /\ pc \in {"cleanup_init", "cleanup"}
  /\ m \in server_map /\ task[m] = "idle"
  /\ Ends(m, IF server[m].reg THEN "done" ELSE "raised")
  /\ server' = [server EXCEPT ![m] = NoServer]
  /\ primary' = Stopped(m)
  /\ UNCHANGED <<params, setVars, initiated, history>>

\* server_map.clear(), unless a future raised.  repl_init returns False, and
\* the constructor calls cleanup() again and raises "Could not create replica
\* set."
CleanupEnds ==
  /\ pc \in {"cleanup_init", "cleanup"}
  /\ Collected(server_map)
  /\ IF Raised(server_map) THEN Raise /\ UNCHANGED server_map
     ELSE /\ server_map' = {}
          /\ IF At("cleanup_init") THEN Submit("cleanup")
             ELSE Answer("refused")
  /\ UNCHANGED <<params, restart_required, stored, mongoVars, history>>

-----------------------------------------------------------------------------
(***************************************************************************)
(* The rest of the constructor.                                            *)
(***************************************************************************)
\* check_config_state: every member of the configuration has a server; one
\* that is down is taken to have the default settings, which an arbiter's
\* differ from.
ConfigMatches ==
  /\ Connects
  /\ \A m \in Member : server[m].reg /\ (Running(m) \/ m \notin Arbiters)

\* if not self.waiting_config_state(): raise; it raises by itself when there
\* is no primary, or a server is missing.
ConfigOk ==
  /\ At("config")
  /\ ConfigMatches
  /\ Goto(CASE params.login -> "users"
            [] ~params.login /\ params.auth_key -> "auth"
            [] OTHER -> "settle")
  /\ UNCHANGED <<params, setVars, mongoVars, history>>

ConfigFails ==
  /\ At("config")
  /\ Raise
  /\ UNCHANGED <<params, setVars, mongoVars, history>>

\* The version of the first member's server; _add_users at the primary.
CreateUser ==
  /\ At("users")
  /\ server[First].reg /\ Running(First)
  /\ Connects
  /\ server' = [server EXCEPT ![primary].user = TRUE]
  /\ Goto("acks")
  /\ UNCHANGED <<params, setVars, initiated, primary, history>>

\* Mutant: the default of the driver.
MajorityConcern == Cardinality(Data) \div 2 + 1

\* self._write_concern: the number of data-bearing members.
WriteConcern == Cardinality(Data)

\* createUser returns when so many members have the user.
UserAcked ==
  /\ At("acks")
  /\ Connects
  /\ Cardinality({m \in Data : server[m].user}) >= WriteConcern
  /\ Goto("auth")
  /\ UNCHANGED <<params, setVars, mongoVars, history>>

\* KeyError, ConnectionFailure, AutoReconnect, or the timeout of the socket:
\* the command has no time limit of its own.
UsersFail ==
  /\ pc \in {"users", "acks"}
  /\ Raise
  /\ UNCHANGED <<params, setVars, mongoVars, history>>

\* restart_with_auth: server_instances() is a KeyError when one is missing;
\* then the credentials of all members but arbiters.
RestartWithAuth ==
  /\ At("auth")
  /\ IF \E m \in server_map : ~server[m].reg
     THEN Raise /\ UNCHANGED <<restart_required, server>>
     ELSE /\ restart_required' = FALSE
          /\ server' = [m \in Member |->
               IF m \in Arbiters THEN server[m]
               ELSE [server[m] EXCEPT !.login = params.login]]
          /\ Submit("restart")
  /\ UNCHANGED <<params, server_map, stored, initiated, primary, history>>

\* Mutant: only the members that one can log in to get the keyFile.
RestartStopData(m) ==
  /\ At("restart")
  /\ m \in server_map /\ task[m] = "idle"
  /\ server' = [server EXCEPT ![m].st = IF @ = "none" THEN "none" ELSE "down",
                              ![m].conf = params.auth_key /\ m \in Data]
  /\ primary' = Stopped(m)
  /\ Ends(m, "stopped")
  /\ UNCHANGED <<params, setVars, initiated, history>>

\* Server.restart: stop(), and a configuration from add_auth.
RestartStop(m) ==
  /\ At("restart")
  /\ m \in server_map /\ task[m] = "idle"
  /\ server' = [server EXCEPT ![m].st = IF @ = "none" THEN "none" ELSE "down",
                              ![m].conf = params.auth_key]
  /\ primary' = Stopped(m)
  /\ Ends(m, "stopped")
  /\ UNCHANGED <<params, setVars, initiated, history>>

\* The process of m runs with what is configured for it.
Started(m) == [server EXCEPT ![m].st = "sync", ![m].keyed = server[m].conf]

\* Server.start, whose isMaster logs in.
RestartStart(m) ==
  /\ At("restart")
  /\ task[m] = "stopped"
  /\ server[m].st = "down"
  /\ server[m].login => server[m].user
  /\ server' = Started(m)
  /\ Ends(m, "done")
  /\ UNCHANGED <<params, setVars, initiated, primary, history>>

\* start() raises, before or after the process runs.
RestartFails(m) ==
  /\ At("restart")
  /\ task[m] = "stopped"
  /\ \/ server[m].st = "down" /\ server' = Started(m)
     \/ UNCHANGED server
  /\ Ends(m, "raised")
  /\ UNCHANGED <<params, setVars, initiated, primary, history>>

\* ReplicaSet.restart ends with a wait for the members, whose result is not
\* used.
RestartEnds ==
  /\ At("restart")
  /\ Collected(server_map)
  /\ IF Raised(server_map) THEN Raise ELSE Goto("settle")
  /\ UNCHANGED <<params, setVars, mongoVars, history>>

\* if not self.waiting_member_state() and self.waiting_config_state(): raise
SettleOk ==
  /\ At("settle")
  /\ MemberStates
  /\ Goto("primary")
  /\ UNCHANGED <<params, setVars, mongoVars, history>>

SettleTimesOut ==
  /\ At("settle")
  /\ Goto("actualize")
  /\ UNCHANGED <<params, setVars, mongoVars, history>>

\* The members are not there and the configuration is, or it cannot be read.
Actualized ==
  /\ At("actualize")
  /\ Raise
  /\ UNCHANGED <<params, setVars, mongoVars, history>>

\* Neither is as it should be: the constructor goes on.
ActualizeTimesOut ==
  /\ At("actualize")
  /\ Connects
  /\ \A m \in Member : server[m].reg
  /\ Goto("primary")
  /\ UNCHANGED <<params, setVars, mongoVars, history>>

\* A hundred times: if self.connection().primary: break
PrimaryFound ==
  /\ At("primary")
  /\ Connects
  /\ Goto("register")
  /\ UNCHANGED <<params, setVars, mongoVars, history>>

NoPrimary ==
  /\ At("primary")
  /\ Raise
  /\ UNCHANGED <<params, setVars, mongoVars, history>>

\* ReplicaSets.create: self[repl.repl_id] = repl
Register ==
  /\ At("register")
  /\ stored' = TRUE
  /\ Answer("ok")
  /\ UNCHANGED <<params, server_map, restart_required, mongoVars, history>>

-----------------------------------------------------------------------------
(***************************************************************************)
(* reset(): "Ensure all members are running and available."                *)
(***************************************************************************)
Reset ==
  /\ At("end")
  /\ stored
  /\ pc' = "reset"
  /\ task' = NoTask
  /\ reply' = "none"
  /\ since' = {}
  /\ UNCHANGED <<params, setVars, mongoVars, disturbed>>

\* Mutant: a member that has stopped is left to the next request.
ResetMemberSkips(m) ==
  /\ At("reset")
  /\ m \in server_map /\ task[m] = "idle"
  /\ server[m].reg
  /\ Ends(m, "done")
  /\ UNCHANGED <<params, setVars, mongoVars, history>>

\* Servers.command(server_id, 'reset'): start(), if it does not run.
ResetMember(m) ==
  /\ At("reset")
  /\ m \in server_map /\ task[m] = "idle"
  /\ server[m].reg
  /\ server[m].login => server[m].user
  /\ server' = IF Running(m) THEN server ELSE Started(m)
  /\ Ends(m, "done")
  /\ UNCHANGED <<params, setVars, initiated, primary, history>>

\* A server is missing, or does not start.
ResetFails ==
  /\ At("reset")
  /\ Raise
  /\ UNCHANGED <<params, setVars, mongoVars, history>>

\* The two waits, whose results are not used, and info().
ResetEnds ==
  /\ At("reset")
  /\ Collected(server_map)
  /\ Connects
  /\ Answer("ok")
  /\ UNCHANGED <<params, setVars, mongoVars, history>>

-----------------------------------------------------------------------------
(***************************************************************************)
(* The mongods, and other clients of the service.                          *)
(***************************************************************************)
\* Members talk to each other when they use the same keyFile, or none.
Peers(m) == {n \in Member : Running(n) /\ server[n].keyed = server[m].keyed}

Majority(S) == 2 * Cardinality(S) > Cardinality(Member)

\* A member reaches state 1, 2 or 7.
Settle(m) ==
  /\ initiated
  /\ server[m].st = "sync"
  /\ Majority(Peers(m))
  /\ server' = [server EXCEPT ![m].st = "ok"]
  /\ UNCHANGED <<params, requestVars, setVars, initiated, primary, history>>

\* Only who has every acknowledged write is elected.
Elect(m) ==
  /\ primary = NoMember
  /\ m \in params.shape.electable
  /\ server[m].st = "ok"
  /\ Majority(Peers(m))
  /\ primary' = m
  /\ UNCHANGED <<params, requestVars, setVars, server, initiated, history>>

StepDown ==
  /\ primary # NoMember
  /\ primary' = NoMember
  /\ UNCHANGED <<params, requestVars, setVars, server, initiated, history>>

\* The user is copied from the primary.
Replicate(m) ==
  /\ primary # NoMember
  /\ server[primary].user
  /\ m \in Data \cap Peers(primary)
  /\ ~server[m].user
  /\ server' = [server EXCEPT ![m].user = TRUE]
  /\ UNCHANGED <<params, requestVars, setVars, initiated, primary, history>>

Disturb ==
  /\ disturbed < Disturbances
  /\ disturbed' = disturbed + 1

\* A mongod is killed.
Crash(m) ==
  /\ Running(m)
  /\ Disturb
  /\ server' = [server EXCEPT ![m].st = "down"]
  /\ primary' = Stopped(m)
  /\ since' = since \cup {m}
  /\ UNCHANGED <<params, requestVars, setVars, initiated>>

\* DELETE /servers/<id> of a member's server.
RemoveBehind(m) ==
  /\ server[m].reg
  /\ Disturb
  /\ server' = [server EXCEPT ![m] = NoServer]
  /\ primary' = Stopped(m)
  /\ since' = since \cup {m}
  /\ UNCHANGED <<params, requestVars, setVars, initiated>>

-----------------------------------------------------------------------------
MemberStep(m) ==
  \/ MemberCreate(m) \/ MemberFails(m)
  \/ CleanupMember(m)
  \/ RestartStop(m) \/ RestartStart(m) \/ RestartFails(m)
  \/ ResetMember(m)

Step ==
  \/ MembersEnd \/ ReplInit \/ Reached \/ Unreachable
  \/ Initiate \/ InitiateFails \/ StatesOk \/ StatesTimeOut
  \/ CleanupEnds
  \/ ConfigOk \/ ConfigFails \/ CreateUser \/ UserAcked \/ UsersFail
  \/ RestartWithAuth \/ RestartEnds
  \/ SettleOk \/ SettleTimesOut \/ Actualized \/ ActualizeTimesOut
  \/ PrimaryFound \/ NoPrimary \/ Register
  \/ ResetFails \/ ResetEnds

Environment ==
  \/ StepDown
  \/ \E m \in Member :
       Settle(m) \/ Elect(m) \/ Replicate(m) \/ Crash(m) \/ RemoveBehind(m)

Next ==
  \/ \E m \in Member : MemberStep(m)
  \/ Step
  \/ Reset
  \/ Environment

Spec == Init /\ [][Next]_vars

-----------------------------------------------------------------------------
(***************************************************************************)
(* Properties.                                                             *)
(***************************************************************************)
\* "Could not create replica set.": then nothing of it is left, whichever of
\* the steps of repl_init it was that failed, and whoever crashed meanwhile.
\* Other exceptions leave the servers (ReplicaSet.__init__, cleanup).
RefusedIsEmpty ==
  reply = "refused" => \A m \in Member : server[m] = NoServer

\* Before any connection logs in, every data-bearing member has the user: "if
\* we add a user later, we need to guarantee that every node has the user
\* before we authenticate" (ReplicaSet._write_concern, restart_with_auth).
UserBeforeLogin ==
  params.login /\ ~restart_required =>
    \A m \in Data : server[m].reg => server[m].user

\* A set with an auth_key that a client can use has no member, arbiters and
\* members that were started again included, that runs without the keyFile
\* (restart_with_auth, restart, reset).
StoredKeyed ==
  stored /\ params.auth_key => \A m \in Member : Running(m) => server[m].keyed

\* When reset() has been answered without an error every member runs, but for
\* those that went down after it began.
ResetRevives ==
  [][At("reset") /\ reply' = "ok" =>
       \A m \in server_map : Running(m) \/ m \in since]_vars
=============================================================================
