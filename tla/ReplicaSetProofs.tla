-------------------------- MODULE ReplicaSetProofs --------------------------
(***************************************************************************)
(* Theorems about ReplicaSet, for any number of hosts, member _ids,        *)
(* versions of the configuration and worker threads.                       *)
(*                                                                         *)
(* A request changes a copy of the configuration, which mongod takes some  *)
(* time later.  What a copy that is still acceptable says (Derived), what  *)
(* is known of a host that is being added (Fresh) and of one that is being *)
(* deleted (Outside) make every step one of MemberLife, and keep the       *)
(* configuration, server_map and the registry together.                    *)
(***************************************************************************)
EXTENDS ReplicaSet, SequenceLemmas, TLAPS

-----------------------------------------------------------------------------
(***************************************************************************)
(* Configurations.                                                         *)
(***************************************************************************)
\* A configuration lists the members in the order of their _ids: a new member
\* gets the largest _id and comes last, a deleted one leaves a gap.
Sorted(c) == \A j, k \in 1..Len(c) : j < k => c[j]._id < c[k]._id

LEMMA MemberFields ==
  ASSUME NEW c \in Seq(Member), NEW k \in 1..Len(c)
  PROVE  /\ c[k]._id \in MemberId /\ c[k]._id \in Nat
         /\ c[k].host \in Host /\ c[k].host # NoHost
         /\ c[k] = [_id |-> c[k]._id, host |-> c[k].host]
<1>1. c[k] \in Member
  OBVIOUS
<1>2. QED
  BY <1>1, ReplicaSetAssumption DEF Member, MemberId

LEMMA Views ==
  ASSUME NEW c \in Seq(Member)
  PROVE  /\ Ids(c) = {c[k]._id : k \in 1..Len(c)}
         /\ Hosts(c) = {c[k].host : k \in 1..Len(c)}
         /\ ToSet(c) = {c[k] : k \in 1..Len(c)}
         /\ Ids(c) \subseteq MemberId /\ Hosts(c) \subseteq Host
         /\ NoHost \notin Hosts(c)
<1>1. DOMAIN c = 1..Len(c)
  OBVIOUS
<1>2. \A k \in 1..Len(c) : /\ c[k]._id \in MemberId
                           /\ c[k].host \in Host /\ c[k].host # NoHost
  BY MemberFields
<1>3. QED
  BY <1>1, <1>2 DEF Ids, Hosts, ToSet

\* max([member['_id'] for member in repl_config['members']])
LEMMA LargestId ==
  ASSUME NEW c \in Seq(Member), Sorted(c), c # <<>>
  PROVE  /\ Max(Ids(c)) \in MemberId
         /\ \A k \in 1..Len(c) : c[k]._id <= Max(Ids(c))
<1> DEFINE n == Len(c)
<1>1. n \in 1..n /\ n \in Nat
  OBVIOUS
<1>2. c[n]._id \in Ids(c) /\ Ids(c) \subseteq Nat
  BY <1>1, Views DEF MemberId
<1>3. \A k \in 1..n : c[k]._id <= c[n]._id
  <2>1. SUFFICES ASSUME NEW k \in 1..n
                 PROVE  c[k]._id <= c[n]._id
    OBVIOUS
  <2>2. c[k]._id \in Nat /\ c[n]._id \in Nat
    BY <1>1, MemberFields
  <2>3. k < n \/ k = n
    BY <1>1
  <2>4. QED
    BY <1>1, <2>2, <2>3 DEF Sorted
<1>4. \A y \in Ids(c) : c[n]._id >= y
  BY <1>2, <1>3, Views
<1>5. /\ Max(Ids(c)) \in Ids(c)
      /\ \A y \in Ids(c) : Max(Ids(c)) >= y
  BY <1>2, <1>4 DEF Max
<1>6. \A k \in 1..n : c[k]._id \in Ids(c)
  BY Views
<1>7. QED
  BY <1>2, <1>5, <1>6, Views

\* config['members'].pop(k - 1)
LEMMA Popped ==
  ASSUME NEW c \in Seq(Member), NEW k \in 1..Len(c)
  PROVE  /\ RemoveAt(c, k) \in Seq(Member)
         /\ Sorted(c) => Sorted(RemoveAt(c, k))
         /\ \A x : x \in ToSet(RemoveAt(c, k)) <=>
              \E j \in 1..Len(c) : j # k /\ x = c[j]
<1> DEFINE d == RemoveAt(c, k)
           n == Len(c)
<1>1. /\ d \in Seq(Member) /\ Len(d) = n - 1 /\ n \in Nat
      /\ \A j \in 1..(n - 1) : d[j] = IF j < k THEN c[j] ELSE c[j + 1]
  BY RemoveAtProperties
<1> HIDE DEF d
<1>2. Sorted(c) => Sorted(d)
  <2> SUFFICES ASSUME Sorted(c), NEW i \in 1..(n - 1), NEW j \in 1..(n - 1), i < j
               PROVE  d[i]._id < d[j]._id
    BY <1>1 DEF Sorted
  <2> DEFINE p == IF i < k THEN i ELSE i + 1
             q == IF j < k THEN j ELSE j + 1
  <2>1. p \in 1..n /\ q \in 1..n /\ p < q
    BY <1>1
  <2>2. d[i] = c[p] /\ d[j] = c[q]
    BY <1>1
  <2> HIDE DEF p, q
  <2>3. QED
    BY <2>1, <2>2 DEF Sorted
<1>3. ASSUME NEW x \in ToSet(d)
      PROVE  \E j \in 1..n : j # k /\ x = c[j]
  <2>1. PICK j \in 1..(n - 1) : x = d[j]
    BY <1>1, Views
  <2>2. CASE j < k
    BY <1>1, <2>1, <2>2
  <2>3. CASE ~(j < k)
    <3>1. j + 1 \in 1..n /\ j + 1 # k /\ x = c[j + 1]
      BY <1>1, <2>1, <2>3
    <3>2. QED
      BY <3>1
  <2>4. QED
    BY <2>2, <2>3
<1>4. ASSUME NEW j \in 1..n, j # k
      PROVE  c[j] \in ToSet(d)
  <2>1. CASE j < k
    <3>1. j \in 1..(n - 1) /\ c[j] = d[j]
      BY <1>1, <2>1
    <3>2. QED
      BY <1>1, <3>1, Views
  <2>2. CASE ~(j < k)
    <3>1. j - 1 \in 1..(n - 1) /\ c[j] = d[j - 1]
      BY <1>1, <1>4, <2>2
    <3>2. QED
      BY <1>1, <3>1, Views
  <2>3. QED
    BY <2>1, <2>2
<1>5. QED
  BY <1>1, <1>2, <1>3, <1>4 DEF d

\* config['members'].append(...)
LEMMA Appended ==
  ASSUME NEW c \in Seq(Member), NEW e \in Member
  PROVE  /\ Append(c, e) \in Seq(Member)
         /\ ToSet(Append(c, e)) = ToSet(c) \cup {e}
         /\ Hosts(Append(c, e)) = Hosts(c) \cup {e.host}
         /\ Sorted(c) /\ (\A k \in 1..Len(c) : c[k]._id < e._id) =>
              Sorted(Append(c, e))
<1> DEFINE d == Append(c, e)
           n == Len(c)
<1>1. /\ d \in Seq(Member) /\ Len(d) = n + 1 /\ n \in Nat
      /\ \A j \in 1..(n + 1) : d[j] = IF j <= n THEN c[j] ELSE e
  BY AppendLast
<1> HIDE DEF d
<1>2. ASSUME Sorted(c), \A k \in 1..n : c[k]._id < e._id
      PROVE  Sorted(d)
  BY <1>1, <1>2 DEF Sorted
<1>3. /\ \A j \in 1..n : j \in 1..(n + 1) /\ d[j] = c[j]
      /\ n + 1 \in 1..(n + 1) /\ d[n + 1] = e
      /\ \A j \in 1..(n + 1) : j \in 1..n \/ j = n + 1
  BY <1>1
<1>4. ToSet(d) = ToSet(c) \cup {e}
  BY <1>1, <1>3, Views
<1>5. Hosts(d) = Hosts(c) \cup {e.host}
  BY <1>1, <1>3, Views
<1>6. QED
  BY <1>1, <1>2, <1>4, <1>5 DEF d

\* update_server_map
LEMMA Mapping ==
  ASSUME NEW c \in Seq(Member)
  PROVE  /\ DOMAIN ServerMap(c) = Ids(c)
         /\ \A m \in Ids(c) : [_id |-> m, host |-> ServerMap(c)[m]] \in ToSet(c)
         /\ ServerMap(c) \in [Ids(c) -> Host]
         /\ Sorted(c) => \A k \in 1..Len(c) : ServerMap(c)[c[k]._id] = c[k].host
<1> DEFINE x(m) == CHOOSE y \in ToSet(c) : y._id = m
<1>1. /\ DOMAIN ServerMap(c) = Ids(c)
      /\ ServerMap(c) = [m \in Ids(c) |-> x(m).host]
      /\ \A m \in Ids(c) : ServerMap(c)[m] = x(m).host
  BY DEF ServerMap
<1>2. ASSUME NEW m \in Ids(c)
      PROVE  x(m) \in ToSet(c) /\ x(m)._id = m
  <2>1. \E y \in ToSet(c) : y._id = m
    BY Views
  <2>2. QED
    BY <2>1
<1> HIDE DEF x
<1>3. ASSUME NEW m \in Ids(c)
      PROVE  /\ [_id |-> m, host |-> ServerMap(c)[m]] \in ToSet(c)
             /\ ServerMap(c)[m] \in Host
  <2>1. PICK k \in 1..Len(c) : x(m) = c[k]
    BY <1>2, <1>3, Views
  <2>2. c[k] = [_id |-> m, host |-> ServerMap(c)[m]] /\ c[k].host \in Host
    BY <1>1, <1>2, <1>3, <2>1, MemberFields
  <2>3. QED
    BY <1>1, <1>2, <2>1, <2>2, Views
<1>4. ASSUME Sorted(c), NEW k \in 1..Len(c)
      PROVE  ServerMap(c)[c[k]._id] = c[k].host
  <2>1. c[k]._id \in Ids(c)
    BY Views
  <2>2. PICK j \in 1..Len(c) : x(c[k]._id) = c[j] /\ c[j]._id = c[k]._id
    BY <1>2, <2>1, Views
  <2>3. c[j]._id \in Nat /\ c[k]._id \in Nat
    BY MemberFields
  <2>4. j = k
    BY <1>4, <2>2, <2>3 DEF Sorted
  <2>5. QED
    BY <1>1, <2>1, <2>2, <2>4
<1>5. QED
  BY <1>1, <1>3, <1>4

-----------------------------------------------------------------------------
(***************************************************************************)
(* Types.                                                                  *)
(***************************************************************************)
Op == Operation \cup {"idle"}

Request == [pc : Label, op : Op, id : MemberId, host : Host \cup {NoHost},
            cfg : Seq(Member), base : 0..MaxVersion, todo : SUBSET MemberId,
            raises : BOOLEAN]

\* Where the handlers of each kind of request are.
Serves(r) ==
  /\ r.pc = "idle" => r = Idle
  /\ r.pc \in {"add", "create"} => r.op = "add"
  /\ r.pc \in {"del", "status", "pop", "remove"} => r.op = "del"
  /\ r.pc = "update" => r.op = "update"
  /\ r.pc = "cleanup" => r.op = "cleanup"
  /\ r.pc \in {"command", "run", "kept"} => r.op = "command"
  /\ r.pc \in {"run", "kept"} => r.host \in Host
  /\ r.pc \in {"reconfig", "wait", "map", "finish"} =>
       r.op \in {"add", "del", "update"}
  /\ r.pc = "store" => r.op \in {"add", "del", "update", "command"}

\* The configuration in hand lists its members in order, and the _id of a new
\* member is larger than theirs.
Ready(r) ==
  /\ r \in Request /\ Serves(r) /\ Sorted(r.cfg)
  /\ r.pc = "create" => \A k \in 1..Len(r.cfg) : r.cfg[k]._id < r.id

RequestOK ==
  /\ request \in [Thread -> Request]
  /\ \A t \in Thread : Ready(request[t])

ConfigOK ==
  /\ config \in Seq(Member) /\ Sorted(config)
  /\ version \in 0..MaxVersion
  /\ primary \in Host \cup {NoHost}

LocalOK ==
  /\ DOMAIN server_map \in SUBSET MemberId
  /\ \A m \in DOMAIN server_map : server_map[m] \in Host
  /\ servers \in SUBSET Host /\ up \in SUBSET Host
  /\ stored \in BOOLEAN
  /\ surprise \in SUBSET Surprise

TypeInv == RequestOK /\ ConfigOK /\ LocalOK

LEMMA Labels ==
  /\ "idle" \in Label /\ "add" \in Label /\ "create" \in Label
  /\ "del" \in Label /\ "status" \in Label /\ "pop" \in Label
  /\ "update" \in Label /\ "reconfig" \in Label /\ "wait" \in Label
  /\ "map" \in Label /\ "finish" \in Label /\ "remove" \in Label
  /\ "store" \in Label /\ "cleanup" \in Label
  /\ "command" \in Label /\ "run" \in Label /\ "kept" \in Label
  /\ "idle" \in Op /\ "add" \in Op /\ "del" \in Op /\ "update" \in Op
  /\ "command" \in Op /\ "cleanup" \in Op
BY DEF Label, Op, Operation

LEMMA Numbers ==
  /\ MaxId \in Nat /\ MaxVersion \in Nat /\ Members \in Nat
  /\ 0 \in MemberId /\ 0 \in 0..MaxVersion
  /\ NoHost \notin Host
BY ReplicaSetAssumption DEF MemberId

LEMMA Bottom ==
  /\ Ready(Idle) /\ Idle.pc = "idle" /\ Idle.op = "idle" /\ Idle.host = NoHost
  /\ Idle.cfg = <<>> /\ Idle.base = 0 /\ Idle.todo = {} /\ Idle.raises = FALSE
  /\ Idle.id = 0
<1>1. <<>> \in Seq(Member) /\ Len(<<>>) = 0
  OBVIOUS
<1>2. Sorted(<<>>)
  BY <1>1 DEF Sorted
<1>3. QED
  BY <1>1, <1>2, Labels, Numbers DEF Ready, Request, Serves, Idle

LEMMA Fields ==
  ASSUME RequestOK
  PROVE  /\ DOMAIN request = Thread
         /\ \A t \in Thread :
              /\ Ready(request[t])
              /\ DOMAIN request[t] = {"pc", "op", "id", "host", "cfg", "base",
                                      "todo", "raises"}
              /\ request[t].pc \in Label /\ request[t].op \in Op
              /\ request[t].id \in MemberId
              /\ request[t].host \in Host \cup {NoHost}
              /\ request[t].cfg \in Seq(Member) /\ Sorted(request[t].cfg)
              /\ request[t].base \in 0..MaxVersion
              /\ request[t].todo \in SUBSET MemberId
              /\ request[t].raises \in BOOLEAN
BY DEF RequestOK, Request, Ready

\* A step changes the request of one thread.
LEMMA OneRequest ==
  ASSUME RequestOK, NEW t \in Thread, NEW r, Ready(r),
         request' = [request EXCEPT ![t] = r]
  PROVE  RequestOK'
<1>1. /\ request' \in [Thread -> Request]
      /\ \A u \in Thread : request'[u] = IF u = t THEN r ELSE request[u]
  BY DEF RequestOK, Ready
<1>2. QED
  BY <1>1 DEF RequestOK

\* What a step leaves of a request: a new label, and the fields it sets.
LEMMA Moved ==
  ASSUME RequestOK, NEW t \in Thread, NEW l \in Label, Goto(t, l),
         l \notin {"idle", "create"},
         LET op == request[t].op IN
           /\ l \in {"add"} => op = "add"
           /\ l \in {"del", "status", "pop", "remove"} => op = "del"
           /\ l = "update" => op = "update"
           /\ l = "cleanup" => op = "cleanup"
           /\ l = "command" => op = "command"
           /\ l \in {"run", "kept"} => op = "command" /\ request[t].host \in Host
           /\ l \in {"reconfig", "wait", "map", "finish"} =>
                op \in {"add", "del", "update"}
           /\ l = "store" => op \in {"add", "del", "update", "command"}
  PROVE  RequestOK'
<1> DEFINE r == [request[t] EXCEPT !.pc = l]
<1>1. request[t] \in Request /\ Sorted(request[t].cfg)
  BY Fields DEF Ready
<1>2. r \in Request /\ r.pc = l /\ r.op = request[t].op /\ r.cfg = request[t].cfg
      /\ r.host = request[t].host
  BY <1>1 DEF Request
<1>3. request' = [request EXCEPT ![t] = r]
  BY DEF Goto
<1> HIDE DEF r
<1>4. Ready(r)
  BY <1>1, <1>2 DEF Ready, Serves
<1>5. QED
  BY <1>3, <1>4, OneRequest

LEMMA Replied ==
  ASSUME RequestOK, NEW t \in Thread, Reply(t)
  PROVE  RequestOK'
BY OneRequest, Bottom DEF Reply

\* The steps of member_command.
Commands(t) ==
  \/ CommandLookup(t) \/ CommandStarts(t) \/ CommandStops(t)
  \/ CommandFails(t) \/ CommandKept(t)

\* They leave the configuration and server_map alone, and register a server
\* again at most.
LEMMA CommandFrame ==
  ASSUME NEW t \in Thread, Commands(t)
  PROVE  /\ UNCHANGED <<config, version, server_map, stored>>
         /\ request[t].pc \in {"command", "run", "kept"}
         /\ \/ servers' = servers
            \/ /\ CommandKept(t) /\ servers' = servers \cup {request[t].host}
               /\ request[t].host \in servers \/ "revived" \in surprise'
         /\ \/ surprise' \in {surprise, surprise \cup {"revived"}}
            \/ \E half : Raise(t, half)
         /\ surprise \subseteq surprise'
         /\ \E q : request' = [request EXCEPT ![t] = q]
<1> USE DEF setVars, localVars
<1>1. CASE CommandLookup(t)
  BY <1>1 DEF CommandLookup, Raise, Reply, At
<1>2. CASE CommandStarts(t)
  BY <1>2 DEF CommandStarts, Goto, At
<1>3. CASE CommandStops(t)
  BY <1>3 DEF CommandStops, Goto, At
<1>4. CASE CommandFails(t)
  BY <1>4 DEF CommandFails, Raise, Reply, At
<1>5. CASE CommandKept(t)
  BY <1>5 DEF CommandKept, Goto, At
<1>6. QED
  BY <1>1, <1>2, <1>3, <1>4, <1>5 DEF Commands

LEMMA RequestStep ==
  ASSUME TypeInv, [Next]_vars
  PROVE  RequestOK'
<1> DEFINE Fits(t) == \E r : Ready(r) /\ request' = [request EXCEPT ![t] = r]
<1>1. /\ RequestOK /\ ConfigOK /\ LocalOK /\ DOMAIN request = Thread
  BY Fields DEF TypeInv
<1>2. \A t \in Thread :
        /\ request[t] \in Request /\ Sorted(request[t].cfg)
        /\ Serves(request[t]) /\ request[t].cfg \in Seq(Member)
        /\ request[t].id \in MemberId
  BY <1>1, Fields DEF Ready
<1>3. ASSUME NEW t \in Thread, Fits(t)
      PROVE  RequestOK'
  BY <1>1, <1>3, OneRequest
<1> HIDE DEF Fits
<1>4. ASSUME NEW t \in Thread, NEW op \in Operation,
             NEW m \in MemberId, Receive(t, op, m)
      PROVE  Fits(t)
  <2> DEFINE r == IF op = "cleanup"
                  THEN [request[t] EXCEPT !.pc = op, !.op = op,
                                          !.todo = DOMAIN server_map]
                  ELSE [request[t] EXCEPT !.pc = op, !.op = op,
                                          !.id = IF op = "add" THEN 0 ELSE m]
  <2>1. request' = [request EXCEPT ![t] = r]
    BY <1>4 DEF Receive
  <2>2. r \in Request /\ r.pc = op /\ r.op = op /\ r.cfg = request[t].cfg
    BY <1>1, <1>2, Labels, Numbers DEF Request, LocalOK, Operation
  <2> HIDE DEF r
  <2>3. Ready(r)
    BY <1>2, <2>2 DEF Ready, Serves, Operation
  <2>4. QED
    BY <2>1, <2>3 DEF Fits
<1>5. ASSUME NEW t \in Thread,
             \/ NoPrimary(t) \/ AddCreateFails(t) \/ ReconfigRefused(t)
             \/ CleanupEnds(t) \/ Store(t)
      PROVE  RequestOK'
  <2>1. Reply(t)
    BY <1>5 DEF NoPrimary, AddCreateFails, ReconfigRefused, CleanupEnds, Store, Raise
  <2>2. QED
    BY <1>1, <2>1, Replied
<1>6. ASSUME NEW t \in Thread, DelStatus(t)
      PROVE  RequestOK'
  <2>1. request[t].pc = "status" /\ request[t].op = "del"
    BY <1>2, <1>6 DEF DelStatus, At, Serves
  <2>2. CASE request[t].id \in Ids(config)
    BY <1>1, <1>6, <2>1, <2>2, Moved, Labels DEF DelStatus
  <2>3. CASE request[t].id \notin Ids(config)
    <3> DEFINE r == [request[t] EXCEPT !.pc = "remove", !.id = 0]
    <3>1. request' = [request EXCEPT ![t] = r]
      BY <1>6, <2>3 DEF DelStatus
    <3>2. r \in Request /\ r.pc = "remove" /\ r.op = "del" /\ r.cfg = request[t].cfg
      BY <1>2, <2>1, Labels, Numbers DEF Request
    <3> HIDE DEF r
    <3>3. Ready(r)
      BY <1>2, <3>2 DEF Ready, Serves
    <3>4. QED
      BY <1>3, <3>1, <3>3 DEF Fits
  <2>4. QED
    BY <2>2, <2>3
<1>7. ASSUME NEW t \in Thread, DelRemove(t)
      PROVE  RequestOK'
  <2>1. request[t].op = "del"
    BY <1>2, <1>7 DEF DelRemove, At, Serves
  <2>2. Reply(t) \/ Goto(t, "store")
    BY <1>7 DEF DelRemove, Raise
  <2>3. QED
    BY <1>1, <2>1, <2>2, Replied, Moved, Labels
<1>8. ASSUME NEW t \in Thread, Finish(t)
      PROVE  RequestOK'
  <2>1. request[t].op \in {"add", "del", "update"}
    BY <1>2, <1>8 DEF Finish, At, Serves
  <2>2. \/ request[t].op = "del" /\ Goto(t, "remove")
        \/ Goto(t, "store")
    BY <1>8 DEF Finish
  <2>3. QED
    BY <1>1, <2>1, <2>2, Moved, Labels
<1>9. ASSUME NEW t \in Thread, AddRead(t)
      PROVE  Fits(t)
  <2> DEFINE i == Max(Ids(config)) + 1
             r == [request[t] EXCEPT !.pc = "create", !.cfg = config,
                                     !.base = version, !.id = i]
  <2>1. /\ request[t].op = "add" /\ config # <<>> /\ Max(Ids(config)) < MaxId
        /\ request' = [request EXCEPT ![t] = r]
    BY <1>2, <1>9 DEF AddRead, At, Serves
  <2>2. i \in MemberId /\ \A k \in 1..Len(config) : config[k]._id < i
    <3>1. /\ Max(Ids(config)) \in MemberId /\ MaxId \in Nat
          /\ \A k \in 1..Len(config) : config[k]._id <= Max(Ids(config))
      BY <1>1, <2>1, LargestId, Numbers DEF ConfigOK
    <3>2. \A k \in 1..Len(config) : config[k]._id \in Nat
      BY <1>1, MemberFields DEF ConfigOK
    <3>3. QED
      BY <2>1, <3>1, <3>2 DEF MemberId
  <2> HIDE DEF i
  <2>3. /\ r \in Request /\ r.pc = "create" /\ r.op = "add" /\ r.cfg = config
        /\ r.id = i
    BY <1>1, <1>2, <2>1, <2>2, Labels DEF Request, ConfigOK
  <2> HIDE DEF r
  <2>4. Ready(r)
    BY <1>1, <2>2, <2>3 DEF Ready, Serves, ConfigOK
  <2>5. QED
    BY <2>1, <2>4 DEF Fits
<1>10. ASSUME NEW t \in Thread, NEW h \in Host, AddCreate(t, h)
       PROVE  Fits(t)
  <2> DEFINE e == [_id |-> request[t].id, host |-> h]
             c == Append(request[t].cfg, e)
             r == [request[t] EXCEPT !.pc = "reconfig", !.host = h, !.id = 0,
                                     !.cfg = c]
  <2>1. /\ request[t].op = "add" /\ request' = [request EXCEPT ![t] = r]
        /\ \A k \in 1..Len(request[t].cfg) : request[t].cfg[k]._id < request[t].id
    BY <1>1, <1>2, <1>10, Fields DEF AddCreate, At, Serves, Ready
  <2>2. e \in Member /\ e._id = request[t].id
    BY <1>2 DEF Member
  <2> HIDE DEF e
  <2>3. c \in Seq(Member) /\ Sorted(c)
    BY <1>2, <2>1, <2>2, Appended
  <2> HIDE DEF c
  <2>4. r \in Request /\ r.pc = "reconfig" /\ r.op = "add" /\ r.cfg = c
    BY <1>2, <2>1, <2>3, Labels, Numbers DEF Request
  <2> HIDE DEF r
  <2>5. Ready(r)
    BY <2>3, <2>4 DEF Ready, Serves
  <2>6. QED
    BY <2>1, <2>5 DEF Fits
<1>11. ASSUME NEW t \in Thread, DelLookup(t)
       PROVE  RequestOK'
  <2> DEFINE h == IF server_map[request[t].id] \in servers
                  THEN server_map[request[t].id] ELSE NoHost
             r == [request[t] EXCEPT !.pc = "status", !.host = h]
  <2>1. request[t].op = "del"
    BY <1>2, <1>11 DEF DelLookup, At, Serves
  <2>2. CASE request[t].id \notin DOMAIN server_map
    BY <1>1, <1>11, <2>2, Replied DEF DelLookup, Raise
  <2>3. CASE request[t].id \in DOMAIN server_map
    <3>1. request' = [request EXCEPT ![t] = r]
      BY <1>11, <2>3 DEF DelLookup
    <3>2. h \in Host \cup {NoHost}
      BY <1>1 DEF LocalOK
    <3> HIDE DEF h
    <3>3. r \in Request /\ r.pc = "status" /\ r.op = "del" /\ r.cfg = request[t].cfg
      BY <1>2, <2>1, <3>2, Labels DEF Request
    <3> HIDE DEF r
    <3>4. Ready(r)
      BY <1>2, <3>3 DEF Ready, Serves
    <3>5. QED
      BY <1>3, <3>1, <3>4 DEF Fits
  <2>4. QED
    BY <2>2, <2>3
<1>12. ASSUME NEW t \in Thread, DelPop(t) \/ Update(t)
       PROVE  RequestOK'
  <2>1. request[t].op \in {"del", "update"} /\ request[t].id \in Nat
    <3>1. request[t].pc \in {"pop", "update"}
      BY <1>12 DEF DelPop, Update, At
    <3>2. QED
      BY <1>2, <3>1 DEF Serves, MemberId
  <2>2. CASE request[t].id + 1 > Len(config)
    BY <1>1, <1>12, <2>2, Replied DEF DelPop, Update, Raise
  <2>3. CASE ~(request[t].id + 1 > Len(config))
    <3>1. request[t].id + 1 \in 1..Len(config)
      BY <1>1, <2>1, <2>3 DEF ConfigOK
    <3> DEFINE c == IF DelPop(t) THEN RemoveAt(config, request[t].id + 1) ELSE config
               r == [request[t] EXCEPT !.pc = "reconfig", !.cfg = c,
                                       !.base = version, !.id = 0]
    <3>2. request' = [request EXCEPT ![t] = r]
      BY <1>12, <2>3 DEF DelPop, Update
    <3>3. c \in Seq(Member) /\ Sorted(c)
      BY <1>1, <3>1, Popped DEF ConfigOK
    <3> HIDE DEF c
    <3>4. r \in Request /\ r.pc = "reconfig" /\ r.op = request[t].op /\ r.cfg = c
      BY <1>1, <1>2, <3>3, Labels, Numbers DEF Request, ConfigOK
    <3> HIDE DEF r
    <3>5. Ready(r)
      BY <2>1, <3>3, <3>4 DEF Ready, Serves
    <3>6. QED
      BY <1>3, <3>2, <3>5 DEF Fits
  <2>4. QED
    BY <2>2, <2>3
<1>13. ASSUME NEW t \in Thread, Reconfig(t) \/ ReconfigReconnect(t)
       PROVE  Fits(t)
  <2> DEFINE r == [request[t] EXCEPT !.pc = "wait", !.cfg = <<>>, !.base = 0]
  <2>1. /\ request[t].op \in {"add", "del", "update"}
        /\ request' = [request EXCEPT ![t] = r]
    BY <1>2, <1>13 DEF Reconfig, ReconfigReconnect, At, Serves, Waits
  <2>2. <<>> \in Seq(Member) /\ Sorted(<<>>)
    BY Bottom DEF Ready, Request
  <2>3. r \in Request /\ r.pc = "wait" /\ r.op = request[t].op /\ r.cfg = <<>>
    BY <1>2, <2>2, Labels, Numbers DEF Request
  <2> HIDE DEF r
  <2>4. Ready(r)
    BY <2>1, <2>2, <2>3 DEF Ready, Serves
  <2>5. QED
    BY <2>1, <2>4 DEF Fits
<1>14. ASSUME NEW t \in Thread, WaitRead(t)
       PROVE  Fits(t)
  <2> DEFINE r == [request[t] EXCEPT !.pc = "map", !.cfg = config]
  <2>1. /\ request[t].op \in {"add", "del", "update"}
        /\ request' = [request EXCEPT ![t] = r]
    BY <1>2, <1>14 DEF WaitRead, At, Serves
  <2>2. r \in Request /\ r.pc = "map" /\ r.op = request[t].op /\ r.cfg = config
    BY <1>1, <1>2, Labels DEF Request, ConfigOK
  <2> HIDE DEF r
  <2>3. Ready(r)
    BY <1>1, <2>1, <2>2 DEF Ready, Serves, ConfigOK
  <2>4. QED
    BY <2>1, <2>3 DEF Fits
<1>15. ASSUME NEW t \in Thread, WaitMap(t)
       PROVE  RequestOK'
  <2>1. request[t].op \in {"add", "del", "update"}
    BY <1>2, <1>15 DEF WaitMap, At, Serves
  <2>2. CASE Reply(t)
    BY <1>1, <2>2, Replied
  <2>3. ASSUME NEW next \in {"wait", "finish"},
               request' = [request EXCEPT ![t].pc = next, ![t].cfg = <<>>]
        PROVE  Fits(t)
    <3> DEFINE r == [request[t] EXCEPT !.pc = next, !.cfg = <<>>]
    <3>1. request' = [request EXCEPT ![t] = r]
      BY <2>3
    <3>2. <<>> \in Seq(Member) /\ Sorted(<<>>)
      BY Bottom DEF Ready, Request
    <3>3. r \in Request /\ r.pc = next /\ r.op = request[t].op /\ r.cfg = <<>>
      BY <1>2, <3>2, Labels DEF Request
    <3> HIDE DEF r
    <3>4. Ready(r)
      BY <2>1, <3>2, <3>3 DEF Ready, Serves
    <3>5. QED
      BY <3>1, <3>4 DEF Fits
  <2>4. QED
    BY <1>3, <1>15, <2>2, <2>3 DEF WaitMap, Raise
<1>16. ASSUME NEW t \in Thread, NEW m \in MemberId, CleanupMember(t, m)
       PROVE  Fits(t)
  <2> DEFINE known == m \in DOMAIN server_map /\ server_map[m] \in servers
             r == [request[t] EXCEPT !.todo = @ \ {m}, !.raises = @ \/ ~known]
  <2>1. /\ request[t].pc = "cleanup" /\ request' = [request EXCEPT ![t] = r]
    BY <1>16 DEF CleanupMember, At
  <2>2. (request[t].raises \/ ~known) \in BOOLEAN
    OBVIOUS
  <2> HIDE DEF known
  <2>3. /\ r \in Request /\ r.pc = "cleanup" /\ r.op = request[t].op
        /\ r.cfg = request[t].cfg
    BY <1>2, <2>1, <2>2 DEF Request
  <2> HIDE DEF r
  <2>4. Ready(r)
    BY <1>2, <2>1, <2>3 DEF Ready, Serves
  <2>5. QED
    BY <2>1, <2>4 DEF Fits
<1>17. CASE Mongod \/ UNCHANGED vars
  <2>1. request' = request
    BY <1>17 DEF Mongod, Down, Elect, StepDown, vars
  <2>2. QED
    BY <1>1, <2>1 DEF RequestOK
<1>18. ASSUME NEW t \in Thread, CommandLookup(t)
       PROVE  RequestOK'
  <2> DEFINE h == server_map[request[t].id]
             r == [request[t] EXCEPT !.pc = "run", !.id = 0, !.host = h]
  <2>1. request[t].op = "command"
    BY <1>2, <1>18 DEF CommandLookup, At, Serves
  <2>2. CASE Reply(t)
    BY <1>1, <2>2, Replied
  <2>3. CASE ~Reply(t)
    <3>1. /\ request' = [request EXCEPT ![t] = r]
          /\ request[t].id \in DOMAIN server_map
      BY <1>18, <2>3 DEF CommandLookup, Raise
    <3>2. h \in Host
      BY <1>1, <3>1 DEF LocalOK
    <3> HIDE DEF h
    <3>3. /\ r \in Request /\ r.pc = "run" /\ r.op = "command" /\ r.host = h
          /\ r.cfg = request[t].cfg
      BY <1>2, <2>1, <3>2, Labels, Numbers DEF Request
    <3> HIDE DEF r
    <3>4. Ready(r)
      BY <1>2, <3>2, <3>3 DEF Ready, Serves
    <3>5. QED
      BY <1>3, <3>1, <3>4 DEF Fits
  <2>4. QED
    BY <2>2, <2>3
<1>19. ASSUME NEW t \in Thread,
              \/ CommandStarts(t) \/ CommandStops(t) \/ CommandFails(t)
              \/ CommandKept(t)
       PROVE  RequestOK'
  <2>1. request[t].op = "command" /\ request[t].host \in Host
    BY <1>2, <1>19 DEF CommandStarts, CommandStops, CommandFails, CommandKept, At,
       Serves
  <2>2. Reply(t) \/ Goto(t, "run") \/ Goto(t, "kept") \/ Goto(t, "store")
    BY <1>19 DEF CommandStarts, CommandStops, CommandFails, CommandKept, Raise
  <2>3. QED
    BY <1>1, <2>1, <2>2, Replied, Moved, Labels
<1>20. ASSUME NEW t \in Thread, Step(t)
       PROVE  RequestOK'
  BY <1>3, <1>5, <1>6, <1>7, <1>8, <1>9, <1>10, <1>11, <1>12, <1>13, <1>14,
     <1>15, <1>16, <1>18, <1>19, <1>20 DEF Step
<1>21. QED
  BY <1>3, <1>4, <1>17, <1>20 DEF Next

LEMMA RestStep ==
  ASSUME TypeInv, [Next]_vars
  PROVE  ConfigOK' /\ LocalOK'
<1>1. /\ RequestOK /\ ConfigOK /\ LocalOK
      /\ \A t \in Thread : /\ request[t].base \in 0..MaxVersion
                           /\ request[t].cfg \in Seq(Member)
                           /\ Sorted(request[t].cfg) /\ Serves(request[t])
  BY Fields DEF TypeInv, Ready
<1>2. /\ {"gap", "reconnect", "abort", "restored", "overlap", "revived",
          "reused"} \subseteq Surprise
      /\ MaxVersion \in Nat
  BY Numbers DEF Surprise
<1> USE DEF setVars, localVars
<1>3. UNCHANGED setVars => ConfigOK'
  BY <1>1 DEF ConfigOK
<1>4. ASSUME UNCHANGED localVars, surprise' \in SUBSET Surprise
      PROVE  LocalOK'
  BY <1>1, <1>4 DEF LocalOK
<1>5. ASSUME NEW t \in Thread, NEW half, Raise(t, half)
      PROVE  surprise' \in SUBSET Surprise
  BY <1>1, <1>2, <1>5 DEF Raise, LocalOK
<1>6. ASSUME NEW c \in Seq(Member)
      PROVE  /\ DOMAIN ServerMap(c) \in SUBSET MemberId
             /\ \A m \in DOMAIN ServerMap(c) : ServerMap(c)[m] \in Host
  BY Mapping, Views
<1>7. ASSUME NEW t \in Thread, NEW op \in Operation,
             NEW m \in MemberId, Receive(t, op, m)
      PROVE  ConfigOK' /\ LocalOK'
  <2>1. /\ UNCHANGED <<setVars, server_map, servers, up>> /\ stored' \in BOOLEAN
        /\ surprise' \in SUBSET Surprise
    BY <1>1, <1>2, <1>7 DEF Receive, LocalOK
  <2>2. QED
    BY <1>1, <1>3, <2>1 DEF LocalOK
<1>8. ASSUME NEW t \in Thread,
             \/ NoPrimary(t) \/ AddRead(t) \/ AddCreateFails(t) \/ DelLookup(t)
             \/ DelStatus(t) \/ DelPop(t) \/ Update(t) \/ ReconfigRefused(t)
             \/ WaitRead(t) \/ Finish(t)
      PROVE  ConfigOK' /\ LocalOK'
  <2>1. /\ UNCHANGED <<setVars, server_map, servers, stored>>
        /\ up' \in SUBSET Host
    BY <1>1, <1>8 DEF NoPrimary, AddRead, AddCreateFails, DelLookup, DelStatus,
       DelPop, Update, ReconfigRefused, WaitRead, Finish, LocalOK
  <2>2. UNCHANGED surprise \/ \E half : Raise(t, half)
    BY <1>8 DEF NoPrimary, AddRead, AddCreateFails, DelLookup, DelStatus, DelPop,
       Update, ReconfigRefused, WaitRead, Finish
  <2>3. surprise' \in SUBSET Surprise
    BY <1>1, <1>5, <2>2 DEF LocalOK
  <2>4. QED
    BY <1>1, <1>3, <2>1, <2>3 DEF LocalOK
<1>9. ASSUME NEW t \in Thread, NEW h \in Host, AddCreate(t, h)
      PROVE  ConfigOK' /\ LocalOK'
  <2>1. /\ UNCHANGED <<setVars, server_map, stored>>
        /\ servers' = servers \cup {h} /\ up' = up \cup {h}
        /\ surprise' \in {surprise, surprise \cup {"reused"}}
    BY <1>9 DEF AddCreate
  <2>2. QED
    BY <1>1, <1>2, <1>3, <2>1 DEF LocalOK
<1>10. ASSUME NEW t \in Thread, DelRemove(t)
       PROVE  ConfigOK' /\ LocalOK'
  <2>1. CASE request[t].host \notin servers
    <3>1. /\ UNCHANGED <<setVars, localVars>> /\ Raise(t, TRUE)
      BY <1>10, <2>1 DEF DelRemove
    <3>2. QED
      BY <1>3, <1>4, <1>5, <3>1
  <2>2. CASE request[t].host \in servers
    <3>1. /\ UNCHANGED <<config, version, server_map, stored, surprise>>
          /\ servers' = servers \ {request[t].host} /\ up' = up \ {request[t].host}
          /\ primary' \in {primary, NoHost}
      BY <1>10, <2>2 DEF DelRemove
    <3>2. QED
      BY <1>1, <3>1 DEF ConfigOK, LocalOK
  <2>3. QED
    BY <2>1, <2>2
<1>11. ASSUME NEW t \in Thread, Reconfig(t) \/ ReconfigReconnect(t)
       PROVE  ConfigOK' /\ LocalOK'
  <2>1. /\ request[t].base < MaxVersion /\ primary' = primary
        /\ UNCHANGED <<servers, up, stored>>
        /\ server_map' \in {server_map, ServerMap(request[t].cfg)}
        /\ \/ /\ config' = request[t].cfg /\ version' = request[t].base + 1
              /\ surprise' \in {surprise, surprise \cup {"gap"}}
           \/ /\ config' = config /\ version' = version
              /\ surprise' = surprise \cup {"reconnect"}
    BY <1>11 DEF Reconfig, ReconfigReconnect, Apply
  <2>2. version' \in 0..MaxVersion
    BY <1>1, <1>2, <2>1 DEF ConfigOK
  <2>3. ConfigOK'
    BY <1>1, <2>1, <2>2 DEF ConfigOK
  <2>4. surprise' \in SUBSET Surprise
    BY <1>1, <1>2, <2>1 DEF LocalOK
  <2>5. LocalOK'
    BY <1>1, <1>6, <2>1, <2>4 DEF LocalOK
  <2>6. QED
    BY <2>3, <2>5
<1>12. ASSUME NEW t \in Thread, WaitMap(t)
       PROVE  ConfigOK' /\ LocalOK'
  <2>1. /\ UNCHANGED <<setVars, servers, up, stored>>
        /\ server_map' = ServerMap(request[t].cfg)
        /\ UNCHANGED surprise \/ Raise(t, TRUE)
    BY <1>12 DEF WaitMap
  <2>2. surprise' \in SUBSET Surprise
    BY <1>1, <1>5, <2>1 DEF LocalOK
  <2>3. QED
    BY <1>1, <1>3, <1>6, <2>1, <2>2 DEF LocalOK
<1>13. ASSUME NEW t \in Thread, Store(t)
       PROVE  ConfigOK' /\ LocalOK'
  <2>1. /\ UNCHANGED <<setVars, server_map, servers, up>> /\ stored' = TRUE
        /\ surprise' \in {surprise, surprise \cup {"restored"}}
    BY <1>13 DEF Store
  <2>2. QED
    BY <1>1, <1>2, <1>3, <2>1 DEF LocalOK
<1>14. ASSUME NEW t \in Thread, NEW m \in MemberId, CleanupMember(t, m)
       PROVE  ConfigOK' /\ LocalOK'
  <2>1. \E gone : /\ servers' = servers \ gone /\ up' = up \ gone
                  /\ primary' \in {primary, NoHost}
                  /\ UNCHANGED <<config, version, server_map, stored, surprise>>
    BY <1>14 DEF CleanupMember
  <2>2. QED
    BY <1>1, <2>1 DEF ConfigOK, LocalOK
<1>15. ASSUME NEW t \in Thread, CleanupEnds(t)
       PROVE  ConfigOK' /\ LocalOK'
  <2>1. UNCHANGED <<setVars, servers, up, stored>>
    BY <1>15 DEF CleanupEnds
  <2>2. \/ Raise(t, TRUE) /\ UNCHANGED server_map
        \/ server_map' = <<>> /\ UNCHANGED surprise
    BY <1>15 DEF CleanupEnds
  <2>3. surprise' \in SUBSET Surprise
    BY <1>1, <1>5, <2>2 DEF LocalOK
  <2>4. /\ DOMAIN server_map' \in SUBSET MemberId
        /\ \A m \in DOMAIN server_map' : server_map'[m] \in Host
    <3>1. CASE UNCHANGED server_map
      BY <1>1, <3>1 DEF LocalOK
    <3>2. CASE server_map' = <<>>
      <4>1. DOMAIN <<>> = {}
        OBVIOUS
      <4>2. QED
        BY <3>2, <4>1
    <3>3. QED
      BY <2>2, <3>1, <3>2
  <2>5. QED
    BY <1>1, <1>3, <2>1, <2>3, <2>4 DEF LocalOK
<1>16. CASE Mongod
  <2>1. /\ UNCHANGED <<config, version, server_map, servers, stored, surprise>>
        /\ primary' \in Host \cup {NoHost} /\ up' \in SUBSET Host
    BY <1>1, <1>16 DEF Mongod, Down, Elect, StepDown, ConfigOK, LocalOK
  <2>2. QED
    BY <1>1, <2>1 DEF ConfigOK, LocalOK
<1>17. CASE UNCHANGED vars
  BY <1>1, <1>17 DEF ConfigOK, LocalOK, vars
<1>18. ASSUME NEW t \in Thread, Commands(t)
       PROVE  ConfigOK' /\ LocalOK'
  <2>1. /\ UNCHANGED <<config, version, server_map, stored>>
        /\ servers' \in SUBSET Host /\ surprise' \in SUBSET Surprise
    <3>1. /\ UNCHANGED <<config, version, server_map, stored>>
          /\ \/ servers' = servers
             \/ CommandKept(t) /\ servers' = servers \cup {request[t].host}
          /\ \/ surprise' \in {surprise, surprise \cup {"revived"}}
             \/ \E half : Raise(t, half)
      BY <1>18, CommandFrame
    <3>2. CommandKept(t) => request[t].host \in Host
      BY <1>1 DEF CommandKept, At, Serves
    <3>3. surprise' \in SUBSET Surprise
      BY <1>1, <1>2, <1>5, <3>1 DEF LocalOK
    <3>4. QED
      BY <1>1, <3>1, <3>2, <3>3 DEF LocalOK
  <2>2. primary' \in {primary, NoHost} /\ up' \in SUBSET Host
    <3>1. CASE CommandLookup(t) \/ CommandKept(t)
      BY <1>1, <3>1 DEF CommandLookup, CommandKept, LocalOK
    <3>2. CASE CommandStarts(t) \/ CommandStops(t) \/ CommandFails(t)
      <4>1. request[t].host \in Host
        BY <1>1, <3>2 DEF CommandStarts, CommandStops, CommandFails, At, Serves
      <4>2. QED
        BY <1>1, <3>2, <4>1 DEF CommandStarts, CommandStops, CommandFails, LocalOK
    <3>3. QED
      BY <1>18, <3>1, <3>2 DEF Commands
  <2>3. QED
    BY <1>1, <2>1, <2>2 DEF ConfigOK, LocalOK
<1>19. ASSUME NEW t \in Thread, Step(t)
       PROVE  ConfigOK' /\ LocalOK'
  BY <1>8, <1>9, <1>10, <1>11, <1>12, <1>13, <1>14, <1>15, <1>18, <1>19
     DEF Step, Commands
<1>20. QED
  BY <1>7, <1>16, <1>17, <1>19 DEF Next

LEMMA TypeStep == ASSUME TypeInv, [Next]_vars PROVE TypeInv'
BY RequestStep, RestStep DEF TypeInv

\* The set as __init__ leaves it.
LEMMA FirstConfig ==
  ASSUME Init
  PROVE  /\ config \in Seq(Member) /\ Len(config) = Members
         /\ \A k \in 1..Members : config[k]._id = k - 1
         /\ \A j, k \in 1..Members : config[j].host = config[k].host => j = k
<1>1. PICK hosts \in [1..Members -> Host] :
        /\ \A j, k \in 1..Members : hosts[j] = hosts[k] => j = k
        /\ config = [k \in 1..Members |-> [_id |-> k - 1, host |-> hosts[k]]]
  BY DEF Init
<1>2. Members \in Nat /\ MaxId \in Nat /\ Members <= MaxId + 1
  BY ReplicaSetAssumption
<1>3. \A k \in 1..Members : [_id |-> k - 1, host |-> hosts[k]] \in Member
  BY <1>1, <1>2 DEF Member, MemberId
<1>4. QED
  BY <1>1, <1>2, <1>3

LEMMA InitTypeInv == Init => TypeInv
<1> SUFFICES ASSUME Init
             PROVE  TypeInv
  OBVIOUS
<1>1. /\ config \in Seq(Member) /\ Len(config) = Members
      /\ \A k \in 1..Members : config[k]._id = k - 1
  BY FirstConfig
<1>2. Sorted(config)
  BY <1>1, Numbers DEF Sorted
<1>3. ConfigOK
  BY <1>1, <1>2, Numbers, Views DEF Init, ConfigOK
<1>4. LocalOK
  <2>1. /\ DOMAIN ServerMap(config) \in SUBSET MemberId
        /\ \A m \in DOMAIN ServerMap(config) : ServerMap(config)[m] \in Host
    BY <1>1, Mapping, Views
  <2>2. /\ server_map = ServerMap(config) /\ servers = Hosts(config)
        /\ up = servers /\ stored = TRUE /\ surprise = {}
    BY DEF Init
  <2>3. Hosts(config) \in SUBSET Host
    BY <1>1, Views
  <2>4. QED
    BY <2>1, <2>2, <2>3 DEF LocalOK
<1>5. RequestOK
  BY Bottom DEF Init, RequestOK, Ready
<1>6. QED
  BY <1>3, <1>4, <1>5 DEF TypeInv

LEMMA TypesHold == Spec => []TypeInv
BY InitTypeInv, TypeStep, PTL DEF Spec

\* Whatever requests overlap and whatever mongod refuses, the configuration,
\* server_map and the requests keep their types: the _id of a new member, the
\* largest one plus 1, is in range, and what is registered and runs are servers.
THEOREM TypeCorrect == Spec => []TypeOK
<1>1. TypeInv => TypeOK
  BY Fields DEF TypeInv, ConfigOK, LocalOK, TypeOK
<1>2. QED
  BY <1>1, TypesHold, PTL

-----------------------------------------------------------------------------
(***************************************************************************)
(* One step.                                                               *)
(***************************************************************************)
\* The request that a thread receives.
Received(t) == \E op \in Operation, m \in MemberId : Receive(t, op, m)

\* The primary applies the configuration of a request.
Applied(t) ==
  /\ At(t, "reconfig") /\ Waits(t)
  /\ request[t].base + 1 > version
  /\ config' = request[t].cfg /\ version' = request[t].base + 1
  /\ surprise' = IF Dense(request[t].cfg) THEN surprise
                 ELSE surprise \cup {"gap"}
  /\ UNCHANGED <<primary, servers, up, stored>>
  /\ server_map' \in {server_map, ServerMap(request[t].cfg)}

\* Every step is that of one request, or of mongod.
LEMMA Actors ==
  ASSUME [Next]_vars
  PROVE  \/ \E t \in Thread : Received(t) \/ Step(t)
         \/ /\ UNCHANGED <<config, version, server_map, servers, stored, request,
                           surprise>>
<1>1. Mongod => UNCHANGED <<config, version, server_map, servers, stored, request,
                            surprise>>
  BY DEF Mongod, Down, Elect, StepDown, setVars, localVars
<1>2. QED
  BY <1>1 DEF Next, Received, vars

LEMMA OthersStay ==
  ASSUME TypeInv, NEW t \in Thread, Received(t) \/ Step(t)
  PROVE  /\ DOMAIN request' = Thread
         /\ \A u \in Thread \ {t} : request'[u] = request[u]
<1>1. DOMAIN request = Thread
  BY Fields DEF TypeInv
<1>2. \E r : request' = [request EXCEPT ![t] = r]
  <2>1. CASE Received(t)
    <3>1. PICK op \in Operation, m \in MemberId : Receive(t, op, m)
      BY <2>1 DEF Received
    <3>2. CASE op = "cleanup"
      BY <3>1, <3>2 DEF Receive
    <3>3. CASE op # "cleanup"
      BY <3>1, <3>3 DEF Receive
    <3>4. QED
      BY <3>2, <3>3
  <2>2. CASE \/ NoPrimary(t) \/ AddCreateFails(t) \/ ReconfigRefused(t)
             \/ CleanupEnds(t) \/ Store(t)
    BY <2>2 DEF NoPrimary, AddCreateFails, ReconfigRefused, CleanupEnds, Store,
       Raise, Reply
  <2>3. CASE \/ DelLookup(t) \/ DelStatus(t) \/ DelRemove(t) \/ Finish(t)
    BY <2>3 DEF DelLookup, DelStatus, DelRemove, Finish, Raise, Reply, Goto
  <2>4. CASE AddRead(t) \/ DelPop(t) \/ Update(t) \/ WaitRead(t) \/ WaitMap(t)
    BY <2>4 DEF AddRead, DelPop, Update, WaitRead, WaitMap, Raise, Reply
  <2>5. CASE Reconfig(t) \/ ReconfigReconnect(t)
    BY <2>5 DEF Reconfig, ReconfigReconnect, Waits
  <2>6. CASE \/ \E h \in Host : AddCreate(t, h)
             \/ \E m \in MemberId : CleanupMember(t, m)
    BY <2>6 DEF AddCreate, CleanupMember
  <2>7. CASE Commands(t)
    BY <2>7, CommandFrame
  <2>8. QED
    BY <2>1, <2>2, <2>3, <2>4, <2>5, <2>6, <2>7 DEF Step, Commands
<1>3. QED
  BY <1>1, <1>2

\* The configuration changes by an applied reconfig, or not at all.
LEMMA ConfigAfter ==
  ASSUME NEW t \in Thread, Received(t) \/ Step(t)
  PROVE  \/ Applied(t)
         \/ /\ UNCHANGED <<config, version>>
            /\ Reconfig(t) \/ ReconfigReconnect(t) =>
                 "reconnect" \in surprise' /\ Waits(t)
<1> USE DEF setVars, localVars
<1>1. CASE Received(t)
  BY <1>1 DEF Received, Receive, Reconfig, ReconfigReconnect, At
<1>2. CASE Reconfig(t) \/ ReconfigReconnect(t)
  BY <1>2 DEF Reconfig, ReconfigReconnect, Apply, Applied, Acceptable
<1>3. ASSUME \/ NoPrimary(t) \/ AddRead(t) \/ AddCreateFails(t) \/ DelLookup(t)
             \/ DelStatus(t) \/ DelPop(t) \/ DelRemove(t) \/ Update(t)
             \/ ReconfigRefused(t) \/ WaitRead(t) \/ WaitMap(t) \/ Finish(t)
             \/ Store(t) \/ CleanupEnds(t)
             \/ \E h \in Host : AddCreate(t, h)
             \/ \E m \in MemberId : CleanupMember(t, m)
      PROVE  UNCHANGED <<config, version>>
  BY <1>3 DEF NoPrimary, AddRead, AddCreateFails, DelLookup, DelStatus, DelPop,
     DelRemove, Update, ReconfigRefused, WaitRead, WaitMap, Finish, Store,
     CleanupEnds, AddCreate, CleanupMember
<1>4. CASE Commands(t)
  BY <1>4, CommandFrame DEF Reconfig, ReconfigReconnect, At
<1>5. QED
  BY <1>1, <1>2, <1>3, <1>4 DEF Step, Commands

LEMMA SurpriseGrows ==
  ASSUME [Next]_vars
  PROVE  surprise \subseteq surprise'
<1>1. ASSUME NEW t \in Thread, Received(t) \/ Step(t)
      PROVE  surprise \subseteq surprise'
  <2>1. CASE Received(t)
    BY <2>1 DEF Received, Receive
  <2>2. CASE \/ NoPrimary(t) \/ AddRead(t) \/ AddCreateFails(t) \/ DelLookup(t)
             \/ DelStatus(t) \/ DelPop(t) \/ DelRemove(t) \/ Update(t)
             \/ ReconfigRefused(t) \/ WaitRead(t) \/ WaitMap(t) \/ Finish(t)
             \/ Store(t) \/ CleanupEnds(t)
             \/ \E h \in Host : AddCreate(t, h)
             \/ \E m \in MemberId : CleanupMember(t, m)
    BY <2>2 DEF NoPrimary, AddRead, AddCreateFails, DelLookup, DelStatus, DelPop,
       DelRemove, Update, ReconfigRefused, WaitRead, WaitMap, Finish, Store,
       CleanupEnds, AddCreate, CleanupMember, Raise
  <2>3. CASE Reconfig(t) \/ ReconfigReconnect(t)
    BY <2>3 DEF Reconfig, ReconfigReconnect, Apply
  <2>4. CASE Commands(t)
    BY <2>4, CommandFrame
  <2>5. QED
    BY <1>1, <2>1, <2>2, <2>3, <2>4 DEF Step, Commands
<1>2. QED
  BY <1>1, Actors

\* A request that has ended takes no step.
LEMMA Moving ==
  ASSUME NEW t \in Thread, Step(t)
  PROVE  request[t].pc # "idle"
BY CommandFrame DEF Step, Commands, NoPrimary, AddRead, AddCreate, AddCreateFails,
   DelLookup, DelStatus, DelPop, DelRemove, Update, Reconfig, ReconfigRefused,
   ReconfigReconnect, WaitRead, WaitMap, Finish, Store, CleanupMember, CleanupEnds,
   At

-----------------------------------------------------------------------------
(***************************************************************************)
(* Gaps, and requests that overlap.                                        *)
(***************************************************************************)
NoGap == "gap" \notin surprise => Dense(config)

LEMMA InitNoGap == Init => NoGap
<1> SUFFICES ASSUME Init
             PROVE  Dense(config)
  BY DEF NoGap
<1>1. QED
  BY FirstConfig DEF Dense

LEMMA NoGapStep ==
  ASSUME NoGap, [Next]_vars
  PROVE  NoGap'
<1>1. ASSUME NEW t \in Thread, Applied(t)
      PROVE  NoGap'
  BY <1>1 DEF Applied, NoGap
<1>2. CASE UNCHANGED config
  BY <1>2, SurpriseGrows DEF NoGap, Dense
<1>3. QED
  BY <1>1, <1>2, Actors, ConfigAfter

\* One request at a time, unless two overlapped.
Solo == "overlap" \notin surprise =>
          \A t, u \in Thread : t # u => At(t, "idle") \/ At(u, "idle")

LEMMA InitSolo == Init => Solo
BY Bottom DEF Init, Solo, At

LEMMA SoloStep ==
  ASSUME TypeInv, Solo, [Next]_vars
  PROVE  Solo'
<1>1. SUFFICES ASSUME "overlap" \notin surprise', NEW t \in Thread,
                      NEW u \in Thread, t # u
               PROVE  At(t, "idle")' \/ At(u, "idle")'
  BY DEF Solo
<1>2. "overlap" \notin surprise
  BY <1>1, SurpriseGrows
<1>3. ASSUME NEW v \in Thread, Received(v) \/ Step(v)
      PROVE  At(t, "idle")' \/ At(u, "idle")'
  <2>1. \A w \in Thread \ {v} : request'[w] = request[w]
    BY <1>3, OthersStay
  <2>2. CASE Received(v)
    <3>1. Quiet
      BY <1>1, <2>2 DEF Received, Receive
    <3>2. QED
      BY <1>1, <2>1, <3>1 DEF Quiet, At
  <2>3. CASE Step(v)
    <3>1. \A w \in Thread \ {v} : request[w].pc = "idle"
      BY <1>2, <2>3, Moving DEF Solo, At
    <3>2. QED
      BY <1>1, <2>1, <3>1 DEF At
  <2>4. QED
    BY <1>3, <2>2, <2>3
<1>4. CASE request' = request
  BY <1>1, <1>2, <1>4 DEF Solo, At
<1>5. QED
  BY <1>3, <1>4, Actors

-----------------------------------------------------------------------------
(***************************************************************************)
(* A host is the member of one _id.                                        *)
(***************************************************************************)
In(m, h, c)  == \E x \in ToSet(c) : x._id = m /\ x.host = h
Lookup(m, h) == m \in DOMAIN server_map /\ server_map[m] = h

\* A delete has looked the host up.
Deleting(t, m, h) ==
  request[t].pc \in {"status", "pop"} /\ request[t].id = m /\ request[t].host = h

\* Somebody takes h for the member m.
Pair(m, h) ==
  \/ In(m, h, config) \/ Lookup(m, h)
  \/ \E t \in Thread : In(m, h, request[t].cfg) \/ Deleting(t, m, h)

OneId ==
  "reused" \notin surprise =>
    \A h \in Host, m, n \in MemberId : Pair(m, h) /\ Pair(n, h) => m = n

LEMMA InFacts ==
  ASSUME NEW c \in Seq(Member), NEW h
  PROVE  /\ \A m : In(m, h, c) => m \in MemberId /\ h \in Host
         /\ h \in Hosts(c) <=> \E m \in MemberId : In(m, h, c)
         /\ \A m : ~In(m, h, <<>>)
<1>1. \A k \in 1..Len(c) : c[k]._id \in MemberId /\ c[k].host \in Host
  BY MemberFields
<1>2. ToSet(<<>>) = {}
  BY DEF ToSet
<1>3. QED
  BY <1>1, <1>2, Views DEF In

\* Where the members that a step mentions come from: of a new host only
\* member_create knows.
LEMMA Flows ==
  ASSUME TypeInv, NEW t \in Thread, Received(t) \/ Step(t), NEW m, NEW h \in Host
  PROVE  /\ In(m, h, config)' => In(m, h, config) \/ In(m, h, request[t].cfg)
         /\ Lookup(m, h)' => Lookup(m, h) \/ In(m, h, request[t].cfg)
         /\ In(m, h, request[t].cfg)' =>
              \/ In(m, h, config) \/ In(m, h, request[t].cfg)
              \/ AddCreate(t, h) /\ m = request[t].id
         /\ Deleting(t, m, h)' => Deleting(t, m, h) \/ Lookup(m, h)
         /\ request'[t].host = h =>
              \/ request[t].host = h \/ AddCreate(t, h)
              \/ \E n \in MemberId : Lookup(n, h)
<1> DEFINE A == In(m, h, config)' => In(m, h, config) \/ In(m, h, request[t].cfg)
           B == Lookup(m, h)' => Lookup(m, h) \/ In(m, h, request[t].cfg)
           C == In(m, h, request[t].cfg)' =>
                  \/ In(m, h, config) \/ In(m, h, request[t].cfg)
                  \/ AddCreate(t, h) /\ m = request[t].id
           D == Deleting(t, m, h)' => Deleting(t, m, h) \/ Lookup(m, h)
           F == request'[t].host = h =>
                  \/ request[t].host = h \/ AddCreate(t, h)
                  \/ \E n \in MemberId : Lookup(n, h)
<1>1. /\ DOMAIN request = Thread /\ config \in Seq(Member)
      /\ DOMAIN request[t] = {"pc", "op", "id", "host", "cfg", "base", "todo",
                              "raises"}
      /\ request[t].cfg \in Seq(Member) /\ request[t].id \in MemberId
      /\ Ready(request[t])
      /\ DOMAIN server_map \in SUBSET MemberId /\ NoHost \notin Host
  BY Fields, Numbers DEF TypeInv, ConfigOK, LocalOK
<1>2. ~In(m, h, <<>>)
  BY <1>1, InFacts
<1> USE DEF setVars, localVars
<1>3. A
  BY ConfigAfter DEF Applied
<1>4. ASSUME server_map' = ServerMap(request[t].cfg)
      PROVE  B
  <2>1. SUFFICES ASSUME Lookup(m, h)'
                 PROVE  In(m, h, request[t].cfg)
    OBVIOUS
  <2>2. /\ m \in Ids(request[t].cfg) /\ ServerMap(request[t].cfg)[m] = h
    BY <1>1, <1>4, <2>1, Mapping DEF Lookup
  <2>3. [_id |-> m, host |-> h] \in ToSet(request[t].cfg)
    BY <1>1, <2>2, Mapping
  <2>4. QED
    BY <2>3 DEF In
<1>5. server_map' = server_map => B
  BY DEF Lookup
<1>6. ASSUME request'[t] = Idle
      PROVE  C /\ D /\ F
  BY <1>1, <1>2, <1>6, Bottom DEF Deleting
<1>7. ASSUME request'[t].cfg \in {<<>>, request[t].cfg, config},
             request'[t].pc \notin {"status", "pop"},
             request'[t].host = request[t].host
      PROVE  C /\ D /\ F
  BY <1>2, <1>7 DEF Deleting
<1> HIDE DEF A, B, C, D, F
<1>8. CASE Received(t)
  <2>1. PICK op \in Operation, n \in MemberId : Receive(t, op, n)
    BY <1>8 DEF Received
  <2>2. /\ server_map' = server_map /\ request'[t].cfg = request[t].cfg
        /\ request'[t].pc = op /\ request'[t].host = request[t].host
    <3>1. CASE op = "cleanup"
      BY <1>1, <2>1, <3>1 DEF Receive
    <3>2. CASE op # "cleanup"
      BY <1>1, <2>1, <3>2 DEF Receive
    <3>3. QED
      BY <3>1, <3>2
  <2>3. QED
    BY <1>3, <1>5, <1>7, <2>2 DEF A, B, C, D, F, Operation
<1>9. CASE \/ NoPrimary(t) \/ AddCreateFails(t) \/ ReconfigRefused(t) \/ Store(t)
  <2>1. Reply(t) /\ server_map' = server_map
    BY <1>9 DEF NoPrimary, AddCreateFails, ReconfigRefused, Store, Raise
  <2>2. request'[t] = Idle
    BY <1>1, <2>1 DEF Reply
  <2>3. QED
    BY <1>3, <1>5, <1>6, <2>1, <2>2 DEF A, B, C, D, F
<1>10. CASE CleanupEnds(t)
  <2>1. Reply(t) /\ server_map' \in {server_map, <<>>}
    BY <1>10 DEF CleanupEnds, Raise
  <2>2. request'[t] = Idle
    BY <1>1, <2>1 DEF Reply
  <2>3. DOMAIN <<>> = {}
    OBVIOUS
  <2>4. B
    BY <2>1, <2>3 DEF B, Lookup
  <2>5. QED
    BY <1>3, <1>6, <2>2, <2>4 DEF A, B, C, D, F
<1>11. CASE DelRemove(t) \/ Finish(t)
  <2>1. server_map' = server_map
    BY <1>11 DEF DelRemove, Finish
  <2>2. request'[t] = Idle \/ \E l \in {"remove", "store"} : Goto(t, l)
    BY <1>1, <1>11 DEF DelRemove, Finish, Raise, Reply
  <2>3. ASSUME NEW l \in {"remove", "store"}, Goto(t, l)
        PROVE  /\ request'[t].pc = l /\ request'[t].cfg = request[t].cfg
               /\ request'[t].host = request[t].host
    BY <1>1, <2>3 DEF Goto
  <2>4. C /\ D /\ F
    BY <1>6, <1>7, <2>2, <2>3
  <2>5. QED
    BY <1>3, <1>5, <2>1, <2>4 DEF A, B, C, D, F
<1>12. CASE AddRead(t)
  <2>1. /\ server_map' = server_map /\ request'[t].pc = "create"
        /\ request'[t].cfg = config /\ request'[t].host = request[t].host
    BY <1>1, <1>12 DEF AddRead
  <2>2. QED
    BY <1>3, <1>5, <1>7, <2>1 DEF A, B, C, D, F
<1>13. CASE \E g \in Host : AddCreate(t, g)
  <2>1. PICK g \in Host : AddCreate(t, g)
    BY <1>13
  <2> DEFINE e == [_id |-> request[t].id, host |-> g]
  <2>2. /\ server_map' = server_map /\ request'[t].pc = "reconfig"
        /\ request'[t].cfg = Append(request[t].cfg, e)
        /\ request'[t].host = g
    BY <1>1, <2>1 DEF AddCreate
  <2>3. e \in Member /\ e._id = request[t].id /\ e.host = g
    BY <1>1 DEF Member
  <2> HIDE DEF e
  <2>4. ToSet(request'[t].cfg) = ToSet(request[t].cfg) \cup {e}
    BY <1>1, <2>2, <2>3, Appended
  <2>5. In(m, h, request[t].cfg)' => In(m, h, request[t].cfg) \/ (m = e._id /\ h = e.host)
    BY <2>4 DEF In
  <2>6. C /\ D /\ F
    BY <2>1, <2>2, <2>3, <2>5 DEF C, D, F, Deleting
  <2>7. QED
    BY <1>3, <1>5, <2>2, <2>6 DEF A, B, C, D, F
<1>14. CASE DelLookup(t)
  <2>1. server_map' = server_map
    BY <1>14 DEF DelLookup
  <2>2. CASE request[t].id \notin DOMAIN server_map
    <3>1. request'[t] = Idle
      BY <1>1, <1>14, <2>2 DEF DelLookup, Raise, Reply
    <3>2. QED
      BY <1>3, <1>5, <1>6, <2>1, <3>1 DEF A, B, C, D, F
  <2>3. CASE request[t].id \in DOMAIN server_map
    <3>1. /\ request'[t].pc = "status" /\ request'[t].cfg = request[t].cfg
          /\ request'[t].id = request[t].id
          /\ request'[t].host = IF server_map[request[t].id] \in servers
                                THEN server_map[request[t].id] ELSE NoHost
      BY <1>1, <1>14, <2>3 DEF DelLookup
    <3>2. request'[t].host = h => Lookup(request[t].id, h)
      BY <1>1, <2>3, <3>1 DEF Lookup
    <3>3. C /\ D /\ F
      BY <1>1, <3>1, <3>2 DEF C, D, F, Deleting
    <3>4. QED
      BY <1>3, <1>5, <2>1, <3>3 DEF A, B, C, D, F
  <2>4. QED
    BY <2>2, <2>3
<1>15. CASE DelStatus(t)
  <2>1. /\ server_map' = server_map /\ request[t].pc = "status"
        /\ request'[t].cfg = request[t].cfg /\ request'[t].host = request[t].host
        /\ \/ request'[t].pc = "pop" /\ request'[t].id = request[t].id
           \/ request'[t].pc = "remove"
    <3>1. CASE request[t].id \in Ids(config)
      BY <1>1, <1>15, <3>1 DEF DelStatus, Goto, At
    <3>2. CASE request[t].id \notin Ids(config)
      BY <1>1, <1>15, <3>2 DEF DelStatus, At
    <3>3. QED
      BY <3>1, <3>2
  <2>2. C /\ D /\ F
    BY <2>1 DEF C, D, F, Deleting
  <2>3. QED
    BY <1>3, <1>5, <2>1, <2>2 DEF A, B, C, D, F
<1>16. CASE DelPop(t) \/ Update(t)
  <2>1. server_map' = server_map
    BY <1>16 DEF DelPop, Update
  <2>2. CASE request[t].id + 1 > Len(config)
    <3>1. request'[t] = Idle
      BY <1>1, <1>16, <2>2 DEF DelPop, Update, Raise, Reply
    <3>2. QED
      BY <1>3, <1>5, <1>6, <2>1, <3>1 DEF A, B, C, D, F
  <2>3. CASE ~(request[t].id + 1 > Len(config))
    <3>1. CASE Update(t)
      <4>1. /\ request'[t].pc = "reconfig" /\ request'[t].cfg = config
            /\ request'[t].host = request[t].host
        <5>1. request' = [request EXCEPT ![t].pc = "reconfig", ![t].cfg = config,
                                         ![t].base = version, ![t].id = 0]
          BY <2>3, <3>1 DEF Update
        <5>2. QED
          BY <1>1, <5>1
      <4>2. QED
        BY <1>3, <1>5, <1>7, <2>1, <4>1 DEF A, B, C, D, F
    <3>2. CASE DelPop(t)
      <4>1. request[t].id + 1 \in 1..Len(config)
        BY <1>1, <2>3, Numbers DEF MemberId
      <4>2. /\ request'[t].pc = "reconfig"
            /\ request'[t].cfg = RemoveAt(config, request[t].id + 1)
            /\ request'[t].host = request[t].host
        <5>1. request' = [request EXCEPT
                ![t].pc = "reconfig",
                ![t].cfg = RemoveAt(config, request[t].id + 1),
                ![t].base = version, ![t].id = 0]
          BY <2>3, <3>2 DEF DelPop
        <5>2. QED
          BY <1>1, <5>1
      <4>3. In(m, h, request[t].cfg)' => In(m, h, config)
        BY <1>1, <4>1, <4>2, Popped, Views DEF In
      <4>4. C /\ D /\ F
        BY <4>2, <4>3 DEF C, D, F, Deleting
      <4>5. QED
        BY <1>3, <1>5, <2>1, <4>4 DEF A, B, C, D, F
    <3>3. QED
      BY <1>16, <3>1, <3>2
  <2>4. QED
    BY <2>2, <2>3
<1>17. CASE Reconfig(t) \/ ReconfigReconnect(t)
  <2>1. server_map' \in {server_map, ServerMap(request[t].cfg)} /\ Waits(t)
    BY <1>17 DEF Reconfig, ReconfigReconnect
  <2>2. /\ request'[t].pc = "wait" /\ request'[t].cfg = <<>>
        /\ request'[t].host = request[t].host
    BY <1>1, <2>1 DEF Waits
  <2>3. QED
    BY <1>3, <1>4, <1>5, <1>7, <2>1, <2>2 DEF A, B, C, D, F
<1>18. CASE WaitRead(t)
  <2>1. /\ server_map' = server_map /\ request'[t].pc = "map"
        /\ request'[t].cfg = config /\ request'[t].host = request[t].host
    BY <1>1, <1>18 DEF WaitRead
  <2>2. QED
    BY <1>3, <1>5, <1>7, <2>1 DEF A, B, C, D, F
<1>19. CASE WaitMap(t)
  <2>1. server_map' = ServerMap(request[t].cfg)
    BY <1>19 DEF WaitMap
  <2>2. \/ Reply(t)
        \/ \E next \in {"wait", "finish"} :
             request' = [request EXCEPT ![t].pc = next, ![t].cfg = <<>>]
    BY <1>19 DEF WaitMap, Raise
  <2>3. CASE Reply(t)
    <3>1. request'[t] = Idle
      BY <1>1, <2>3 DEF Reply
    <3>2. QED
      BY <1>3, <1>4, <1>6, <2>1, <3>1 DEF A, B, C, D, F
  <2>4. ASSUME NEW next \in {"wait", "finish"},
               request' = [request EXCEPT ![t].pc = next, ![t].cfg = <<>>]
        PROVE  C /\ D /\ F
    <3>1. /\ request'[t].pc = next /\ request'[t].cfg = <<>>
          /\ request'[t].host = request[t].host
      BY <1>1, <2>4
    <3>2. QED
      BY <1>7, <3>1
  <2>5. QED
    BY <1>3, <1>4, <2>1, <2>2, <2>3, <2>4 DEF A, B, C, D, F
<1>20. CASE \E n \in MemberId : CleanupMember(t, n)
  <2>1. /\ server_map' = server_map /\ request'[t].pc = "cleanup"
        /\ request'[t].cfg = request[t].cfg /\ request'[t].host = request[t].host
    BY <1>1, <1>20 DEF CleanupMember, At
  <2>2. QED
    BY <1>3, <1>5, <1>7, <2>1 DEF A, B, C, D, F
<1>21. CASE Commands(t)
  <2>1. server_map' = server_map
    BY <1>21, CommandFrame
  <2>2. ASSUME NEW l \in {"run", "kept", "store"}, Goto(t, l)
        PROVE  C /\ D /\ F
    <3>1. /\ request'[t].pc = l /\ request'[t].cfg = request[t].cfg
          /\ request'[t].host = request[t].host
      BY <1>1, <2>2 DEF Goto
    <3>2. QED
      BY <1>7, <3>1
  <2>3. ASSUME Reply(t)
        PROVE  C /\ D /\ F
    BY <1>1, <1>6, <2>3 DEF Reply
  <2>4. ASSUME CommandLookup(t), ~Reply(t)
        PROVE  C /\ D /\ F
    <3>1. /\ request[t].id \in DOMAIN server_map
          /\ request' = [request EXCEPT ![t].pc = "run", ![t].id = 0,
                                        ![t].host = server_map[request[t].id]]
      BY <2>4 DEF CommandLookup, Raise
    <3>2. /\ request'[t].pc = "run" /\ request'[t].cfg = request[t].cfg
          /\ request'[t].host = server_map[request[t].id]
      BY <1>1, <3>1
    <3>3. request'[t].host = h => Lookup(request[t].id, h)
      BY <3>1, <3>2 DEF Lookup
    <3>4. QED
      BY <1>1, <3>2, <3>3 DEF C, D, F, Deleting
  <2>5. C /\ D /\ F
    BY <1>21, <2>2, <2>3, <2>4 DEF Commands, CommandStarts, CommandStops,
       CommandFails, CommandKept, Raise
  <2>6. QED
    BY <1>3, <1>5, <2>1, <2>5 DEF A, B, C, D, F
<1>22. QED
  BY <1>8, <1>9, <1>10, <1>11, <1>12, <1>13, <1>14, <1>15, <1>16, <1>17, <1>18,
     <1>19, <1>20, <1>21 DEF Step, Commands

\* The step of a label.
LEMMA StepAt ==
  ASSUME NEW t \in Thread, Step(t)
  PROVE  /\ At(t, "add") => NoPrimary(t) \/ AddRead(t)
         /\ At(t, "create") => AddCreateFails(t) \/ \E h \in Host : AddCreate(t, h)
         /\ At(t, "del") => DelLookup(t)
         /\ At(t, "status") => NoPrimary(t) \/ DelStatus(t)
         /\ At(t, "pop") => NoPrimary(t) \/ DelPop(t)
         /\ At(t, "update") => NoPrimary(t) \/ Update(t)
         /\ At(t, "reconfig") =>
              Reconfig(t) \/ ReconfigRefused(t) \/ ReconfigReconnect(t)
         /\ At(t, "wait") => NoPrimary(t) \/ WaitRead(t)
         /\ At(t, "map") => WaitMap(t)
         /\ At(t, "finish") => NoPrimary(t) \/ Finish(t)
         /\ At(t, "remove") => DelRemove(t)
         /\ At(t, "store") => Store(t)
         /\ At(t, "command") => CommandLookup(t)
         /\ At(t, "run") => CommandStarts(t) \/ CommandStops(t) \/ CommandFails(t)
         /\ At(t, "kept") => CommandKept(t)
         /\ At(t, "cleanup") =>
              CleanupEnds(t) \/ \E m \in MemberId : CleanupMember(t, m)
<1>1. \A l \in Label : request[t].pc = l => At(t, l)
  BY DEF At
<1>2. /\ NoPrimary(t) => request[t].pc \in {"add", "status", "pop", "update",
                                            "wait", "finish"}
      /\ AddRead(t) => request[t].pc = "add"
      /\ AddCreateFails(t) \/ (\E h \in Host : AddCreate(t, h)) =>
           request[t].pc = "create"
      /\ DelLookup(t) => request[t].pc = "del"
      /\ DelStatus(t) => request[t].pc = "status"
      /\ DelPop(t) => request[t].pc = "pop"
      /\ Update(t) => request[t].pc = "update"
      /\ Reconfig(t) \/ ReconfigRefused(t) \/ ReconfigReconnect(t) =>
           request[t].pc = "reconfig"
      /\ WaitRead(t) => request[t].pc = "wait"
      /\ WaitMap(t) => request[t].pc = "map"
      /\ Finish(t) => request[t].pc = "finish"
      /\ DelRemove(t) => request[t].pc = "remove"
      /\ Store(t) => request[t].pc = "store"
      /\ CommandLookup(t) => request[t].pc = "command"
      /\ CommandStarts(t) \/ CommandStops(t) \/ CommandFails(t) =>
           request[t].pc = "run"
      /\ CommandKept(t) => request[t].pc = "kept"
      /\ CleanupEnds(t) \/ (\E m \in MemberId : CleanupMember(t, m)) =>
           request[t].pc = "cleanup"
  BY DEF NoPrimary, AddRead, AddCreate, AddCreateFails, DelLookup, DelStatus,
     DelPop, DelRemove, Update, Reconfig, ReconfigRefused, ReconfigReconnect,
     WaitRead, WaitMap, Finish, Store, CommandLookup, CommandStarts, CommandStops,
     CommandFails, CommandKept, CleanupMember, CleanupEnds, At
<1>3. QED
  BY <1>2 DEF Step, At

\* What the request is after a step of it.
LEMMA After ==
  ASSUME TypeInv, NEW t \in Thread, Step(t), request'[t] # Idle
  PROVE  LET r == request[t]
             q == request'[t] IN
         /\ q.op = r.op
         /\ r.pc \notin {"create", "del", "command"} => q.host = r.host
         /\ r.pc \in {"add", "create", "del", "status", "pop", "update", "reconfig",
                      "wait", "map", "finish", "remove", "cleanup", "command",
                      "run", "kept"}
         /\ r.pc = "command" => q.pc = "run" /\ q.base = r.base
         /\ r.pc = "run" => q.pc \in {"run", "kept"} /\ q.base = r.base
         /\ r.pc = "kept" => q.pc = "store" /\ q.base = r.base
         /\ r.pc = "add" => q.pc = "create" /\ q.cfg = config /\ q.base = version
         /\ r.pc = "create" =>
              /\ q.pc = "reconfig" /\ q.base = r.base
              /\ \E h \in Host : /\ AddCreate(t, h) /\ q.host = h
                                 /\ Hosts(q.cfg) = Hosts(r.cfg) \cup {h}
         /\ r.pc = "del" => /\ q.pc = "status" /\ q.base = r.base
         /\ r.pc = "status" =>
              /\ q.base = r.base
              /\ \/ q.pc = "pop"
                 \/ q.pc = "remove" /\ r.id \notin Ids(config)
         /\ r.pc = "pop" =>
              /\ q.pc = "reconfig" /\ q.base = version
              /\ r.id + 1 \in 1..Len(config)
              /\ q.cfg = RemoveAt(config, r.id + 1)
         /\ r.pc = "update" =>
              q.pc = "reconfig" /\ q.cfg = config /\ q.base = version
         /\ r.pc = "reconfig" =>
              /\ Reconfig(t) \/ ReconfigReconnect(t)
              /\ q.pc = "wait" /\ q.base = 0
         /\ r.pc = "wait" => q.pc = "map" /\ q.cfg = config /\ q.base = r.base
         /\ r.pc = "map" => q.pc \in {"wait", "finish"} /\ q.base = r.base
         /\ r.pc = "finish" =>
              q.pc = (IF r.op = "del" THEN "remove" ELSE "store") /\ q.base = r.base
         /\ r.pc = "remove" =>
              /\ q.pc = "store" /\ q.base = r.base /\ r.host \in servers
              /\ servers' = servers \ {r.host}
         /\ r.pc = "cleanup" => q.pc = "cleanup" /\ q.base = r.base
<1> DEFINE r == request[t]
           q == request'[t]
<1>1. /\ DOMAIN request = Thread /\ config \in Seq(Member)
      /\ DOMAIN request[t] = {"pc", "op", "id", "host", "cfg", "base", "todo",
                              "raises"}
      /\ request[t].cfg \in Seq(Member) /\ request[t].id \in MemberId
      /\ request[t].pc \in Label
  BY Fields DEF TypeInv, ConfigOK
<1>2. ~Reply(t)
  BY <1>1 DEF Reply
<1>3. request[t].pc # "idle" /\ ~Store(t)
  BY <1>2, Moving DEF Store
<1>4. CASE r.pc = "add"
  <2>1. AddRead(t)
    BY <1>2, <1>4, StepAt DEF At, NoPrimary, Raise
  <2>2. /\ q.pc = "create" /\ q.cfg = config /\ q.base = version /\ q.op = r.op
        /\ q.host = r.host
    BY <1>1, <2>1 DEF AddRead
  <2>3. QED
    BY <1>4, <2>2
<1>5. CASE r.pc = "create"
  <2>1. PICK h \in Host : AddCreate(t, h)
    BY <1>2, <1>5, StepAt DEF At, AddCreateFails, Raise
  <2> DEFINE e == [_id |-> r.id, host |-> h]
  <2>2. /\ q.pc = "reconfig" /\ q.base = r.base /\ q.op = r.op /\ q.host = h
        /\ q.cfg = Append(r.cfg, e)
    BY <1>1, <2>1 DEF AddCreate
  <2>3. e \in Member /\ e.host = h
    BY <1>1 DEF Member
  <2> HIDE DEF e
  <2>4. Hosts(q.cfg) = Hosts(r.cfg) \cup {h}
    BY <1>1, <2>2, <2>3, Appended
  <2>5. QED
    BY <1>5, <2>1, <2>2, <2>4
<1>6. CASE r.pc = "del"
  <2>1. DelLookup(t)
    BY <1>6, StepAt DEF At
  <2>2. q.pc = "status" /\ q.base = r.base /\ q.op = r.op
    BY <1>1, <1>2, <2>1 DEF DelLookup, Raise
  <2>3. QED
    BY <1>6, <2>2
<1>7. CASE r.pc = "status"
  <2>1. DelStatus(t)
    BY <1>2, <1>7, StepAt DEF At, NoPrimary, Raise
  <2>2. /\ q.op = r.op /\ q.host = r.host /\ q.base = r.base
        /\ \/ q.pc = "pop"
           \/ q.pc = "remove" /\ r.id \notin Ids(config)
    <3>1. CASE r.id \in Ids(config)
      BY <1>1, <2>1, <3>1 DEF DelStatus, Goto
    <3>2. CASE r.id \notin Ids(config)
      BY <1>1, <2>1, <3>2 DEF DelStatus
    <3>3. QED
      BY <3>1, <3>2
  <2>3. QED
    BY <1>7, <2>2
<1>8. CASE r.pc = "pop"
  <2>1. DelPop(t)
    BY <1>2, <1>8, StepAt DEF At, NoPrimary, Raise
  <2>2. ~(r.id + 1 > Len(config))
    BY <1>2, <2>1 DEF DelPop, Raise
  <2>3. request' = [request EXCEPT ![t].pc = "reconfig",
                                   ![t].cfg = RemoveAt(config, r.id + 1),
                                   ![t].base = version, ![t].id = 0]
    BY <2>1, <2>2 DEF DelPop
  <2>4. /\ q.pc = "reconfig" /\ q.base = version /\ q.op = r.op
        /\ q.host = r.host /\ q.cfg = RemoveAt(config, r.id + 1)
    BY <1>1, <2>3
  <2>5. r.id + 1 \in 1..Len(config)
    BY <1>1, <2>2, Numbers DEF MemberId
  <2>6. QED
    BY <1>8, <2>4, <2>5
<1>9. CASE r.pc = "update"
  <2>1. Update(t)
    BY <1>2, <1>9, StepAt DEF At, NoPrimary, Raise
  <2>2. ~(r.id + 1 > Len(config))
    BY <1>2, <2>1 DEF Update, Raise
  <2>3. request' = [request EXCEPT ![t].pc = "reconfig", ![t].cfg = config,
                                   ![t].base = version, ![t].id = 0]
    BY <2>1, <2>2 DEF Update
  <2>4. /\ q.pc = "reconfig" /\ q.base = version /\ q.op = r.op
        /\ q.host = r.host /\ q.cfg = config
    BY <1>1, <2>3
  <2>5. QED
    BY <1>9, <2>4
<1>10. CASE r.pc = "reconfig"
  <2>1. Reconfig(t) \/ ReconfigReconnect(t)
    BY <1>2, <1>10, StepAt DEF At, ReconfigRefused, Raise
  <2>2. Waits(t)
    BY <2>1 DEF Reconfig, ReconfigReconnect
  <2>3. q.pc = "wait" /\ q.base = 0 /\ q.op = r.op /\ q.host = r.host
    BY <1>1, <2>2 DEF Waits
  <2>4. QED
    BY <1>10, <2>1, <2>3
<1>11. CASE r.pc = "wait"
  <2>1. WaitRead(t)
    BY <1>2, <1>11, StepAt DEF At, NoPrimary, Raise
  <2>2. /\ q.pc = "map" /\ q.cfg = config /\ q.base = r.base /\ q.op = r.op
        /\ q.host = r.host
    BY <1>1, <2>1 DEF WaitRead
  <2>3. QED
    BY <1>11, <2>2
<1>12. CASE r.pc = "map"
  <2>1. PICK next \in {"wait", "finish"} :
          request' = [request EXCEPT ![t].pc = next, ![t].cfg = <<>>]
    BY <1>2, <1>12, StepAt DEF At, WaitMap, Raise
  <2>2. q.pc = next /\ q.base = r.base /\ q.op = r.op /\ q.host = r.host
    BY <1>1, <2>1
  <2>3. QED
    BY <1>12, <2>2
<1>13. CASE r.pc = "finish"
  <2>1. Finish(t)
    BY <1>2, <1>13, StepAt DEF At, NoPrimary, Raise
  <2>2. /\ q.pc = (IF r.op = "del" THEN "remove" ELSE "store")
        /\ q.base = r.base /\ q.op = r.op /\ q.host = r.host
    BY <1>1, <2>1 DEF Finish, Goto
  <2>3. QED
    BY <1>13, <2>2
<1>14. CASE r.pc = "remove"
  <2>1. DelRemove(t)
    BY <1>14, StepAt DEF At
  <2>2. /\ r.host \in servers /\ servers' = servers \ {r.host} /\ Goto(t, "store")
    BY <1>2, <2>1 DEF DelRemove, Raise
  <2>3. q.pc = "store" /\ q.base = r.base /\ q.op = r.op /\ q.host = r.host
    BY <1>1, <2>2 DEF Goto
  <2>4. QED
    BY <1>14, <2>2, <2>3
<1>15. CASE r.pc = "cleanup"
  <2>1. PICK m \in MemberId : CleanupMember(t, m)
    BY <1>2, <1>15, StepAt DEF At, CleanupEnds, Raise
  <2>2. q.pc = "cleanup" /\ q.base = r.base /\ q.op = r.op /\ q.host = r.host
    BY <1>1, <1>15, <2>1 DEF CleanupMember
  <2>3. QED
    BY <1>15, <2>2
<1>16. r.pc # "store"
  BY <1>3, StepAt DEF At
<1>17. CASE r.pc = "command"
  <2>1. CommandLookup(t)
    BY <1>17, StepAt DEF At
  <2>2. request' = [request EXCEPT ![t].pc = "run", ![t].id = 0,
                                   ![t].host = server_map[request[t].id]]
    BY <1>2, <2>1 DEF CommandLookup, Raise
  <2>3. q.pc = "run" /\ q.base = r.base /\ q.op = r.op
    BY <1>1, <2>2
  <2>4. QED
    BY <1>17, <2>3
<1>18. CASE r.pc \in {"run", "kept"}
  <2>1. \/ r.pc = "run" /\ (Goto(t, "run") \/ Goto(t, "kept"))
        \/ r.pc = "kept" /\ Goto(t, "store")
    BY <1>2, <1>18, StepAt DEF At, CommandStarts, CommandStops, CommandFails,
       CommandKept, Raise
  <2>2. ASSUME NEW l, Goto(t, l)
        PROVE  q.pc = l /\ q.base = r.base /\ q.op = r.op /\ q.host = r.host
    BY <1>1, <2>2 DEF Goto
  <2>3. QED
    BY <1>18, <2>1, <2>2
<1>19. QED
  BY <1>1, <1>3, <1>4, <1>5, <1>6, <1>7, <1>8, <1>9, <1>10, <1>11, <1>12, <1>13,
     <1>14, <1>15, <1>16, <1>17, <1>18 DEF Label

\* member_create takes a host that nobody mentions, unless a port is reused.
LEMMA NewHost ==
  ASSUME TypeInv, NEW t \in Thread, NEW h \in Host, AddCreate(t, h),
         "reused" \notin surprise'
  PROVE  /\ \A m : ~Pair(m, h)
         /\ \A m : ~In(m, h, config) /\ ~Lookup(m, h)
         /\ \A u \in Thread : /\ request[u].host # h
                              /\ \A m : ~In(m, h, request[u].cfg)
<1>1. Unmentioned(h) /\ config \in Seq(Member)
  BY DEF AddCreate, TypeInv, ConfigOK
<1>2. \A m : ~In(m, h, config)
  BY <1>1, InFacts DEF Unmentioned
<1>3. \A m : ~Lookup(m, h)
  BY <1>1 DEF Unmentioned, Lookup
<1>4. ASSUME NEW u \in Thread
      PROVE  /\ request[u].host # h
             /\ \A m : ~In(m, h, request[u].cfg) /\ ~Deleting(u, m, h)
  <2>1. h # request[u].host /\ h \notin Hosts(request[u].cfg)
    BY <1>1 DEF Unmentioned
  <2>2. request[u].cfg \in Seq(Member)
    BY Fields DEF TypeInv
  <2>3. QED
    BY <2>1, <2>2, InFacts DEF Deleting
<1>5. QED
  BY <1>2, <1>3, <1>4 DEF Pair

LEMMA InitOneId == Init => OneId
<1> SUFFICES ASSUME Init, NEW h \in Host, NEW m \in MemberId, NEW n \in MemberId,
                    Pair(m, h), Pair(n, h)
             PROVE  m = n
  BY DEF OneId
<1>1. /\ config \in Seq(Member) /\ Len(config) = Members
      /\ \A j, k \in 1..Members : config[j].host = config[k].host => j = k
      /\ server_map = ServerMap(config)
  BY FirstConfig DEF Init
<1>2. \A u \in Thread : /\ request[u].cfg = <<>>
                        /\ request[u].pc = "idle"
  BY Bottom DEF Init
<1>3. ASSUME NEW i \in MemberId, Pair(i, h)
      PROVE  In(i, h, config)
  <2>1. In(i, h, config) \/ Lookup(i, h)
    <3>1. \A u \in Thread : ~In(i, h, request[u].cfg) /\ ~Deleting(u, i, h)
      <4>1. ~In(i, h, <<>>)
        BY <1>1, InFacts
      <4>2. QED
        BY <1>2, <4>1 DEF Deleting
    <3>2. QED
      BY <1>3, <3>1 DEF Pair
  <2>2. ASSUME Lookup(i, h)
        PROVE  In(i, h, config)
    <3>1. i \in Ids(config) /\ ServerMap(config)[i] = h
      BY <1>1, <2>2, Mapping DEF Lookup
    <3>2. [_id |-> i, host |-> h] \in ToSet(config)
      BY <1>1, <3>1, Mapping
    <3>3. QED
      BY <3>2 DEF In
  <2>3. QED
    BY <2>1, <2>2
<1>4. In(m, h, config) /\ In(n, h, config)
  BY <1>3
<1>5. PICK j \in 1..Len(config) : config[j]._id = m /\ config[j].host = h
  BY <1>1, <1>4, Views DEF In
<1>6. PICK k \in 1..Len(config) : config[k]._id = n /\ config[k].host = h
  BY <1>1, <1>4, Views DEF In
<1>7. QED
  BY <1>1, <1>5, <1>6

LEMMA OneIdStep ==
  ASSUME TypeInv, OneId, [Next]_vars
  PROVE  OneId'
<1>1. SUFFICES ASSUME NEW h \in Host, NEW m \in MemberId, NEW n \in MemberId,
                      Pair(m, h)', Pair(n, h)', "reused" \notin surprise'
               PROVE  m = n
  BY DEF OneId
<1>r. "reused" \notin surprise
  BY <1>1, SurpriseGrows
<1>2. ASSUME NEW t \in Thread, Received(t) \/ Step(t)
      PROVE  m = n
  <2>1. ASSUME NEW i \in MemberId, Pair(i, h)'
        PROVE  Pair(i, h) \/ (AddCreate(t, h) /\ i = request[t].id)
    <3>1. /\ In(i, h, config)' => In(i, h, config) \/ In(i, h, request[t].cfg)
          /\ Lookup(i, h)' => Lookup(i, h) \/ In(i, h, request[t].cfg)
          /\ In(i, h, request[t].cfg)' =>
               \/ In(i, h, config) \/ In(i, h, request[t].cfg)
               \/ AddCreate(t, h) /\ i = request[t].id
          /\ Deleting(t, i, h)' => Deleting(t, i, h) \/ Lookup(i, h)
      BY <1>2, Flows
    <3>2. \A u \in Thread \ {t} :
            /\ In(i, h, request[u].cfg)' => In(i, h, request[u].cfg)
            /\ Deleting(u, i, h)' => Deleting(u, i, h)
      BY <1>2, OthersStay DEF In, Deleting
    <3>3. \/ In(i, h, config)' \/ Lookup(i, h)'
          \/ \E u \in Thread : In(i, h, request[u].cfg)' \/ Deleting(u, i, h)'
      BY <2>1 DEF Pair
    <3>4. QED
      BY <3>1, <3>2, <3>3 DEF Pair
  <2>2. Pair(m, h) \/ (AddCreate(t, h) /\ m = request[t].id)
    BY <1>1, <2>1
  <2>3. Pair(n, h) \/ (AddCreate(t, h) /\ n = request[t].id)
    BY <1>1, <2>1
  <2>4. AddCreate(t, h) => ~Pair(m, h) /\ ~Pair(n, h)
    BY <1>1, NewHost
  <2>5. Pair(m, h) /\ Pair(n, h) => m = n
    BY <1>r DEF OneId
  <2>6. QED
    BY <2>2, <2>3, <2>4, <2>5
<1>3. CASE UNCHANGED <<config, server_map, request>>
  <2>1. \A i : Pair(i, h)' => Pair(i, h)
    BY <1>3 DEF Pair, In, Lookup, Deleting
  <2>2. QED
    BY <1>1, <1>r, <2>1 DEF OneId
<1>4. QED
  BY <1>2, <1>3, Actors

-----------------------------------------------------------------------------
(***************************************************************************)
(* A member that is being added.                                           *)
(***************************************************************************)
Adding(t) == At(t, "reconfig") /\ request[t].op = "add"

\* Only the request of t knows the host.
Unseen(t, h) ==
  /\ h \in Host
  /\ \A m \in MemberId : ~In(m, h, config) /\ ~Lookup(m, h)
  /\ \A u \in Thread \ {t} : /\ request[u].host # h
                             /\ \A m \in MemberId : ~In(m, h, request[u].cfg)

Fresh ==
  "reused" \notin surprise =>
    \A t \in Thread : Adding(t) => Unseen(t, request[t].host)

LEMMA InitFresh == Init => Fresh
BY Bottom DEF Init, Fresh, Adding, At

\* A request becomes one that adds a member by member_create.
LEMMA AddingStarts ==
  ASSUME TypeInv, NEW t \in Thread, Received(t) \/ Step(t), Adding(t)'
  PROVE  \E h \in Host : /\ AddCreate(t, h) /\ request'[t].host = h
                         /\ Hosts(request'[t].cfg) = Hosts(request[t].cfg) \cup {h}
                         /\ request'[t].base = request[t].base
<1>1. Serves(request[t]) /\ request'[t].pc = "reconfig" /\ request'[t].op = "add"
  BY Fields DEF TypeInv, Ready, Adding, At
<1>2. ~Received(t)
  <2>1. SUFFICES ASSUME NEW op \in Operation,
                        NEW m \in MemberId, Receive(t, op, m)
                 PROVE  request'[t].pc = op
    BY <1>1 DEF Received, Operation
  <2>2. DOMAIN request = Thread /\ "pc" \in DOMAIN request[t]
    BY Fields DEF TypeInv
  <2>3. CASE op = "cleanup"
    BY <2>1, <2>2, <2>3 DEF Receive
  <2>4. CASE op # "cleanup"
    BY <2>1, <2>2, <2>4 DEF Receive
  <2>5. QED
    BY <2>3, <2>4
<1>3. Step(t) /\ request'[t] # Idle
  BY <1>1, <1>2, Bottom
<1>4. /\ request[t].op = "add"
      /\ request[t].pc \notin {"add", "del", "status", "pop", "update", "reconfig",
                               "wait", "map", "finish", "remove", "cleanup",
                               "command", "run", "kept"}
  BY <1>1, <1>3, After DEF Serves
<1>5. request[t].pc = "create"
  BY <1>3, <1>4, After
<1>6. QED
  BY <1>3, <1>5, After

LEMMA FreshStep ==
  ASSUME TypeInv, Fresh, [Next]_vars
  PROVE  Fresh'
<1>1. SUFFICES ASSUME NEW u \in Thread, Adding(u)', "reused" \notin surprise'
               PROVE  Unseen(u, request[u].host)'
  BY DEF Fresh
<1>r. "reused" \notin surprise
  BY <1>1, SurpriseGrows
<1>h. PICK h : h = request'[u].host
  OBVIOUS
<1>2. ASSUME NEW t \in Thread, Received(t) \/ Step(t)
      PROVE  Unseen(u, request[u].host)'
  <2>1. \A v \in Thread \ {t} : request'[v] = request[v]
    BY <1>2, OthersStay
  <2>2. CASE u = t
    <3>1. AddCreate(t, h) /\ h \in Host
      BY <1>1, <1>h, <1>2, <2>2, AddingStarts
    <3>2. config' = config /\ server_map' = server_map
      BY <3>1 DEF AddCreate, setVars
    <3>3. /\ \A m : ~In(m, h, config) /\ ~Lookup(m, h)
          /\ \A v \in Thread : /\ request[v].host # h
                               /\ \A m : ~In(m, h, request[v].cfg)
      BY <1>1, <3>1, NewHost
    <3>4. QED
      BY <1>h, <2>1, <2>2, <3>1, <3>2, <3>3 DEF Unseen, Lookup, In
  <2>3. CASE u # t
    <3>1. request'[u] = request[u] /\ Unseen(u, h)
      BY <1>1, <1>h, <1>r, <2>1, <2>3 DEF Fresh, Adding, At
    <3>2. /\ h \in Host /\ t \in Thread \ {u}
          /\ \A m \in MemberId : ~In(m, h, config) /\ ~Lookup(m, h)
          /\ \A v \in Thread \ {u} : /\ request[v].host # h
                                     /\ \A m \in MemberId : ~In(m, h, request[v].cfg)
      BY <2>3, <3>1 DEF Unseen
    <3>3. ~AddCreate(t, h)
      BY <1>1, <1>h, <3>1, <3>2, NewHost
    <3>4. \A m \in MemberId : /\ ~In(m, h, config)' /\ ~Lookup(m, h)'
                              /\ ~In(m, h, request[t].cfg)'
      BY <1>2, <3>2, <3>3, Flows
    <3>5. request'[t].host # h
      BY <1>2, <3>2, <3>3, Flows
    <3>6. \A v \in Thread \ {u} : /\ request'[v].host # h
                                  /\ \A m \in MemberId : ~In(m, h, request[v].cfg)'
      BY <2>1, <3>2, <3>4, <3>5 DEF In
    <3>7. QED
      BY <1>h, <3>2, <3>4, <3>6 DEF Unseen, Lookup, In
  <2>4. QED
    BY <2>2, <2>3
<1>3. CASE UNCHANGED <<config, server_map, request>>
  BY <1>1, <1>r, <1>3 DEF Fresh, Adding, At, Unseen, In, Lookup
<1>4. QED
  BY <1>2, <1>3, Actors

-----------------------------------------------------------------------------
(***************************************************************************)
(* What a request reconfigures, as long as nobody else does.               *)
(***************************************************************************)
\* What the request of t would make of the members if mongod took it now.
Current(t) ==
  LET r == request[t] IN
    /\ At(t, "create") => r.cfg = config
    /\ Adding(t) => Hosts(r.cfg) = Hosts(config) \cup {r.host}
    /\ At(t, "reconfig") /\ r.op = "update" => r.cfg = config
    /\ At(t, "reconfig") /\ r.op = "del" =>
         /\ \E h \in Host : Hosts(config) = Hosts(r.cfg) \cup {h}
         /\ surprise \cap {"gap", "reused"} = {} =>
              \/ r.host \notin Hosts(config)
              \/ Hosts(config) = Hosts(r.cfg) \cup {r.host}

Derived ==
  \A t \in Thread : /\ request[t].base <= version
                    /\ request[t].base = version => Current(t)

LEMMA InitDerived == Init => Derived
BY Bottom DEF Init, Derived, Current, Adding, At

\* The member that a delete pops is the one it was asked to remove, as long as
\* positions are _ids.
LEMMA PoppedMember ==
  ASSUME TypeInv, OneId, Dense(config), "reused" \notin surprise,
         NEW t \in Thread, Step(t), At(t, "pop"), request'[t] # Idle
  PROVE  LET h == request[t].host
             c == request'[t].cfg IN
         /\ h \notin Hosts(c)
         /\ h \notin Hosts(config) \/ Hosts(config) = Hosts(c) \cup {h}
<1> DEFINE h == request[t].host
           i == request[t].id
           k == request[t].id + 1
           d == RemoveAt(config, k)
<1>1. request'[t].cfg = d /\ k \in 1..Len(config)
  BY After DEF At
<1>2. /\ config \in Seq(Member) /\ i \in MemberId
      /\ h \in Host \cup {NoHost}
  BY Fields DEF TypeInv, ConfigOK
<1>3. /\ d \in Seq(Member)
      /\ \A x : x \in ToSet(d) <=> \E j \in 1..Len(config) : j # k /\ x = config[j]
  BY <1>1, <1>2, Popped
<1> HIDE DEF d
<1>4. ASSUME NEW j \in 1..Len(config), config[j].host = h
      PROVE  j = k
  <2>1. config[j]._id = j - 1 /\ config[j]._id \in MemberId /\ h \in Host
    <3>1. DOMAIN config = 1..Len(config)
      BY <1>2
    <3>2. config[j]._id = j - 1
      BY <3>1 DEF Dense
    <3>3. QED
      BY <1>2, <1>4, <3>2, MemberFields
  <2>2. In(j - 1, h, config)
    BY <1>2, <1>4, <2>1, Views DEF In
  <2>3. Deleting(t, i, h)
    BY DEF Deleting, At
  <2>4. j - 1 = i
    BY <1>2, <2>1, <2>2, <2>3 DEF OneId, Pair
  <2>5. i \in Nat
    BY <1>2, Numbers DEF MemberId
  <2>6. QED
    BY <2>4, <2>5
<1>5. h \notin Hosts(d)
  <2>1. SUFFICES ASSUME NEW x \in ToSet(d), x.host = h
                 PROVE  FALSE
    BY <1>3, Views
  <2>2. PICK j \in 1..Len(config) : j # k /\ x = config[j]
    BY <1>3, <2>1
  <2>3. QED
    BY <1>4, <2>1, <2>2
<1>6. ASSUME h \in Hosts(config)
      PROVE  Hosts(config) = Hosts(d) \cup {h}
  <2>1. config[k].host = h
    <3>1. PICK j \in 1..Len(config) : config[j].host = h
      BY <1>2, <1>6, Views
    <3>2. j = k
      BY <1>4, <3>1
    <3>3. QED
      BY <3>1, <3>2
  <2>2. \A g : g \in Hosts(d) <=> \E j \in 1..Len(config) : j # k /\ g = config[j].host
    <3>1. \A g : g \in Hosts(d) <=> \E x \in ToSet(d) : g = x.host
      BY <1>3, Views
    <3>2. QED
      BY <1>3, <3>1
  <2>3. \A g : g \in Hosts(config) <=> \E j \in 1..Len(config) : g = config[j].host
    BY <1>2, Views
  <2>4. QED
    BY <1>1, <2>1, <2>2, <2>3
<1>7. QED
  BY <1>1, <1>5, <1>6

\* A request begins with no configuration in hand.
LEMMA Begins ==
  ASSUME TypeInv, NEW t \in Thread, Received(t)
  PROVE  /\ request[t] = Idle
         /\ request'[t].pc \in Operation
         /\ request'[t].op = request'[t].pc /\ request'[t].base = 0
         /\ UNCHANGED <<config, version, primary, server_map, servers, up>>
<1>1. PICK op \in Operation, m \in MemberId : Receive(t, op, m)
  BY DEF Received
<1>2. /\ request[t] = Idle /\ request[t].base = 0 /\ DOMAIN request = Thread
      /\ DOMAIN request[t] = {"pc", "op", "id", "host", "cfg", "base", "todo",
                              "raises"}
  BY <1>1, Fields, Bottom DEF TypeInv, Ready, Serves, Receive, At
<1>3. request'[t].pc = op /\ request'[t].op = op /\ request'[t].base = request[t].base
  <2>1. CASE op = "cleanup"
    BY <1>1, <1>2, <2>1 DEF Receive
  <2>2. CASE op # "cleanup"
    BY <1>1, <1>2, <2>2 DEF Receive
  <2>3. QED
    BY <2>1, <2>2
<1>4. QED
  BY <1>1, <1>2, <1>3 DEF Receive, setVars

LEMMA DerivedStep ==
  ASSUME TypeInv, NoGap, OneId, Derived, [Next]_vars
  PROVE  Derived'
<1>1. SUFFICES ASSUME NEW u \in Thread
               PROVE  /\ request'[u].base <= version'
                      /\ request'[u].base = version' => Current(u)'
  BY DEF Derived
<1>2. /\ request[u].base <= version
      /\ request[u].base = version => Current(u)
      /\ request[u].base \in Nat /\ version \in Nat /\ surprise \subseteq surprise'
      /\ config \in Seq(Member)
  BY Fields, SurpriseGrows, Numbers DEF Derived, TypeInv, ConfigOK
<1>3. ASSUME UNCHANGED <<config, version>>, request'[u] = request[u]
      PROVE  /\ request'[u].base <= version'
             /\ request'[u].base = version' => Current(u)'
  <2>1. /\ config' = config /\ version' = version /\ request'[u] = request[u]
        /\ surprise' \cap {"gap", "reused"} = {} =>
             surprise \cap {"gap", "reused"} = {}
    BY <1>2, <1>3
  <2>2. Current(u) => Current(u)'
    BY <2>1 DEF Current, Adding, At
  <2>3. QED
    BY <1>2, <2>1, <2>2
<1>4. ASSUME NEW t \in Thread, Received(t) \/ Step(t)
      PROVE  /\ request'[u].base <= version'
             /\ request'[u].base = version' => Current(u)'
  <2>1. \A v \in Thread \ {t} : request'[v] = request[v]
    BY <1>4, OthersStay
  <2>2. CASE Applied(t)
    <3>1. /\ version' = request[t].base + 1 /\ request[t].base + 1 > version
          /\ request[t].base <= version /\ request[t].base \in Nat
      BY <2>2, Fields, Numbers DEF Applied, Derived, TypeInv
    <3>2. version' = version + 1
      BY <1>2, <3>1
    <3>3. request'[t].base = 0
      <4>1. DOMAIN request = Thread /\ "base" \in DOMAIN request[t]
        BY Fields DEF TypeInv
      <4>2. QED
        BY <2>2, <4>1 DEF Applied, Waits
    <3>4. request'[u].base <= version
      BY <1>2, <2>1, <3>3
    <3>5. request'[u].base \in Nat
      BY <1>2, <2>1, <3>3
    <3>6. QED
      BY <1>2, <3>2, <3>4, <3>5
  <2>3. CASE ~Applied(t) /\ u # t
    <3>1. UNCHANGED <<config, version>>
      BY <1>4, <2>3, ConfigAfter
    <3>2. QED
      BY <1>3, <2>1, <2>3, <3>1
  <2>4. CASE ~Applied(t) /\ u = t
    <3>1. UNCHANGED <<config, version>>
      BY <1>4, <2>4, ConfigAfter
    <3> DEFINE r == request[u]
               q == request'[u]
    <3>2. Serves(r)
      BY Fields DEF TypeInv, Ready
    <3>3. CASE q = Idle \/ Received(t)
      <4>1. q.base = 0 /\ q.pc \notin {"create", "reconfig"}
        BY <2>4, <3>3, Begins, Bottom DEF Operation
      <4>2. QED
        BY <1>2, <3>1, <4>1 DEF Current, Adding, At
    <3>4. CASE q # Idle /\ Step(t)
      <4>1. CASE r.pc \in {"add", "update"}
        <5>1. /\ q.cfg = config /\ q.base = version /\ q.op = r.op
              /\ q.pc = "create" \/ (q.pc = "reconfig" /\ q.op = "update")
          BY <2>4, <3>2, <3>4, <4>1, After DEF Serves
        <5>2. QED
          BY <1>2, <3>1, <5>1 DEF Current, Adding, At
      <4>2. CASE r.pc = "create"
        <5>1. PICK g \in Host : AddCreate(t, g) /\ q.host = g
                                /\ Hosts(q.cfg) = Hosts(r.cfg) \cup {g}
          BY <2>4, <3>4, <4>2, After
        <5>2. q.pc = "reconfig" /\ q.base = r.base /\ q.op = r.op /\ r.op = "add"
          BY <2>4, <3>2, <3>4, <4>2, After DEF Serves
        <5>3. r.base = version => Hosts(q.cfg) = Hosts(config) \cup {q.host}
          BY <1>2, <4>2, <5>1 DEF Current, At
        <5>4. q.base <= version
          BY <1>2, <5>2
        <5>5. QED
          BY <3>1, <5>2, <5>3, <5>4 DEF Current, Adding, At
      <4>3. CASE r.pc = "pop"
        <5>0. r.op = "del"
          BY <3>2, <4>3 DEF Serves
        <5>1. /\ q.pc = "reconfig" /\ q.base = version /\ q.op = r.op
              /\ r.id + 1 \in 1..Len(config) /\ q.host = r.host
              /\ q.cfg = RemoveAt(config, r.id + 1)
          BY <2>4, <3>4, <4>3, After
        <5>2. \E h \in Host : Hosts(config) = Hosts(q.cfg) \cup {h}
          <6> DEFINE k == r.id + 1
          <6>1. /\ q.cfg \in Seq(Member)
                /\ \A x : x \in ToSet(q.cfg) <=>
                     \E j \in 1..Len(config) : j # k /\ x = config[j]
            BY <1>2, <5>1, Popped
          <6>2. \A g : g \in Hosts(q.cfg) <=> \E x \in ToSet(q.cfg) : g = x.host
            BY <6>1, Views
          <6>3. \A g : g \in Hosts(config) <=>
                  \E j \in 1..Len(config) : g = config[j].host
            BY <1>2, Views
          <6> HIDE DEF k
          <6>4. \A g : g \in Hosts(config) <=>
                  g \in Hosts(q.cfg) \/ g = config[k].host
            BY <5>1, <6>1, <6>2, <6>3 DEF k
          <6>5. config[k].host \in Host
            BY <1>2, <5>1, MemberFields DEF k
          <6>6. QED
            BY <6>4, <6>5
        <5>3. surprise' \cap {"gap", "reused"} = {} =>
                \/ q.host \notin Hosts(config)
                \/ Hosts(config) = Hosts(q.cfg) \cup {q.host}
          BY <1>2, <2>4, <3>4, <4>3, <5>1, PoppedMember DEF NoGap, At
        <5>4. QED
          BY <1>2, <3>1, <5>0, <5>1, <5>2, <5>3 DEF Current, Adding, At
      <4>4. CASE r.pc \in {"del", "status", "reconfig", "wait", "map", "finish",
                           "remove", "cleanup", "command", "run", "kept"}
        <5>1. q.base \in {0, r.base} /\ q.pc \notin {"create", "reconfig"}
          <6>1. CASE r.pc \in {"del", "status", "reconfig", "wait"}
            BY <2>4, <3>4, <6>1, After
          <6>2. CASE r.pc \in {"map", "finish"}
            BY <2>4, <3>4, <6>2, After
          <6>3. CASE r.pc \in {"remove", "cleanup"}
            BY <2>4, <3>4, <6>3, After
          <6>4. CASE r.pc \in {"command", "run", "kept"}
            BY <2>4, <3>4, <6>4, After
          <6>5. QED
            BY <4>4, <6>1, <6>2, <6>3, <6>4
        <5>2. QED
          BY <1>2, <3>1, <5>1 DEF Current, Adding, At
      <4>5. QED
        BY <2>4, <3>4, <4>1, <4>2, <4>3, <4>4, After
    <3>5. QED
      BY <1>4, <3>3, <3>4
  <2>5. QED
    BY <2>2, <2>3, <2>4
<1>5. QED
  BY <1>3, <1>4, Actors

-----------------------------------------------------------------------------
(***************************************************************************)
(* A delete removes a server that is not configured any more.              *)
(***************************************************************************)
\* A delete whose reconfig has been taken, or that needs none.
Removing(t) ==
  request[t].op = "del" /\ request[t].pc \in {"wait", "map", "finish", "remove"}

Outside ==
  surprise \cap {"gap", "reconnect", "reused"} = {} =>
    \A t \in Thread :
      /\ Removing(t) => request[t].host \notin Hosts(config)
      /\ At(t, "reconfig") /\ request[t].op = "del" =>
           request[t].host \notin Hosts(request[t].cfg)

LEMMA InitOutside == Init => Outside
BY Bottom DEF Init, Outside, Removing, At

\* A configuration that the primary takes has no host but those it had, and
\* the one that the request adds.
LEMMA Takes ==
  ASSUME TypeInv, Derived, NEW t \in Thread, Applied(t)
  PROVE  /\ request[t].base = version /\ Current(t) /\ config' = request[t].cfg
         /\ request'[t].pc = "wait" /\ request'[t].op = request[t].op
         /\ request'[t].host = request[t].host
         /\ request[t].op \in {"add", "del", "update"} /\ At(t, "reconfig")
         /\ Hosts(config') \subseteq Hosts(config)
              \cup (IF Adding(t) THEN {request[t].host} ELSE {})
<1>1. /\ request[t].base \in Nat /\ version \in Nat
      /\ DOMAIN request = Thread
      /\ {"pc", "op", "host", "cfg", "base"} \subseteq DOMAIN request[t]
      /\ Serves(request[t])
  BY Fields, Numbers DEF TypeInv, ConfigOK, Ready
<1>2. /\ request[t].base + 1 > version /\ request[t].base <= version
      /\ request[t].base = version => Current(t)
  BY DEF Applied, Derived
<1>3. request[t].base = version /\ Current(t)
  BY <1>1, <1>2
<1>4. request[t].op \in {"add", "del", "update"} /\ At(t, "reconfig")
  BY <1>1 DEF Serves, Applied, At
<1>5. /\ request'[t].pc = "wait" /\ request'[t].op = request[t].op
      /\ request'[t].host = request[t].host
  BY <1>1 DEF Applied, Waits
<1>6. config' = request[t].cfg
  BY DEF Applied
<1>7. Hosts(config') \subseteq Hosts(config)
        \cup (IF Adding(t) THEN {request[t].host} ELSE {})
  BY <1>3, <1>4, <1>6 DEF Current, Adding
<1>8. QED
  BY <1>3, <1>4, <1>5, <1>6, <1>7

LEMMA OutsideStep ==
  ASSUME TypeInv, NoGap, OneId, Fresh, Derived, Outside, [Next]_vars
  PROVE  Outside'
<1>1. SUFFICES ASSUME surprise' \cap {"gap", "reconnect", "reused"} = {}, NEW u \in Thread
               PROVE  /\ Removing(u)' => request'[u].host \notin Hosts(config)'
                      /\ At(u, "reconfig")' /\ request'[u].op = "del" =>
                           request'[u].host \notin Hosts(request'[u].cfg)
  BY DEF Outside
<1>2. surprise \cap {"gap", "reconnect", "reused"} = {}
  BY <1>1, SurpriseGrows
<1> DEFINE r == request[u]
           q == request'[u]
<1>3. /\ Removing(u) => r.host \notin Hosts(config)
      /\ At(u, "reconfig") /\ r.op = "del" => r.host \notin Hosts(r.cfg)
      /\ Serves(r) /\ config \in Seq(Member)
  BY <1>2, Fields DEF Outside, TypeInv, ConfigOK, Ready
<1>4. CASE UNCHANGED <<config, request>>
  BY <1>3, <1>4 DEF Removing, At
<1>5. ASSUME NEW t \in Thread \ {u}, Received(t) \/ Step(t)
      PROVE  /\ Removing(u)' => q.host \notin Hosts(config)'
             /\ At(u, "reconfig")' /\ q.op = "del" => q.host \notin Hosts(q.cfg)
  <2>1. q = r
    BY <1>5, OthersStay
  <2>2. CASE UNCHANGED config
    BY <1>3, <2>1, <2>2 DEF Removing, At
  <2>3. CASE Applied(t)
    <3>1. Hosts(config') \subseteq Hosts(config)
            \cup (IF Adding(t) THEN {request[t].host} ELSE {})
      BY <2>3, Takes
    <3>2. Adding(t) => r.host # request[t].host
      BY <1>2, <1>5 DEF Fresh, Unseen
    <3>3. QED
      BY <1>3, <2>1, <3>1, <3>2 DEF Removing, At
  <2>4. QED
    BY <1>5, <2>2, <2>3, ConfigAfter
<1>6. CASE Received(u) \/ (Step(u) /\ q = Idle)
  BY <1>6, Begins, Bottom DEF Removing, At, Operation
<1>7. CASE Step(u) /\ q # Idle
  <2>1. q.op = r.op
    BY <1>7, After
  <2>2. CASE r.pc \in {"add", "create", "del", "update", "cleanup", "command",
                       "run", "kept"}
    <3>1. r.op = "del" => r.pc = "del"
      BY <1>3, <2>2 DEF Serves
    <3>2. r.pc = "del" => q.pc = "status"
      BY <1>7, After
    <3>3. QED
      BY <2>1, <3>1, <3>2 DEF Removing, At
  <2>3. CASE r.pc = "status"
    <3>1. /\ q.host = r.host
          /\ q.pc = "pop" \/ (q.pc = "remove" /\ r.id \notin Ids(config))
      BY <1>7, <2>3, After
    <3>2. UNCHANGED config
      BY <1>7, <2>3, ConfigAfter DEF Applied, At
    <3>3. ASSUME r.id \notin Ids(config)
          PROVE  r.host \notin Hosts(config)
      <4>1. SUFFICES ASSUME NEW m \in MemberId, In(m, r.host, config)
                     PROVE  m = r.id /\ m \in Ids(config)
        BY <1>3, <3>3, InFacts
      <4>2. m \in Ids(config)
        BY <1>3, <4>1, Views DEF In
      <4>3. r.host \in Host /\ r.id \in MemberId
        BY <1>3, <4>1, InFacts, Fields DEF TypeInv
      <4>4. Pair(m, r.host) /\ Pair(r.id, r.host)
        BY <2>3, <4>1 DEF Pair, Deleting
      <4>5. QED
        BY <1>2, <4>2, <4>3, <4>4 DEF OneId
    <3>4. QED
      BY <3>1, <3>2, <3>3 DEF Removing, At
  <2>4. CASE r.pc = "pop"
    <3>1. q.pc = "reconfig" /\ q.host = r.host
      BY <1>7, <2>4, After
    <3>2. r.host \notin Hosts(q.cfg)
      BY <1>2, <1>7, <2>4, PoppedMember DEF NoGap, At
    <3>3. QED
      BY <3>1, <3>2 DEF Removing, At
  <2>5. CASE r.pc = "reconfig"
    <3>1. q.pc = "wait" /\ q.host = r.host /\ (Reconfig(u) \/ ReconfigReconnect(u))
      BY <1>7, <2>5, After
    <3>2. Applied(u)
      BY <1>1, <1>7, <3>1, ConfigAfter
    <3>3. config' = r.cfg
      BY <3>2, Takes
    <3>4. QED
      BY <1>3, <2>1, <2>5, <3>1, <3>3 DEF Removing, At
  <2>6. CASE r.pc \in {"wait", "map", "finish", "remove"}
    <3>1. q.host = r.host
      BY <1>7, <2>6, After
    <3>2. q.pc # "reconfig"
      BY <1>7, <2>6, After
    <3>3. UNCHANGED config
      BY <1>7, <2>6, ConfigAfter DEF Applied, At
    <3>4. r.op = "del" => Removing(u)
      BY <2>6 DEF Removing
    <3>5. QED
      BY <1>3, <2>1, <3>1, <3>2, <3>3, <3>4 DEF Removing, At
  <2>7. QED
    BY <1>7, <2>2, <2>3, <2>4, <2>5, <2>6, After
<1>8. QED
  BY <1>4, <1>5, <1>6, <1>7, Actors

\* What holds whatever has gone wrong: the parts name what they cannot stand.
Core == TypeInv /\ NoGap /\ Solo /\ OneId /\ Fresh /\ Derived /\ Outside

LEMMA InitCore == Init => Core
BY InitTypeInv, InitNoGap, InitSolo, InitOneId, InitFresh, InitDerived,
   InitOutside DEF Core

LEMMA CoreStep == ASSUME Core, [Next]_vars PROVE Core'
BY TypeStep, NoGapStep, SoloStep, OneIdStep, FreshStep, DerivedStep, OutsideStep
   DEF Core

LEMMA CoreHolds == Spec => []Core
BY InitCore, CoreStep, PTL DEF Spec

\* The server that a member delete stops is in no configuration that mongod has,
\* whatever other requests reconfigured between its reconfig and its removal.
\* member_del pops by position: it is the member asked for as long as positions
\* are _ids, and no other request brings its host back, because an add takes a
\* host nobody mentions (else it is a reused port) and mongod refuses a
\* configuration that is not newer.
THEOREM RemovedOutside == Spec => RemovesOutsiders
<1>1. ASSUME Core, NEW t \in Thread, At(t, "remove"),
             surprise \cap {"gap", "reconnect", "reused"} = {}
      PROVE  request[t].host \notin Hosts(config)
  <2>1. request[t].op = "del"
    BY <1>1, Fields DEF Core, TypeInv, Ready, Serves, At
  <2>2. QED
    BY <1>1, <2>1 DEF Core, Outside, Removing, At
<1>2. Core => \A t \in Thread :
                At(t, "remove") /\ request'[t].pc = "store"
                  /\ surprise \cap {"gap", "reconnect", "reused"} = {}
                => request[t].host \notin Hosts(config)
  BY <1>1
<1>3. Core /\ [Next]_vars =>
        [\A t \in Thread :
           At(t, "remove") /\ request'[t].pc = "store"
             /\ surprise \cap {"gap", "reconnect", "reused"} = {}
           => request[t].host \notin Hosts(config)]_vars
  BY <1>2
<1>4. QED
  BY <1>3, CoreHolds, PTL DEF Spec, RemovesOutsiders

-----------------------------------------------------------------------------
(***************************************************************************)
(* The registered servers and the configuration.                           *)
(***************************************************************************)
\* Nothing has gone wrong, but requests may have overlapped.
Usual == surprise \subseteq {"overlap"}

NoCleanup ==
  "restored" \notin surprise /\ stored => \A t \in Thread : ~At(t, "cleanup")

\* A delete will not find its server: it is to raise.
Doomed ==
  \/ \E t \in Thread : Removing(t) /\ request[t].host \notin servers
  \/ \E t, u \in Thread : t # u /\ Removing(t) /\ Removing(u)
                            /\ request[t].host = request[u].host

\* What is registered is configured, or is being added or removed.
Accounted ==
  /\ Hosts(config) \subseteq servers
  /\ \A t \in Thread : Adding(t) => request[t].host \in servers
  /\ \A h \in servers \ Hosts(config) :
       \E t \in Thread : (Adding(t) \/ Removing(t)) /\ request[t].host = h

Balanced == Usual /\ stored => Doomed \/ Accounted

\* What was under way goes on: it raises only with an "abort".
LEMMA Raised ==
  ASSUME TypeInv, NEW t \in Thread, Step(t), request'[t] = Idle, Usual'
  PROVE  /\ ~Removing(t) /\ ~Adding(t) /\ request[t].pc \notin {"wait", "map"}
         /\ UNCHANGED <<config, version>>
         /\ At(t, "cleanup") \/ UNCHANGED <<server_map, servers>>
<1>1. /\ "abort" \notin surprise' /\ Idle.pc = "idle" /\ DOMAIN request = Thread
      /\ DOMAIN request[t] = {"pc", "op", "id", "host", "cfg", "base", "todo",
                              "raises"}
      /\ request[t].pc \in Label
  BY Bottom, Fields DEF Usual, TypeInv
<1>2. \A l : Goto(t, l) => l = "idle"
  BY <1>1 DEF Goto
<1>3. ~Waits(t)
  BY <1>1 DEF Waits
<1>4. request[t].pc \notin {"wait", "finish"}
  <2>1. ~WaitRead(t)
    BY <1>1 DEF WaitRead
  <2>2. ~Finish(t)
    BY <1>2 DEF Finish
  <2>3. ~(NoPrimary(t) /\ request[t].pc \in {"wait", "finish"})
    BY <1>1 DEF NoPrimary, Raise
  <2>4. QED
    BY <2>1, <2>2, <2>3, StepAt DEF At
<1>5. request[t].pc # "map"
  <2>1. ~WaitMap(t)
    <3>1. ~Raise(t, TRUE)
      BY <1>1 DEF Raise
    <3>2. ASSUME NEW next \in {"wait", "finish"},
                 request' = [request EXCEPT ![t].pc = next, ![t].cfg = <<>>]
          PROVE  FALSE
      BY <1>1, <3>2
    <3>3. QED
      BY <3>1, <3>2 DEF WaitMap
  <2>2. QED
    BY <2>1, StepAt DEF At
<1>6. request[t].pc # "remove"
  <2>1. ~Raise(t, TRUE)
    BY <1>1 DEF Raise
  <2>2. ~DelRemove(t)
    BY <1>2, <2>1 DEF DelRemove
  <2>3. QED
    BY <2>2, StepAt DEF At
<1>7. ~Adding(t)
  <2>1. ~(Reconfig(t) \/ ReconfigReconnect(t))
    BY <1>3 DEF Reconfig, ReconfigReconnect
  <2>2. ReconfigRefused(t) => request[t].op # "add"
    BY <1>1 DEF ReconfigRefused, Raise
  <2>3. QED
    BY <2>1, <2>2, StepAt DEF Adding
<1>8. UNCHANGED <<config, version>>
  BY <1>3, ConfigAfter DEF Applied
<1>9. At(t, "cleanup") \/ UNCHANGED <<server_map, servers>>
  <2> USE DEF setVars, localVars
  <2>1. CASE NoPrimary(t) \/ AddCreateFails(t) \/ ReconfigRefused(t) \/ Store(t)
    BY <2>1 DEF NoPrimary, AddCreateFails, ReconfigRefused, Store
  <2>2. CASE AddRead(t) \/ DelLookup(t) \/ DelStatus(t) \/ DelPop(t) \/ Update(t)
    BY <2>2 DEF AddRead, DelLookup, DelStatus, DelPop, Update
  <2>3. CASE \E h \in Host : AddCreate(t, h)
    BY <1>1, <2>3 DEF AddCreate
  <2>4. CASE (\E m \in MemberId : CleanupMember(t, m)) \/ CleanupEnds(t)
    BY <2>4 DEF CleanupMember, CleanupEnds
  <2>5. ~(Reconfig(t) \/ ReconfigReconnect(t))
    BY <1>3 DEF Reconfig, ReconfigReconnect
  <2>6. ~(WaitRead(t) \/ WaitMap(t) \/ Finish(t) \/ DelRemove(t))
    BY <1>4, <1>5, <1>6 DEF WaitRead, WaitMap, Finish, DelRemove, At
  <2>7. CASE Commands(t)
    <3>1. "revived" \notin surprise'
      BY DEF Usual
    <3>2. QED
      BY <2>7, <3>1, CommandFrame
  <2>8. QED
    BY <2>1, <2>2, <2>3, <2>4, <2>5, <2>6, <2>7 DEF Step, Commands
<1>10. QED
  BY <1>4, <1>5, <1>6, <1>7, <1>8, <1>9 DEF Removing

\* Which servers a step registers and removes.
LEMMA ServersAfter ==
  ASSUME NEW t \in Thread, Received(t) \/ Step(t)
  PROVE  \/ servers' = servers
         \/ \E h \in Host : AddCreate(t, h)
         \/ DelRemove(t) /\ servers' = servers \ {request[t].host}
         \/ At(t, "cleanup") /\ \E m \in MemberId : CleanupMember(t, m)
         \/ /\ CommandKept(t) /\ servers' = servers \cup {request[t].host}
            /\ request[t].host \in servers \/ "revived" \in surprise'
<1> USE DEF setVars, localVars
<1>1. CASE Received(t)
  BY <1>1 DEF Received, Receive
<1>2. CASE \/ NoPrimary(t) \/ AddRead(t) \/ AddCreateFails(t) \/ DelLookup(t)
           \/ DelStatus(t) \/ DelPop(t) \/ Update(t) \/ ReconfigRefused(t)
           \/ WaitRead(t) \/ WaitMap(t) \/ Finish(t) \/ Store(t) \/ CleanupEnds(t)
           \/ Reconfig(t) \/ ReconfigReconnect(t)
  BY <1>2 DEF NoPrimary, AddRead, AddCreateFails, DelLookup, DelStatus, DelPop,
     Update, ReconfigRefused, WaitRead, WaitMap, Finish, Store, CleanupEnds,
     Reconfig, ReconfigReconnect
<1>3. CASE DelRemove(t)
  BY <1>3 DEF DelRemove
<1>4. CASE \E m \in MemberId : CleanupMember(t, m)
  BY <1>4 DEF CleanupMember
<1>5. CASE Commands(t)
  BY <1>5, CommandFrame
<1>6. QED
  BY <1>1, <1>2, <1>3, <1>4, <1>5 DEF Step, Commands

\* A command registers nothing that was not, unless it revives a server.
LEMMA KeptUsual ==
  ASSUME NEW t \in Thread, Received(t) \/ Step(t), Usual'
  PROVE  \/ servers' = servers
         \/ \E h \in Host : AddCreate(t, h)
         \/ DelRemove(t) /\ servers' = servers \ {request[t].host}
         \/ At(t, "cleanup") /\ \E m \in MemberId : CleanupMember(t, m)
<1>1. "revived" \notin surprise'
  BY DEF Usual
<1>2. QED
  BY <1>1, ServersAfter

\* A replica set that is stored, and not again, was stored before.
LEMMA StoredBefore ==
  ASSUME [Next]_vars, "restored" \notin surprise', stored', TypeInv
  PROVE  "restored" \notin surprise /\ stored
<1>1. "restored" \notin surprise
  BY SurpriseGrows
<1>2. ASSUME NEW t \in Thread, Received(t) \/ Step(t), stored' # stored
      PROVE  stored
  <2> USE DEF setVars, localVars
  <2>1. Received(t) => stored
    BY DEF Received, Receive
  <2>2. Store(t) => stored
    BY DEF Store
  <2>3. ~ \/ NoPrimary(t) \/ AddCreateFails(t) \/ ReconfigRefused(t)
          \/ AddRead(t) \/ DelLookup(t) \/ DelStatus(t) \/ DelPop(t) \/ Update(t)
    BY <1>2 DEF NoPrimary, AddCreateFails, ReconfigRefused, AddRead, DelLookup,
       DelStatus, DelPop, Update
  <2>4. ~ \/ Reconfig(t) \/ ReconfigReconnect(t) \/ WaitRead(t) \/ WaitMap(t)
          \/ Finish(t) \/ DelRemove(t) \/ CleanupEnds(t)
    BY <1>2 DEF Reconfig, ReconfigReconnect, WaitRead, WaitMap, Finish, DelRemove,
       CleanupEnds
  <2>5. ~ \/ \E h \in Host : AddCreate(t, h)
          \/ \E m \in MemberId : CleanupMember(t, m)
    BY <1>2 DEF AddCreate, CleanupMember
  <2>6. ~Commands(t)
    BY <1>2, CommandFrame
  <2>7. QED
    BY <1>2, <2>1, <2>2, <2>3, <2>4, <2>5, <2>6 DEF Step, Commands
<1>3. stored \in BOOLEAN
  BY DEF TypeInv, LocalOK
<1>4. stored' # stored => stored
  BY <1>2, Actors
<1>5. QED
  BY <1>1, <1>4

LEMMA UsualBefore ==
  ASSUME [Next]_vars, Usual', stored', TypeInv
  PROVE  Usual /\ stored
<1>1. Usual
  BY SurpriseGrows DEF Usual
<1>2. QED
  BY <1>1, StoredBefore DEF Usual

LEMMA InitNoCleanup == Init => NoCleanup
BY Bottom DEF Init, NoCleanup, At

LEMMA NoCleanupStep ==
  ASSUME TypeInv, NoCleanup, [Next]_vars
  PROVE  NoCleanup'
<1>1. SUFFICES ASSUME "restored" \notin surprise', stored', NEW u \in Thread
               PROVE  request'[u].pc # "cleanup"
  BY DEF NoCleanup, At
<1>2. stored /\ \A v \in Thread : request[v].pc # "cleanup"
  BY <1>1, StoredBefore DEF NoCleanup, At
<1>3. ASSUME NEW t \in Thread, Received(t) \/ Step(t)
      PROVE  request'[u].pc # "cleanup"
  <2>1. CASE u # t
    BY <1>2, <1>3, <2>1, OthersStay
  <2>2. CASE u = t /\ Received(t)
    <3>1. PICK op \in Operation, m \in MemberId : Receive(t, op, m)
      BY <2>2 DEF Received
    <3>2. op # "cleanup"
      BY <1>1, <3>1 DEF Receive
    <3>3. DOMAIN request = Thread /\ "pc" \in DOMAIN request[t]
      BY Fields DEF TypeInv
    <3>4. request'[t].pc = op
      BY <3>1, <3>2, <3>3 DEF Receive
    <3>5. QED
      BY <2>2, <3>2, <3>4
  <2>3. CASE u = t /\ Step(t)
    <3>1. CASE request'[t] = Idle
      BY <2>3, <3>1, Bottom
    <3>2. CASE request'[t] # Idle /\ request[t].pc \in {"add", "create", "del",
                                      "status", "pop", "update"}
      BY <2>3, <3>2, After
    <3>3. CASE request'[t] # Idle /\ request[t].pc \in {"reconfig", "wait", "map",
                                      "finish", "remove"}
      BY <2>3, <3>3, After
    <3>4. CASE request'[t] # Idle /\ request[t].pc \in {"command", "run", "kept"}
      BY <2>3, <3>4, After
    <3>5. QED
      BY <1>2, <2>3, <3>1, <3>2, <3>3, <3>4, After
  <2>4. QED
    BY <1>3, <2>1, <2>2, <2>3
<1>4. QED
  BY <1>2, <1>3, Actors

\* A delete goes on removing its server, until it has.
LEMMA RemovingStays ==
  ASSUME TypeInv, NEW u \in Thread, Removing(u), NEW t \in Thread,
         Received(t) \/ Step(t), Usual'
  PROVE  \/ Removing(u)' /\ request'[u].host = request[u].host
         \/ /\ u = t /\ request[t].host \in servers
            /\ servers' = servers \ {request[t].host}
<1>1. CASE u # t
  BY <1>1, OthersStay DEF Removing
<1>2. CASE u = t
  <2>1. ~Received(t)
    BY <1>2, Begins, Bottom DEF Removing
  <2>2. Step(t) /\ request'[t] # Idle
    BY <1>2, <2>1, Raised
  <2>3. request'[t].op = "del" /\ request'[t].host = request[t].host
    BY <1>2, <2>2, After DEF Removing
  <2>4. CASE request[t].pc \in {"wait", "map", "finish"}
    <3>1. request'[t].pc \in {"wait", "map", "finish", "remove"}
      BY <1>2, <2>2, <2>4, After DEF Removing
    <3>2. QED
      BY <1>2, <2>3, <3>1 DEF Removing
  <2>5. CASE request[t].pc = "remove"
    BY <1>2, <2>2, <2>5, After
  <2>6. QED
    BY <1>2, <2>4, <2>5 DEF Removing
<1>3. QED
  BY <1>1, <1>2

LEMMA DoomedStays ==
  ASSUME TypeInv, Doomed, [Next]_vars, Usual'
  PROVE  Doomed'
<1>1. CASE UNCHANGED <<servers, request>>
  BY <1>1 DEF Doomed, Removing
<1>2. ASSUME NEW t \in Thread, Received(t) \/ Step(t), NEW u \in Thread,
             Removing(u), request[u].host \notin servers
      PROVE  Doomed'
  <2>1. Removing(u)' /\ request'[u].host = request[u].host
    BY <1>2, RemovingStays
  <2>2. request[u].host \notin servers'
    <3>1. ASSUME NEW h \in Host, AddCreate(t, h)
          PROVE  request[u].host \notin servers'
      <4>1. request[u].host # h
        BY <3>1, NewHost DEF Usual
      <4>2. QED
        BY <1>2, <3>1, <4>1 DEF AddCreate
    <3>2. ASSUME NEW m \in MemberId, CleanupMember(t, m)
          PROVE  servers' \subseteq servers
      BY <3>2 DEF CleanupMember
    <3>3. QED
      BY <1>2, <3>1, <3>2, KeptUsual
  <2>3. QED
    BY <2>1, <2>2 DEF Doomed
<1>3. ASSUME NEW t \in Thread, Received(t) \/ Step(t), NEW u \in Thread,
             NEW v \in Thread, u # v, Removing(u), Removing(v),
             request[u].host = request[v].host
      PROVE  Doomed'
  <2>1. /\ \/ Removing(u)' /\ request'[u].host = request[u].host
           \/ u = t /\ servers' = servers \ {request[t].host}
        /\ \/ Removing(v)' /\ request'[v].host = request[v].host
           \/ v = t /\ servers' = servers \ {request[t].host}
    BY <1>3, RemovingStays
  <2>2. CASE /\ Removing(u)' /\ request'[u].host = request[u].host
             /\ Removing(v)' /\ request'[v].host = request[v].host
    BY <1>3, <2>2 DEF Doomed
  <2>3. CASE u = t /\ servers' = servers \ {request[t].host}
    <3>1. Removing(v)' /\ request'[v].host = request[v].host
      BY <1>3, <2>1, <2>3
    <3>2. request'[v].host \notin servers'
      BY <1>3, <2>3, <3>1
    <3>3. QED
      BY <3>1, <3>2 DEF Doomed
  <2>4. CASE v = t /\ servers' = servers \ {request[t].host}
    <3>1. Removing(u)' /\ request'[u].host = request[u].host
      BY <1>3, <2>1, <2>4
    <3>2. request'[u].host \notin servers'
      BY <1>3, <2>4, <3>1
    <3>3. QED
      BY <3>1, <3>2 DEF Doomed
  <2>5. QED
    BY <2>1, <2>2, <2>3, <2>4
<1>4. ASSUME NEW t \in Thread, Received(t) \/ Step(t)
      PROVE  Doomed'
  BY <1>2, <1>3, <1>4 DEF Doomed
<1>5. QED
  BY <1>1, <1>4, Actors

LEMMA InitBalanced == Init => Balanced
<1> SUFFICES ASSUME Init
             PROVE  Accounted
  BY DEF Balanced
<1>1. \A t \in Thread : request[t].pc = "idle"
  BY Bottom DEF Init
<1>2. servers = Hosts(config)
  BY DEF Init
<1>3. QED
  BY <1>1, <1>2 DEF Accounted, Adding, At

\* A request that goes on as it was leaves the servers accounted for.
LEMMA SameAccount ==
  ASSUME TypeInv, Accounted, NEW t \in Thread, Received(t) \/ Step(t),
         UNCHANGED <<config, servers>>,
         Adding(t) \/ Removing(t) =>
           Removing(t)' /\ request'[t].host = request[t].host,
         ~Adding(t)'
  PROVE  Accounted'
<1>1. \A v \in Thread \ {t} : /\ request'[v] = request[v]
                              /\ Adding(v)' = Adding(v)
                              /\ Removing(v)' = Removing(v)
  BY OthersStay DEF Adding, Removing, At
<1>2. Hosts(config') \subseteq servers'
  BY DEF Accounted
<1>3. ASSUME NEW v \in Thread, Adding(v)'
      PROVE  request'[v].host \in servers'
  BY <1>1, <1>3 DEF Accounted
<1>4. ASSUME NEW h \in servers' \ Hosts(config')
      PROVE  \E v \in Thread : (Adding(v)' \/ Removing(v)') /\ request'[v].host = h
  <2>1. PICK v \in Thread : (Adding(v) \/ Removing(v)) /\ request[v].host = h
    BY <1>4 DEF Accounted
  <2>2. (Adding(v)' \/ Removing(v)') /\ request'[v].host = h
    BY <1>1, <2>1
  <2>3. QED
    BY <2>2
<1>5. QED
  BY <1>2, <1>3, <1>4 DEF Accounted

\* The reconfig of a request is taken.
LEMMA AppliedAccount ==
  ASSUME Core, Accounted, NEW t \in Thread, Applied(t), Step(t), Usual, Usual'
  PROVE  Doomed' \/ Accounted'
<1> DEFINE r == request[t]
           q == request'[t]
<1>1. /\ Current(t) /\ config' = r.cfg /\ q.pc = "wait" /\ q.op = r.op
      /\ q.host = r.host /\ r.op \in {"add", "del", "update"} /\ At(t, "reconfig")
  BY Takes DEF Core
<1>2. \A v \in Thread \ {t} : /\ request'[v] = request[v]
                              /\ Adding(v)' = Adding(v)
                              /\ Removing(v)' = Removing(v)
  BY OthersStay DEF Adding, Removing, At, Core
<1>3. servers' = servers /\ ~Removing(t) /\ ~Adding(t)'
  BY <1>1 DEF Applied, Removing, At, Adding
<1>4. \A v \in Thread \ {t} : Adding(v) => request[t].host # request[v].host
  BY DEF Core, Fresh, Unseen, Usual
<1>5. \A v \in Thread : Adding(v)' => request'[v].host \in servers'
  BY <1>2, <1>3 DEF Accounted
<1>6. CASE r.op = "add"
  <2>1. Hosts(config') = Hosts(config) \cup {r.host} /\ r.host \in servers
    BY <1>1, <1>6 DEF Current, Adding, Accounted
  <2>2. Hosts(config') \subseteq servers'
    BY <1>3, <2>1 DEF Accounted
  <2>3. ASSUME NEW h \in servers' \ Hosts(config')
        PROVE  \E v \in Thread : (Adding(v)' \/ Removing(v)') /\ request'[v].host = h
    <3>1. h \in servers \ Hosts(config) /\ h # r.host
      BY <1>3, <2>1, <2>3
    <3>2. PICK v \in Thread : (Adding(v) \/ Removing(v)) /\ request[v].host = h
      BY <3>1 DEF Accounted
    <3>3. v # t
      BY <3>1, <3>2
    <3>4. QED
      BY <1>2, <3>2, <3>3
  <2>4. QED
    BY <1>5, <2>2, <2>3 DEF Accounted
<1>7. CASE r.op = "update"
  <2>1. config' = config /\ ~Adding(t)
    BY <1>1, <1>7 DEF Current, Adding
  <2>2. QED
    BY <1>3, <2>1, SameAccount DEF Core
<1>8. CASE r.op = "del"
  <2>1. surprise \cap {"gap", "reused"} = {}
    BY DEF Usual
  <2>2. /\ Hosts(config') \subseteq Hosts(config) /\ ~Adding(t)
        /\ \/ r.host \notin Hosts(config)
           \/ Hosts(config) = Hosts(config') \cup {r.host}
    BY <1>1, <1>8, <2>1 DEF Current, Adding
  <2>3. Removing(t)'
    BY <1>1, <1>8 DEF Removing
  <2>4. CASE r.host \notin Hosts(config)
    <3>1. CASE r.host \notin servers
      BY <1>1, <1>3, <2>3, <3>1 DEF Doomed
    <3>2. CASE r.host \in servers
      <4>1. PICK v \in Thread : (Adding(v) \/ Removing(v)) /\ request[v].host = r.host
        BY <2>4, <3>2 DEF Accounted
      <4>2. v # t
        BY <1>3, <2>2, <4>1
      <4>3. Removing(v)' /\ request'[v].host = q.host
        BY <1>1, <1>2, <1>4, <4>1, <4>2
      <4>4. QED
        BY <2>3, <4>2, <4>3 DEF Doomed
    <3>3. QED
      BY <3>1, <3>2
  <2>5. CASE Hosts(config) = Hosts(config') \cup {r.host}
    <3>1. Hosts(config') \subseteq servers'
      BY <1>3, <2>2 DEF Accounted
    <3>2. ASSUME NEW h \in servers' \ Hosts(config')
          PROVE  \E v \in Thread : (Adding(v)' \/ Removing(v)') /\ request'[v].host = h
      <4>1. CASE h = r.host
        BY <1>1, <2>3, <4>1
      <4>2. CASE h # r.host
        <5>1. h \in servers \ Hosts(config)
          BY <1>3, <2>5, <3>2, <4>2
        <5>2. PICK v \in Thread : (Adding(v) \/ Removing(v)) /\ request[v].host = h
          BY <5>1 DEF Accounted
        <5>3. v # t
          BY <4>2, <5>2
        <5>4. QED
          BY <1>2, <5>2, <5>3
      <4>3. QED
        BY <4>1, <4>2
    <3>3. QED
      BY <1>5, <3>1, <3>2 DEF Accounted
  <2>6. QED
    BY <2>2, <2>4, <2>5
<1>9. QED
  BY <1>1, <1>6, <1>7, <1>8

\* A new server is registered for a member that is being added.
LEMMA CreatedAccount ==
  ASSUME TypeInv, Accounted, NEW t \in Thread, NEW h \in Host, AddCreate(t, h)
  PROVE  Accounted'
<1>1. /\ request[t].pc = "create" /\ servers' = servers \cup {h} /\ config' = config
      /\ Step(t)
  BY DEF AddCreate, At, setVars, Step
<1>2. \A v \in Thread \ {t} : /\ request'[v] = request[v]
                              /\ Adding(v)' = Adding(v)
                              /\ Removing(v)' = Removing(v)
  BY <1>1, OthersStay DEF Adding, Removing, At
<1>3. request'[t].pc = "reconfig" /\ request'[t].host = h /\ request'[t].op = "add"
  <2>1. /\ DOMAIN request = Thread /\ Serves(request[t])
        /\ DOMAIN request[t] = {"pc", "op", "id", "host", "cfg", "base", "todo",
                                "raises"}
    BY Fields DEF TypeInv, Ready
  <2>2. request[t].op = "add"
    BY <1>1, <2>1 DEF Serves
  <2>3. QED
    BY <2>1, <2>2 DEF AddCreate
<1>4. Adding(t)'
  BY <1>3 DEF Adding, At
<1>5. \A v \in Thread : Adding(v)' => request'[v].host \in servers'
  BY <1>1, <1>2, <1>3 DEF Accounted
<1>6. ASSUME NEW g \in servers' \ Hosts(config')
      PROVE  \E v \in Thread : (Adding(v)' \/ Removing(v)') /\ request'[v].host = g
  <2>1. CASE g = h
    BY <1>3, <1>4, <2>1
  <2>2. CASE g # h
    <3>1. PICK v \in Thread : (Adding(v) \/ Removing(v)) /\ request[v].host = g
      BY <1>1, <1>6, <2>2 DEF Accounted
    <3>2. v # t
      BY <1>1, <3>1 DEF Adding, Removing, At
    <3>3. QED
      BY <1>2, <3>1, <3>2
  <2>3. QED
    BY <2>1, <2>2
<1>7. Hosts(config') \subseteq servers'
  BY <1>1 DEF Accounted
<1>8. QED
  BY <1>5, <1>6, <1>7 DEF Accounted

\* A delete removes the server it has removed from the configuration.
LEMMA RemovedAccount ==
  ASSUME Core, Accounted, NEW t \in Thread, Step(t), Removing(t), Usual,
         servers' = servers \ {request[t].host}, UNCHANGED config, ~Adding(t)'
  PROVE  Accounted'
<1>1. \A v \in Thread \ {t} : /\ request'[v] = request[v]
                              /\ Adding(v)' = Adding(v)
                              /\ Removing(v)' = Removing(v)
  BY OthersStay DEF Adding, Removing, At, Core
<1>2. request[t].host \notin Hosts(config)
  BY DEF Core, Outside, Usual
<1>3. Hosts(config') \subseteq servers'
  BY <1>2 DEF Accounted
<1>4. \A v \in Thread \ {t} : Adding(v) => request[t].host # request[v].host
  BY DEF Core, Fresh, Unseen, Usual
<1>5. \A v \in Thread : Adding(v)' => request'[v].host \in servers'
  BY <1>1, <1>4 DEF Accounted
<1>6. ASSUME NEW h \in servers' \ Hosts(config')
      PROVE  \E v \in Thread : (Adding(v)' \/ Removing(v)') /\ request'[v].host = h
  <2>1. PICK v \in Thread : (Adding(v) \/ Removing(v)) /\ request[v].host = h
    BY <1>6 DEF Accounted
  <2>2. v # t
    BY <1>6, <2>1
  <2>3. QED
    BY <1>1, <2>1, <2>2
<1>7. QED
  BY <1>3, <1>5, <1>6 DEF Accounted

LEMMA AccountedStays ==
  ASSUME Core, NoCleanup, Accounted, [Next]_vars, Usual', stored'
  PROVE  Doomed' \/ Accounted'
<1>1. Usual /\ stored /\ TypeInv /\ \A t \in Thread : ~At(t, "cleanup")
  BY UsualBefore DEF NoCleanup, Core, Usual
<1>2. CASE UNCHANGED <<config, servers, request>>
  <2>1. /\ config' = config /\ servers' = servers /\ request' = request
    BY <1>2
  <2>2. QED
    BY <2>1 DEF Accounted, Adding, Removing, At
<1>3. ASSUME NEW t \in Thread, Received(t) \/ Step(t)
      PROVE  Doomed' \/ Accounted'
  <2>1. CASE \E h \in Host : AddCreate(t, h)
    BY <1>1, <2>1, CreatedAccount
  <2>2. CASE Applied(t)
    <3>1. Step(t)
      BY <1>1, <1>3, <2>2, Begins, Bottom DEF Applied, At
    <3>2. QED
      BY <1>1, <2>2, <3>1, AppliedAccount
  <2>3. CASE ~Applied(t) /\ ~\E h \in Host : AddCreate(t, h)
    <3>1. UNCHANGED config /\ ~(Reconfig(t) \/ ReconfigReconnect(t))
      BY <1>3, <2>3, ConfigAfter DEF Usual
    <3>2. ~Adding(t)'
      BY <1>1, <1>3, <2>3, AddingStarts
    <3>3. Adding(t) => request'[t] # Idle /\ Step(t)
      BY <1>1, <1>3, Begins, Bottom, Raised DEF Adding, At
    <3>4. ~Adding(t)
      BY <1>1, <3>1, <3>3, After DEF Adding, At
    <3>5. CASE Removing(t)
      <4>1. Step(t)
        BY <1>1, <1>3, <3>5, Begins, Bottom DEF Removing
      <4>2. CASE Removing(t)' /\ request'[t].host = request[t].host
        <5>1. ~DelRemove(t)
          <6>1. SUFFICES ASSUME DelRemove(t)
                         PROVE  ~Removing(t)'
            BY <4>2
          <6>2. request[t].pc = "remove"
            BY <6>1 DEF DelRemove, At
          <6>3. request'[t] # Idle => request'[t].pc = "store"
            BY <1>1, <4>1, <6>2, After
          <6>4. QED
            BY <6>3, Bottom DEF Removing
        <5>2. servers' = servers
          BY <1>1, <1>3, <2>3, <5>1, KeptUsual
        <5>3. QED
          BY <1>1, <1>3, <3>1, <3>2, <4>2, <5>2, SameAccount
      <4>3. CASE servers' = servers \ {request[t].host}
        BY <1>1, <3>1, <3>2, <3>5, <4>1, <4>3, RemovedAccount
      <4>4. QED
        BY <1>1, <1>3, <3>5, <4>2, <4>3, RemovingStays
    <3>6. CASE ~Removing(t)
      <4>1. ~DelRemove(t)
        BY <1>1, <3>6, Fields DEF TypeInv, Ready, Serves, DelRemove, At, Removing
      <4>2. servers' = servers
        BY <1>1, <1>3, <2>3, <4>1, KeptUsual
      <4>3. QED
        BY <1>1, <1>3, <3>1, <3>2, <3>4, <3>6, <4>2, SameAccount
    <3>7. QED
      BY <3>5, <3>6
  <2>4. QED
    BY <2>1, <2>2, <2>3
<1>4. QED
  BY <1>2, <1>3, Actors

LEMMA BalancedStep ==
  ASSUME Core, NoCleanup, Balanced, [Next]_vars
  PROVE  Balanced'
<1>1. SUFFICES ASSUME Usual', stored'
               PROVE  Doomed' \/ Accounted'
  BY DEF Balanced
<1>2. Doomed \/ Accounted
  BY <1>1, UsualBefore DEF Balanced, Core
<1>3. QED
  BY <1>1, <1>2, DoomedStays, AccountedStays DEF Core

-----------------------------------------------------------------------------
(***************************************************************************)
(* server_map, and the DELETE of the replica set.                          *)
(***************************************************************************)
Mapped ==
  surprise = {} /\ stored =>
    /\ \A t \in Thread : At(t, "map") => request[t].cfg = config
    /\ (\A t \in Thread : request[t].pc \notin {"wait", "map"}) =>
         server_map = ServerMap(config)

\* Every registered server is one that a cleanup has yet to remove.
ToClean(t, h) == At(t, "cleanup") /\ \E m \in request[t].todo : Lookup(m, h)

Cleaned ==
  surprise = {} /\ ~stored =>
    /\ \A t \in Thread : request[t].pc \in {"idle", "cleanup"}
    /\ \A h \in servers : \E t \in Thread : ToClean(t, h)

LEMMA InitMapped == Init => Mapped
BY Bottom DEF Init, Mapped, At

LEMMA InitCleaned == Init => Cleaned
BY DEF Init, Cleaned

\* A step changes server_map where repl_update and the cleanup do.
LEMMA MapAfter ==
  ASSUME NEW t \in Thread, Received(t) \/ Step(t)
  PROVE  \/ server_map' = server_map
         \/ (Reconfig(t) \/ ReconfigReconnect(t)) /\ Waits(t)
         \/ At(t, "map") /\ server_map' = ServerMap(request[t].cfg)
         \/ At(t, "cleanup")
<1> USE DEF setVars, localVars
<1>1. CASE Received(t)
  BY <1>1 DEF Received, Receive
<1>2. CASE \/ NoPrimary(t) \/ AddRead(t) \/ AddCreateFails(t) \/ DelLookup(t)
           \/ DelStatus(t) \/ DelPop(t) \/ Update(t) \/ ReconfigRefused(t)
           \/ WaitRead(t) \/ Finish(t) \/ Store(t) \/ DelRemove(t)
           \/ \E h \in Host : AddCreate(t, h)
  BY <1>2 DEF NoPrimary, AddRead, AddCreateFails, DelLookup, DelStatus, DelPop,
     Update, ReconfigRefused, WaitRead, Finish, Store, DelRemove, AddCreate
<1>3. CASE Reconfig(t) \/ ReconfigReconnect(t)
  BY <1>3 DEF Reconfig, ReconfigReconnect
<1>4. CASE WaitMap(t)
  BY <1>4 DEF WaitMap
<1>5. CASE CleanupEnds(t) \/ \E m \in MemberId : CleanupMember(t, m)
  BY <1>5 DEF CleanupEnds, CleanupMember
<1>6. CASE Commands(t)
  BY <1>6, CommandFrame
<1>7. QED
  BY <1>1, <1>2, <1>3, <1>4, <1>5, <1>6 DEF Step, Commands

LEMMA MappedStep ==
  ASSUME Core, NoCleanup, Mapped, [Next]_vars
  PROVE  Mapped'
<1>1. SUFFICES ASSUME surprise' = {}, stored'
               PROVE  /\ \A u \in Thread : request'[u].pc = "map" =>
                           request'[u].cfg = config'
                      /\ (\A u \in Thread : request'[u].pc \notin {"wait", "map"}) =>
                           server_map' = ServerMap(config')
  BY DEF Mapped, At
<1>2. surprise = {} /\ Usual /\ Usual' /\ stored /\ TypeInv
  BY <1>1, SurpriseGrows, UsualBefore DEF Usual, Core
<1>3. /\ \A u \in Thread : request[u].pc = "map" => request[u].cfg = config
      /\ (\A u \in Thread : request[u].pc \notin {"wait", "map"}) =>
           server_map = ServerMap(config)
      /\ \A u \in Thread : request[u].pc # "cleanup"
  BY <1>2 DEF Mapped, NoCleanup, At
<1>4. CASE UNCHANGED <<config, server_map, request>>
  <2>1. config' = config /\ server_map' = server_map /\ request' = request
    BY <1>4
  <2>2. QED
    BY <1>3, <2>1
<1>5. ASSUME NEW t \in Thread, Received(t) \/ Step(t)
      PROVE  /\ \A u \in Thread : request'[u].pc = "map" =>
                  request'[u].cfg = config'
             /\ (\A u \in Thread : request'[u].pc \notin {"wait", "map"}) =>
                  server_map' = ServerMap(config')
  <2>1. \A v \in Thread \ {t} : /\ request'[v] = request[v]
                                /\ request[v].pc = "idle"
    <3>1. \A v \in Thread \ {t} : request'[v] = request[v]
      BY <1>2, <1>5, OthersStay
    <3>2. CASE Step(t)
      <4>1. request[t].pc # "idle"
        BY <3>2, Moving
      <4>2. "overlap" \notin surprise
        BY <1>2
      <4>3. QED
        BY <3>1, <4>1, <4>2 DEF Core, Solo, At
    <3>3. CASE Received(t)
      <4>1. Quiet
        BY <1>1, <3>3 DEF Received, Receive
      <4>2. QED
        BY <3>1, <4>1 DEF Quiet
    <3>4. QED
      BY <1>5, <3>2, <3>3
  <2>2. "reconnect" \notin surprise'
    BY <1>1
  <2>3. CASE request[t].pc = "reconfig"
    <3>1. ~Received(t)
      BY <1>2, <2>3, Begins, Bottom
    <3>2. CASE request'[t] = Idle
      <4>1. config' = config /\ server_map' = server_map
        BY <1>2, <1>5, <2>3, <3>1, <3>2, Raised DEF At
      <4>2. \A u \in Thread : request[u].pc \notin {"wait", "map"}
        BY <2>1, <2>3
      <4>3. \A u \in Thread : request'[u].pc # "map"
        BY <2>1, <3>2, Bottom
      <4>4. QED
        BY <1>3, <4>1, <4>2, <4>3
    <3>3. CASE request'[t] # Idle
      <4>1. request'[t].pc = "wait"
        BY <1>2, <1>5, <2>3, <3>1, <3>3, After
      <4>2. QED
        BY <2>1, <4>1
    <3>4. QED
      BY <3>2, <3>3
  <2>4. CASE request[t].pc # "reconfig"
    <3>1. config' = config
      BY <1>5, <2>4, ConfigAfter DEF Applied, At
    <3>2. CASE request[t].pc \in {"wait", "map"}
      <4>1. Step(t) /\ request'[t] # Idle
        BY <1>2, <1>5, <3>2, Begins, Bottom, Raised
      <4>2. CASE request[t].pc = "wait"
        <5>1. request'[t].pc = "map" /\ request'[t].cfg = config
          BY <1>2, <4>1, <4>2, After
        <5>2. QED
          BY <2>1, <3>1, <5>1
      <4>3. CASE request[t].pc = "map"
        <5>1. request'[t].pc \in {"wait", "finish"}
          BY <1>2, <4>1, <4>3, After
        <5>2. server_map' = ServerMap(request[t].cfg)
          BY <4>1, <4>3, StepAt DEF WaitMap, At
        <5>3. request[t].cfg = config
          BY <1>3, <4>3
        <5>4. QED
          BY <2>1, <3>1, <5>1, <5>2, <5>3
      <4>4. QED
        BY <3>2, <4>2, <4>3
    <3>3. CASE request[t].pc \notin {"wait", "map"}
      <4>1. server_map' = server_map
        <5>1. ~(Reconfig(t) \/ ReconfigReconnect(t))
          BY <2>4 DEF Reconfig, ReconfigReconnect, At
        <5>2. ~At(t, "map") /\ ~At(t, "cleanup")
          BY <1>3, <3>3 DEF At
        <5>3. QED
          BY <1>5, <5>1, <5>2, MapAfter
      <4>2. \A u \in Thread : request[u].pc \notin {"wait", "map"}
        BY <2>1, <3>3
      <4>3. request'[t].pc # "map"
        <5>1. CASE Received(t)
          BY <1>2, <5>1, Begins DEF Operation
        <5>2. CASE request'[t] = Idle
          BY <5>2, Bottom
        <5>3. CASE Step(t) /\ request'[t] # Idle
          <6>1. CASE request[t].pc \in {"add", "create", "del", "status", "pop"}
            BY <1>2, <5>3, <6>1, After
          <6>2. CASE request[t].pc \in {"update", "finish", "remove", "cleanup"}
            BY <1>2, <5>3, <6>2, After
          <6>3. CASE request[t].pc \in {"command", "run", "kept"}
            BY <1>2, <5>3, <6>3, After
          <6>4. QED
            BY <1>2, <2>4, <3>3, <5>3, <6>1, <6>2, <6>3, After
        <5>4. QED
          BY <1>5, <5>1, <5>2, <5>3
      <4>4. QED
        BY <1>3, <2>1, <3>1, <4>1, <4>2, <4>3
    <3>4. QED
      BY <3>2, <3>3
  <2>5. QED
    BY <2>3, <2>4
<1>6. QED
  BY <1>4, <1>5, Actors

\* Between requests nothing is under way.
LEMMA QuietState ==
  ASSUME Balanced, Mapped, Quiet, stored, Usual
  PROVE  /\ Hosts(config) = servers
         /\ surprise = {} => server_map = ServerMap(config)
<1>1. \A t \in Thread : ~Adding(t) /\ ~Removing(t)
  BY DEF Quiet, Adding, Removing, At
<1>2. ~Doomed
  BY <1>1 DEF Doomed
<1>3. Accounted
  BY <1>2 DEF Balanced
<1>4. Hosts(config) = servers
  BY <1>1, <1>3 DEF Accounted
<1>5. surprise = {} => server_map = ServerMap(config)
  BY DEF Mapped, Quiet
<1>6. QED
  BY <1>4, <1>5

\* The DELETE of a quiet replica set has every server of it to remove.
LEMMA CleanupBegins ==
  ASSUME Core, Balanced, Mapped, Usual, surprise = {}, NEW t \in Thread, Quiet,
         NEW op \in Operation, NEW n \in MemberId,
         Receive(t, op, n), ~stored'
  PROVE  /\ \A u \in Thread : request'[u].pc \in {"idle", "cleanup"}
         /\ \A h \in servers' : \E u \in Thread : ToClean(u, h)'
<1>1. stored /\ op = "cleanup" /\ servers' = servers /\ server_map' = server_map
  BY DEF Receive
<1>2. request'[t].pc = "cleanup" /\ request'[t].todo = DOMAIN server_map
  <2>1. /\ DOMAIN request = Thread
        /\ DOMAIN request[t] = {"pc", "op", "id", "host", "cfg", "base", "todo",
                                "raises"}
    BY Fields DEF Core, TypeInv
  <2>2. QED
    BY <1>1, <2>1 DEF Receive
<1>3. Hosts(config) = servers /\ server_map = ServerMap(config)
  BY <1>1, QuietState
<1>4. config \in Seq(Member) /\ Sorted(config)
  BY DEF Core, TypeInv, ConfigOK
<1>5. ASSUME NEW h \in servers
      PROVE  \E m \in DOMAIN server_map : server_map[m] = h
  <2>1. PICK k \in 1..Len(config) : config[k].host = h
    BY <1>3, <1>4, Views
  <2>2. config[k]._id \in Ids(config)
    BY <1>4, Views
  <2>3. config[k]._id \in DOMAIN server_map /\ server_map[config[k]._id] = h
    BY <1>3, <1>4, <2>1, <2>2, Mapping
  <2>4. QED
    BY <2>3
<1>6. Received(t)
  BY DEF Received
<1>7. \A u \in Thread \ {t} : request'[u].pc = "idle"
  BY <1>6, OthersStay DEF Quiet, Core
<1>8. ASSUME NEW h \in servers'
      PROVE  ToClean(t, h)'
  <2>1. PICK m \in DOMAIN server_map : server_map[m] = h
    BY <1>1, <1>5
  <2>2. m \in request'[t].todo /\ Lookup(m, h)'
    BY <1>1, <1>2, <2>1 DEF Lookup
  <2>3. QED
    BY <1>2, <2>2 DEF ToClean, At
<1>9. QED
  BY <1>2, <1>7, <1>8

LEMMA CleanedStep ==
  ASSUME Core, Balanced, Mapped, Cleaned, [Next]_vars
  PROVE  Cleaned'
<1> DEFINE Goal == /\ \A u \in Thread : request'[u].pc \in {"idle", "cleanup"}
                   /\ \A h \in servers' : \E u \in Thread : ToClean(u, h)'
<1>1. SUFFICES ASSUME surprise' = {}, ~stored'
               PROVE  Goal
  BY DEF Cleaned
<1>2. surprise = {} /\ Usual /\ TypeInv
  BY <1>1, SurpriseGrows DEF Usual, Core
<1>3. ~stored => /\ \A u \in Thread : request[u].pc \in {"idle", "cleanup"}
                 /\ \A h \in servers : \E u \in Thread : ToClean(u, h)
  BY <1>2 DEF Cleaned
<1>4. CASE UNCHANGED <<server_map, servers, stored, request>>
  <2>1. /\ server_map' = server_map /\ servers' = servers /\ stored' = stored
        /\ request' = request
    BY <1>4
  <2>2. QED
    BY <1>1, <1>3, <2>1 DEF ToClean, At, Lookup
<1>5. ASSUME NEW t \in Thread, Received(t)
      PROVE  Goal
  <2>1. PICK op \in Operation, n \in MemberId : Receive(t, op, n)
    BY <1>5 DEF Received
  <2>2. Quiet
    BY <1>1, <2>1 DEF Receive
  <2>3. QED
    BY <1>1, <1>2, <2>1, <2>2, CleanupBegins
<1>6. ASSUME NEW t \in Thread, Step(t)
      PROVE  Goal
  <2>1. ~stored
    <3> USE DEF setVars, localVars
    <3>1. ~Store(t)
      BY <1>1 DEF Store
    <3>2. CASE \/ NoPrimary(t) \/ AddCreateFails(t) \/ ReconfigRefused(t)
               \/ AddRead(t) \/ DelLookup(t) \/ DelStatus(t) \/ DelPop(t) \/ Update(t)
      BY <1>1, <3>2 DEF NoPrimary, AddCreateFails, ReconfigRefused, AddRead,
         DelLookup, DelStatus, DelPop, Update
    <3>3. CASE \/ Reconfig(t) \/ ReconfigReconnect(t) \/ WaitRead(t) \/ WaitMap(t)
               \/ Finish(t) \/ DelRemove(t) \/ CleanupEnds(t)
      BY <1>1, <3>3 DEF Reconfig, ReconfigReconnect, WaitRead, WaitMap, Finish,
         DelRemove, CleanupEnds
    <3>4. CASE \/ \E h \in Host : AddCreate(t, h)
               \/ \E m \in MemberId : CleanupMember(t, m)
      BY <1>1, <3>4 DEF AddCreate, CleanupMember
    <3>5. CASE Commands(t)
      BY <1>1, <3>5, CommandFrame
    <3>6. QED
      BY <1>6, <3>1, <3>2, <3>3, <3>4, <3>5 DEF Step, Commands
  <2>2. request[t].pc = "cleanup"
    BY <1>3, <1>6, <2>1, Moving
  <2>3. \A u \in Thread \ {t} : request'[u] = request[u]
    BY <1>2, <1>6, OthersStay
  <2>4. \A u \in Thread \ {t} : request'[u].pc = "idle"
    <3>1. "overlap" \notin surprise
      BY <1>2
    <3>2. QED
      BY <2>2, <2>3, <3>1 DEF Core, Solo, At
  <2>5. \A h \in servers : \E m \in request[t].todo : Lookup(m, h)
    <3>1. \A u \in Thread \ {t} : \A h : ~ToClean(u, h)
      BY <2>3, <2>4 DEF ToClean, At
    <3>2. QED
      BY <1>3, <2>1, <3>1 DEF ToClean
  <2>6. /\ DOMAIN request = Thread
        /\ DOMAIN request[t] = {"pc", "op", "id", "host", "cfg", "base", "todo",
                                "raises"}
    BY <1>2, Fields DEF TypeInv
  <2>7. CASE CleanupEnds(t)
    <3>1. ~Raise(t, TRUE)
      BY <1>1 DEF Raise
    <3>2. request[t].todo = {} /\ Reply(t) /\ servers' = servers
      BY <2>7, <3>1 DEF CleanupEnds, localVars
    <3>3. servers' = {} /\ request'[t].pc = "idle"
      BY <2>5, <2>6, <3>2, Bottom DEF Reply
    <3>4. QED
      BY <2>4, <3>3
  <2>8. ASSUME NEW n \in MemberId, CleanupMember(t, n)
        PROVE  Goal
    <3> DEFINE known == n \in DOMAIN server_map /\ server_map[n] \in servers
               gone  == IF known THEN {server_map[n]} ELSE {}
    <3>1. /\ servers' = servers \ gone /\ server_map' = server_map
          /\ request'[t].pc = "cleanup" /\ request'[t].todo = request[t].todo \ {n}
      BY <2>2, <2>6, <2>8 DEF CleanupMember
    <3>2. ASSUME NEW h \in servers'
          PROVE  ToClean(t, h)'
      <4>1. h \in servers /\ h \notin gone
        BY <3>1, <3>2
      <4>2. PICK m \in request[t].todo : Lookup(m, h)
        BY <2>5, <4>1
      <4>3. m # n
        BY <4>1, <4>2 DEF Lookup
      <4>4. m \in request'[t].todo /\ Lookup(m, h)'
        BY <3>1, <4>2, <4>3 DEF Lookup
      <4>5. QED
        BY <3>1, <4>4 DEF ToClean, At
    <3>3. QED
      BY <2>4, <3>1, <3>2
  <2>9. QED
    BY <1>6, <2>2, <2>7, <2>8, StepAt DEF At
<1>7. QED
  BY <1>4, <1>5, <1>6, Actors

-----------------------------------------------------------------------------
(***************************************************************************)
(* The inductive invariant, and what it says between requests.             *)
(***************************************************************************)
Inv == Core /\ NoCleanup /\ Balanced /\ Mapped /\ Cleaned

LEMMA InitInv == Init => Inv
BY InitCore, InitNoCleanup, InitBalanced, InitMapped, InitCleaned DEF Inv

LEMMA InvStep == ASSUME Inv, [Next]_vars PROVE Inv'
<1>1. TypeInv
  BY DEF Inv, Core
<1>2. QED
  BY <1>1, CoreStep, NoCleanupStep, BalancedStep, MappedStep, CleanedStep DEF Inv

LEMMA InvHolds == Spec => []Inv
BY InitInv, InvStep, PTL DEF Spec

\* Between requests the members that mongod has are the servers that are
\* registered, whatever requests overlapped, whatever members crashed or were
\* commanded, and whichever reconfigs of deletes and updates were refused, and
\* server_map is the map of the configuration if no two requests overlapped.
\* The premise: no request has raised between two of its changes (so no add
\* was refused, and no primary lost while a request waited), and there was no
\* gap, no lost connection, and no set or server that came back.
THEOREM MembersConsistent == Spec => []Consistent
<1>1. Inv => Consistent
  BY QuietState DEF Inv, Usual, Consistent
<1>2. QED
  BY <1>1, InvHolds, PTL

\* A DELETE of the replica set that nothing overlaps and nothing goes wrong
\* before leaves no server of it registered: what server_map lists when the
\* cleanup begins is every server there is.
THEOREM CleanupRemovesAll == Spec => []CleanupComplete
<1>1. Inv => CleanupComplete
  <2>1. SUFFICES ASSUME Cleaned, Quiet, ~stored, surprise = {}
                 PROVE  servers = {}
    BY DEF Inv, CleanupComplete
  <2>2. \A t \in Thread : \A h : ~ToClean(t, h)
    BY <2>1 DEF Quiet, ToClean, At
  <2>3. QED
    BY <2>1, <2>2 DEF Cleaned
<1>2. QED
  BY <1>1, InvHolds, PTL

-----------------------------------------------------------------------------
(***************************************************************************)
(* The implementation of MemberLife.                                       *)
(*                                                                         *)
(* Every step is one of MemberLife or leaves what it speaks of alone: a    *)
(* reconfiguration that mongod takes is made from the configuration it     *)
(* replaces (Derived), the host that it adds is new (Fresh) and has a      *)
(* registered server (AddServed), and what is removed is no member         *)
(* (Outside), or the replica set has been deleted (NoCleanup).             *)
(***************************************************************************)
AddServed ==
  "reused" \notin surprise =>
    \A t \in Thread : Adding(t) => request[t].host \in servers

LEMMA InitAddServed == Init => AddServed
BY Bottom DEF Init, AddServed, Adding, At

LEMMA AddServedStep ==
  ASSUME TypeInv, Fresh, AddServed, [Next]_vars
  PROVE  AddServed'
<1>1. SUFFICES ASSUME NEW u \in Thread, Adding(u)', "reused" \notin surprise'
               PROVE  request'[u].host \in servers'
  BY DEF AddServed
<1>r. "reused" \notin surprise
  BY <1>1, SurpriseGrows
<1>2. CASE UNCHANGED <<servers, request>>
  BY <1>1, <1>r, <1>2 DEF AddServed, Adding, At
<1>3. ASSUME NEW t \in Thread, Received(t) \/ Step(t)
      PROVE  request'[u].host \in servers'
  <2>1. CASE u = t
    <3>1. PICK h \in Host : AddCreate(t, h) /\ request'[t].host = h
      BY <1>1, <1>3, <2>1, AddingStarts
    <3>2. QED
      BY <2>1, <3>1 DEF AddCreate
  <2>2. CASE u # t
    <3> DEFINE h == request[u].host
    <3>1. request'[u] = request[u] /\ Adding(u)
      BY <1>1, <1>3, <2>2, OthersStay DEF Adding, At
    <3>2. h \in servers /\ Unseen(u, h)
      BY <1>r, <3>1 DEF AddServed, Fresh
    <3>3. h # request[t].host /\ \A m \in MemberId : ~Lookup(m, h)
      BY <2>2, <3>2 DEF Unseen
    <3> HIDE DEF h
    <3>4. ASSUME NEW g \in Host, AddCreate(t, g)
          PROVE  h \in servers'
      BY <3>2, <3>4 DEF AddCreate
    <3>5. ASSUME NEW m \in MemberId, CleanupMember(t, m)
          PROVE  h \in servers'
      BY <3>2, <3>3, <3>5 DEF CleanupMember, Lookup
    <3>6. h \in servers'
      BY <1>3, <3>2, <3>3, <3>4, <3>5, ServersAfter
    <3>7. QED
      BY <3>1, <3>6 DEF h
  <2>3. QED
    BY <2>1, <2>2
<1>4. QED
  BY <1>2, <1>3, Actors

LifeInv == Core /\ NoCleanup /\ AddServed /\ MembersServed

LifeStep == [Life!Next]_<<Hosts(config), servers, stored, Disturbed>>

\* What a step that disturbs nothing leaves as it was.
LEMMA LifeStutter ==
  ASSUME ~Disturbed, ~Disturbed', UNCHANGED <<servers, stored>>,
         Hosts(config') = Hosts(config)
  PROVE  LifeStep
<1>1. Disturbed' = Disturbed
  BY Zenon DEF Disturbed
<1>2. QED
  BY <1>1 DEF LifeStep

\* The configuration changes by one host.
LEMMA AppliedLife ==
  ASSUME LifeInv, ~Disturbed, ~Disturbed', NEW t \in Thread, Applied(t)
  PROVE  LifeStep
<1> DEFINE r == request[t]
<1>1. /\ Current(t) /\ config' = r.cfg /\ At(t, "reconfig")
      /\ r.op \in {"add", "del", "update"}
  BY Takes DEF LifeInv, Core
<1>2. /\ UNCHANGED <<servers, stored>> /\ Disturbed' = Disturbed
      /\ config \in Seq(Member) /\ servers \subseteq Host
  BY DEF Applied, Disturbed, LifeInv, Core, TypeInv, ConfigOK, LocalOK
<1>3. CASE r.op = "add"
  <2>1. Adding(t)
    BY <1>1, <1>3 DEF Adding
  <2>2. Hosts(config') = Hosts(config) \cup {r.host} /\ r.host \in servers
    BY <1>1, <2>1 DEF Current, LifeInv, AddServed, Disturbed
  <2>3. r.host \notin Hosts(config)
    BY <1>2, <2>1, InFacts DEF LifeInv, Core, Fresh, Unseen, Disturbed
  <2>4. Life!Join(r.host)
    BY <1>2, <2>2, <2>3 DEF Life!Join
  <2>5. QED
    BY <1>2, <2>2, <2>4 DEF LifeStep, Life!Next
<1>4. CASE r.op = "update"
  <2>1. config' = config
    BY <1>1, <1>4 DEF Current
  <2>2. QED
    BY <1>2, <2>1, LifeStutter
<1>5. CASE r.op = "del"
  <2>1. PICK h \in Host : Hosts(config) = Hosts(config') \cup {h}
    BY <1>1, <1>5 DEF Current
  <2>2. CASE h \in Hosts(config')
    BY <1>2, <2>1, <2>2, LifeStutter
  <2>3. CASE h \notin Hosts(config')
    <3>1. Hosts(config') = Hosts(config) \ {h}
      BY <2>1, <2>3
    <3>2. Life!Leave(h)
      BY <1>2, <3>1 DEF Life!Leave
    <3>3. QED
      BY <3>2 DEF LifeStep, Life!Next
  <2>4. QED
    BY <2>2, <2>3
<1>6. QED
  BY <1>1, <1>3, <1>4, <1>5

\* A server is registered, or removed.
LEMMA ServersLife ==
  ASSUME LifeInv, ~Disturbed, ~Disturbed', NEW t \in Thread,
         Received(t) \/ Step(t), servers' # servers, config' = config
  PROVE  LifeStep
<1>1. /\ Disturbed' = Disturbed /\ Hosts(config') = Hosts(config)
      /\ servers \subseteq Host
  BY DEF Disturbed, LifeInv, Core, TypeInv, LocalOK
<1>2. ASSUME NEW h \in Host, AddCreate(t, h)
      PROVE  LifeStep
  <2>1. /\ h \notin servers \cup Hosts(config)
        /\ servers' = servers \cup {h} /\ stored' = stored
    BY <1>2 DEF AddCreate, Free, Unmentioned, Disturbed
  <2>2. Life!Make(h)
    BY <1>1, <2>1 DEF Life!Make
  <2>3. QED
    BY <2>2 DEF LifeStep, Life!Next
<1>3. ASSUME NEW h \in servers, servers' = servers \ {h}, stored' = stored,
             stored => h \notin Hosts(config)
      PROVE  LifeStep
  <2>1. Life!Retire(h)
    BY <1>1, <1>3 DEF Life!Retire
  <2>2. QED
    BY <1>1, <2>1 DEF LifeStep, Life!Next
<1>4. CASE DelRemove(t)
  <2> DEFINE h == request[t].host
  <2>1. h \in servers /\ servers' = servers \ {h} /\ stored' = stored
    BY <1>4 DEF DelRemove
  <2>2. Removing(t)
    BY <1>4, Fields DEF DelRemove, LifeInv, Core, TypeInv, Ready, Serves,
       Removing, At
  <2>3. h \notin Hosts(config)
    BY <2>2 DEF LifeInv, Core, Outside, Disturbed
  <2>4. QED
    BY <1>3, <2>1, <2>3
<1>5. ASSUME NEW m \in MemberId, CleanupMember(t, m)
      PROVE  LifeStep
  <2> DEFINE h == server_map[m]
  <2>1. h \in servers /\ servers' = servers \ {h} /\ stored' = stored
    BY <1>5 DEF CleanupMember
  <2>2. ~stored
    BY <1>5 DEF CleanupMember, LifeInv, NoCleanup, Disturbed
  <2>3. QED
    BY <1>3, <2>1, <2>2
<1>6. CASE CommandKept(t)
  <2> DEFINE h == request[t].host
  <2>1. servers' = servers \cup {h} /\ stored' = stored /\ h \notin servers
    BY <1>6 DEF CommandKept
  <2>2. h \in Host
    BY <1>6, Fields DEF CommandKept, LifeInv, Core, TypeInv, Ready, Serves, At
  <2>3. stored => h \notin Hosts(config)
    BY <2>1 DEF LifeInv, MembersServed, Life!Served
  <2>4. Life!Make(h)
    BY <1>1, <2>1, <2>3 DEF Life!Make
  <2>5. QED
    BY <2>2, <2>4 DEF LifeStep, Life!Next
<1>7. QED
  BY <1>2, <1>4, <1>5, <1>6, ServersAfter

LEMMA NextLife ==
  ASSUME LifeInv, [Next]_vars
  PROVE  LifeStep
<1>1. CASE Disturbed'
  <2>1. Life!Disturb
    BY <1>1 DEF Life!Disturb, Disturbed
  <2>2. QED
    BY <2>1 DEF LifeStep, Life!Next
<1>2. CASE ~Disturbed'
  <2>1. ~Disturbed
    BY <1>2, SurpriseGrows DEF Disturbed
  <2>2. CASE UNCHANGED <<config, servers, stored>>
    BY <1>2, <2>1, <2>2, LifeStutter
  <2>3. ASSUME NEW t \in Thread, Received(t) \/ Step(t)
        PROVE  LifeStep
    <3>1. CASE Applied(t)
      BY <1>2, <2>1, <3>1, AppliedLife
    <3>2. CASE ~Applied(t)
      <4>1. config' = config
        BY <2>3, <3>2, ConfigAfter
      <4>2. CASE servers' # servers
        BY <1>2, <2>1, <2>3, <4>1, <4>2, ServersLife
      <4>3. CASE servers' = servers /\ stored' = stored
        BY <1>2, <2>1, <4>1, <4>3, LifeStutter
      <4>4. CASE servers' = servers /\ stored' # stored
        <5>1. ~stored' /\ stored' \in BOOLEAN
          <6>1. stored \in BOOLEAN /\ TypeInv /\ TypeInv'
            BY TypeStep DEF LifeInv, Core, TypeInv, LocalOK
          <6>2. stored' => stored
            BY <1>2, <6>1, StoredBefore DEF Disturbed
          <6>3. QED
            BY <4>4, <6>1, <6>2 DEF TypeInv, LocalOK
        <5>2. stored' = FALSE /\ Disturbed' = Disturbed
          BY <1>2, <2>1, <5>1, Zenon DEF Disturbed
        <5>3. Life!Close
          BY <4>1, <4>4, <5>2 DEF Life!Close
        <5>4. QED
          BY <5>3 DEF LifeStep, Life!Next
      <4>5. QED
        BY <4>2, <4>3, <4>4
    <3>3. QED
      BY <3>1, <3>2
  <2>4. QED
    BY <2>2, <2>3, Actors
<1>3. QED
  BY <1>1, <1>2

\* MemberLife keeps every member served.
LEMMA ServedStays ==
  ASSUME MembersServed, LifeStep
  PROVE  MembersServed'
<1> USE DEF MembersServed, Life!Served
<1>1. ASSUME NEW h \in Host, Life!Make(h) \/ Life!Join(h) \/ Life!Leave(h)
      PROVE  MembersServed'
  BY <1>1 DEF Life!Make, Life!Join, Life!Leave
<1>2. ASSUME NEW h \in Host, Life!Retire(h)
      PROVE  MembersServed'
  BY <1>2 DEF Life!Retire
<1>3. CASE Life!Close \/ Life!Disturb
  BY <1>3 DEF Life!Close, Life!Disturb
<1>4. CASE UNCHANGED <<Hosts(config), servers, stored, Disturbed>>
  BY <1>4
<1>5. QED
  BY <1>1, <1>2, <1>3, <1>4 DEF LifeStep, Life!Next

LEMMA InitLife ==
  ASSUME Init
  PROVE  Life!Init /\ LifeInv
<1>1. config \in Seq(Member)
  BY FirstConfig
<1>2. Hosts(config) \subseteq Host
  BY <1>1, Views
<1>3. servers = Hosts(config) /\ stored = TRUE /\ Disturbed = FALSE
  BY DEF Init, Disturbed
<1>4. Life!Init /\ MembersServed
  BY <1>2, <1>3 DEF Life!Init, MembersServed, Life!Served
<1>5. QED
  BY <1>4, InitCore, InitNoCleanup, InitAddServed DEF LifeInv

LEMMA LifeInvStep ==
  ASSUME LifeInv, [Next]_vars
  PROVE  LifeInv'
<1>1. MembersServed'
  BY NextLife, ServedStays DEF LifeInv
<1>2. QED
  BY <1>1, CoreStep, NoCleanupStep, AddServedStep DEF LifeInv, Core

\* Hosts join and leave the configuration one at a time, with a registered
\* server, and a server goes after its host, whatever requests overlap, wherever
\* they raise and whichever servers a command revives: repl_update never undoes
\* what another request did.  It says nothing once a gap, a lost connection, a
\* set stored again or a port reused too early has come (Disturbed).
THEOREM Refinement == Spec => Lives
<1>1. Init => Life!Init /\ LifeInv
  BY InitLife
<1>2. LifeInv /\ [Next]_vars => LifeInv'
  BY LifeInvStep
<1>3. LifeInv /\ [Next]_vars =>
        [Life!Next]_<<Hosts(config), servers, stored, Disturbed>>
  BY NextLife DEF LifeStep
<1>4. QED
  BY <1>1, <1>2, <1>3, PTL DEF Spec, Lives, Life!Spec

\* Every configured member has a registered server at any time, in the middle
\* of requests and after requests that raised, until a gap, a lost connection, a
\* set stored again or a port reused too early: MemberLife keeps it so.
THEOREM MembersAlwaysServed == Spec => []MembersServed
<1>1. Init => LifeInv
  BY InitLife
<1>2. LifeInv /\ [Next]_vars => LifeInv'
  BY LifeInvStep
<1>3. LifeInv => MembersServed
  BY DEF LifeInv
<1>4. QED
  BY <1>1, <1>2, <1>3, PTL DEF Spec
=============================================================================
