--------------------------- MODULE ServersProofs ---------------------------
(***************************************************************************)
(* Theorems about Servers, for every number of ids, servers, processes and *)
(* threads, and whether clients wait for replies or not.                   *)
(*                                                                         *)
(* TypeOK is not inductive: start() and stop() return to the head of the   *)
(* stack, which has to be there, and work on the object of the request.    *)
(* TypeInv says which stack and which object belong to which label.  That  *)
(* a secured server stays secured rests on one fact about every object: a  *)
(* login that needs no restart any more has its authentication configured. *)
(*                                                                         *)
(* The last five sections assume Serial: at most one request works on a    *)
(* server. Without it two start() of one server overwrite each other's     *)
(* self.proc and the process of the first is tracked by nobody. They are   *)
(* about what the request in hand has yet to do: Order says which request  *)
(* works on which object, Tracked that what runs is what self.proc names,  *)
(* Stopped that stop() leaves nothing, Wiped that a removed server leaves  *)
(* nothing, Awaiting that an insecure process is one being secured.  With  *)
(* them the threads implement ServerLife.                                  *)
(***************************************************************************)
EXTENDS Servers, SequenceTheorems, TLAPS

-----------------------------------------------------------------------------
(***************************************************************************)
(* Types.                                                                  *)
(***************************************************************************)
Starting == {"start", "repair", "repairing", "spawn", "wait", "reap_child",
             "is_master", "add_users", "secure", "rewrite"}
Stopping == {"stop", "shutdown", "await", "kill", "reap"}

\* The two steps of repair_mongo that succeed.
Repairs(t) == Repair(t) \/ Repaired(t)

\* A request that works on a server has it, and start() and stop() have
\* something to return to; only a stop() can be inside a start() or restart().
RequestOK(r) ==
  /\ r \in Request
  /\ r.pc # "idle" => r.id \in Id
  /\ r.pc \in Starting \cup Stopping \cup Last => r.self \in Obj
  /\ r.pc \in Starting => r.stack \in Shallow
  /\ r.pc \in Stopping => r.stack \in Shallow \cup Deep

ThreadOK ==
  /\ thread \in [Thread -> Request]
  /\ \A t \in Thread : RequestOK(thread[t])

\* The rest of the state; a process that is not gone is that of some server.
StateOK ==
  /\ storage \in [Id -> Obj \cup {NoObj}]
  /\ server \in [Obj -> ServerRecord]
  /\ os \in [Pid -> Process]
  /\ \A p \in Pid : os[p].st # "gone" => os[p].obj \in Obj
  /\ failed \subseteq Obj
  /\ lost \subseteq Obj

TypeInv == ThreadOK /\ StateOK

\* Returning from a call at the bottom of the stack.
LEMMA ReturnShallow ==
  ASSUME NEW s \in Shallow
  PROVE  Head(s) \in Last /\ Tail(s) = <<>>
<1>1. PICK l \in Last : s = <<l>>
  BY DEF Shallow
<1>2. Head(<<l>>) = l
  OBVIOUS
<1>3. Tail(<<l>>) = <<>>
  OBVIOUS
<1>4. QED
  BY <1>1, <1>2, <1>3

\* Returning from a call inside start() or restart().
LEMMA ReturnDeep ==
  ASSUME NEW s \in Deep
  PROVE  Head(s) \in {"secure", "rewrite"} /\ Tail(s) \in Shallow
<1>1. PICK m \in {"secure", "rewrite"}, l \in Last : s = <<m, l>>
  BY DEF Deep
<1>2. Head(<<m, l>>) = m
  OBVIOUS
<1>3. Tail(<<m, l>>) = <<l>>
  OBVIOUS
<1>4. QED
  BY <1>1, <1>2, <1>3 DEF Shallow

\* Calling stop() inside start().
LEMMA CallSecure ==
  ASSUME NEW s \in Shallow
  PROVE  <<"secure">> \o s \in Deep
<1>1. PICK l \in Last : s = <<l>>
  BY DEF Shallow
<1>2. <<"secure">> \o <<l>> = <<"secure", l>>
  <2> DEFINE c == <<"secure">> \o <<l>>
             d == <<"secure", l>>
             S == {"secure", l}
  <2>1. <<"secure">> \in Seq(S) /\ <<l>> \in Seq(S) /\ d \in Seq(S)
    OBVIOUS
  <2>2. c \in Seq(S) /\ Len(c) = 2 /\ c[1] = "secure" /\ c[2] = l
    <3>1. Len(<<"secure">>) = 1 /\ Len(<<l>>) = 1
      OBVIOUS
    <3> HIDE DEF S
    <3>2. QED
      BY <2>1, <3>1, ConcatProperties
  <2>3. \A i \in 1..Len(c) : c[i] = d[i]
    BY <2>2
  <2>4. Len(c) = Len(d)
    BY <2>2
  <2> HIDE DEF c, d, S
  <2>5. c = d
    BY <2>1, <2>2, <2>3, <2>4, SeqEqual
  <2>6. QED
    BY <2>5 DEF c, d
<1>3. QED
  BY <1>1, <1>2 DEF Deep

LEMMA LabelsOK ==
  /\ Starting \subseteq Label /\ Stopping \subseteq Label /\ Last \subseteq Label
  /\ Starting \cap Stopping = {} /\ Starting \cap Last = {}
  /\ Stopping \cap Last = {}
  /\ "secure" \in Starting /\ "rewrite" \in Starting
  /\ "idle" \in Label
  /\ "idle" \notin Starting \cup Stopping \cup Last
BY DEF Starting, Stopping, Last, Label

LEMMA OneRequest ==
  ASSUME ThreadOK, NEW t \in Thread, NEW r, RequestOK(r),
         thread' = [thread EXCEPT ![t] = r]
  PROVE  ThreadOK'
BY DEF ThreadOK, RequestOK

\* The reply leaves the thread idle.
LEMMA ReplyOK ==
  ASSUME ThreadOK, NEW t \in Thread, Reply(t)
  PROVE  ThreadOK'
<1>1. RequestOK(Idle)
  BY LabelsOK DEF Idle, RequestOK, Request, Stacks
<1>2. QED
  BY <1>1, OneRequest DEF Reply

LEMMA RaiseOK ==
  ASSUME TypeInv, NEW t \in Thread, Raise(t),
         thread[t].pc \in Starting \cup Stopping \cup Last
  PROVE  ThreadOK' /\ lost' \subseteq Obj
BY ReplyOK DEF Raise, TypeInv, ThreadOK, StateOK, RequestOK, Self

\* start() or stop() returns.
LEMMA ReturnOK ==
  ASSUME ThreadOK, NEW t \in Thread, Return(t),
         thread[t].pc \in Starting \cup Stopping
  PROVE  ThreadOK'
<1> DEFINE s == thread[t].stack
           r == [thread[t] EXCEPT !.pc = Head(s), !.stack = Tail(s),
                                  !.child = NoPid]
<1>1. thread' = [thread EXCEPT ![t] = r]
  BY DEF Return, ThreadOK
<1>2. thread[t] \in Request /\ thread[t].self \in Obj /\ thread[t].id \in Id
  BY LabelsOK DEF ThreadOK, RequestOK
<1>3. s \in Shallow \cup Deep
  BY DEF ThreadOK, RequestOK
<1>4. \/ Head(s) \in Last /\ Tail(s) = <<>>
      \/ Head(s) \in {"secure", "rewrite"} /\ Tail(s) \in Shallow
  BY <1>3, ReturnShallow, ReturnDeep
<1>5. RequestOK(r)
  <2>1. /\ r.pc = Head(s) /\ r.stack = Tail(s) /\ r.self = thread[t].self
        /\ r.id = thread[t].id
        /\ r \in [pc : {Head(s)}, stack : {Tail(s)}, id : Id \cup {NoId},
                  self : Obj \cup {NoObj}, child : Pid \cup {NoPid},
                  tries : 0..1]
    BY <1>2 DEF Request
  <2> HIDE DEF r
  <2>2. Head(s) \in Label /\ Tail(s) \in Stacks
    BY <1>4, LabelsOK DEF Stacks
  <2>3. r \in Request
    BY <2>1, <2>2 DEF Request
  <2>4. QED
    BY <2>1, <2>3, <1>2, <1>4, LabelsOK DEF RequestOK
<1>6. QED
  BY <1>1, <1>5, OneRequest

\* The thread goes on at another label of the same call.
LEMMA GotoOK ==
  ASSUME ThreadOK, NEW t \in Thread, NEW l \in Label, Goto(t, l),
         l # "idle" => thread[t].id \in Id,
         l \in Starting \cup Stopping \cup Last => thread[t].self \in Obj,
         l \in Starting => thread[t].stack \in Shallow,
         l \in Stopping => thread[t].stack \in Shallow \cup Deep
  PROVE  ThreadOK'
<1> DEFINE r == [thread[t] EXCEPT !.pc = l]
<1>1. thread' = [thread EXCEPT ![t] = r]
  BY DEF Goto, ThreadOK
<1>2. thread[t] \in Request
  BY DEF ThreadOK
<1>3. /\ r \in Request /\ r.pc = l /\ r.self = thread[t].self
      /\ r.stack = thread[t].stack /\ r.id = thread[t].id
  BY <1>2 DEF Request
<1> HIDE DEF r
<1>4. RequestOK(r)
  BY <1>3 DEF RequestOK
<1>5. QED
  BY <1>1, <1>4, OneRequest

LEMMA InitTypeInv == Init => TypeInv
<1>1. Init => StateOK
  <2>1. [NewServer(FALSE) EXCEPT !.conf = FALSE, !.data = FALSE]
          \in ServerRecord
    BY DEF NewServer, ServerRecord
  <2>2. Gone \in Process /\ Gone.st = "gone"
    BY DEF Gone, Process
  <2>3. QED
    BY <2>1, <2>2 DEF Init, StateOK
<1>2. RequestOK(Idle)
  BY LabelsOK DEF Idle, RequestOK, Request, Stacks
<1>3. Init => ThreadOK
  BY <1>2 DEF Init, ThreadOK, RequestOK
<1>4. QED
  BY <1>1, <1>3 DEF TypeInv

\* Signals change no more than the state of a process.
LEMMA SignalOK ==
  ASSUME StateOK, NEW p \in Pid \cup {NoPid}
  PROVE  /\ Terminated(p) \in [Pid -> Process]
         /\ \A q \in Pid : Terminated(p)[q].st # "gone" =>
                           Terminated(p)[q].obj \in Obj
BY ServersAssumption DEF StateOK, Terminated, Alive, Process

\* The object of a request that works on a server is one.
LEMMA SelfOK ==
  ASSUME ThreadOK, NEW t \in Thread,
         thread[t].pc \in Starting \cup Stopping \cup Last
  PROVE  Self(t) \in Obj
BY DEF ThreadOK, RequestOK, Self

\* What cleanup() leaves of the fields of its server.
LEMMA CleanupFields ==
  ASSUME TypeInv, NEW t \in Thread, Cleanup(t)
  PROVE  /\ Self(t) \in Obj
         /\ \E r \in ServerRecord :
              /\ server' = [server EXCEPT ![Self(t)] = r]
              /\ r.data \/ r.conf => r.kept
              /\ r.proc = server[Self(t)].proc
              /\ r.login = server[Self(t)].login
              /\ r.restart_required = server[Self(t)].restart_required
              /\ r.auth = server[Self(t)].auth
<1> DEFINE o == Self(t)
<1>1. /\ o \in Obj /\ server \in [Obj -> ServerRecord]
      /\ server[o] \in ServerRecord
  BY SelfOK DEF Cleanup, At, Last, TypeInv, StateOK
<1>2. PICK kept \in BOOLEAN :
        server' = [server EXCEPT ![o].data = @ /\ kept,
                                 ![o].conf = @ /\ kept,
                                 ![o].lock = @ /\ kept,
                                 ![o].kept = kept]
  BY DEF Cleanup
<1> DEFINE d == server[o].data /\ kept
           c == server[o].conf /\ kept
           k == server[o].lock /\ kept
           r == [server[o] EXCEPT !.data = d, !.conf = c, !.lock = k,
                                  !.kept = kept]
<1>3. server' = [server EXCEPT ![o] = r]
  BY <1>1, <1>2 DEF ServerRecord
<1>4. /\ d \in BOOLEAN /\ c \in BOOLEAN /\ k \in BOOLEAN
      /\ d \/ c => kept
  OBVIOUS
<1> HIDE DEF d, c, k
<1>5. /\ r \in ServerRecord /\ r.data = d /\ r.conf = c /\ r.kept = kept
      /\ r.proc = server[o].proc /\ r.login = server[o].login
      /\ r.restart_required = server[o].restart_required
      /\ r.auth = server[o].auth
  BY <1>1, <1>4 DEF ServerRecord
<1>6. r.data \/ r.conf => r.kept
  BY <1>4, <1>5
<1> HIDE DEF r
<1>7. QED
  BY <1>1, <1>3, <1>5, <1>6

LEMMA StepRequest ==
  ASSUME TypeInv, NEW t \in Thread,
         \/ Create(t)
         \/ \E o \in Obj, a, b \in BOOLEAN : Construct(t, o, a, b)
         \/ ConstructFails(t) \/ Register(t) \/ Store(t)
         \/ \E m \in {"start", "stop", "restart"} : Command(t, m)
         \/ Remove(t) \/ Cleanup(t)
  PROVE  TypeInv'
<1> USE DEF TypeInv
<1>1. /\ thread[t] \in Request /\ RequestOK(thread[t])
      /\ Self(t) = thread[t].self
  BY DEF ThreadOK, Self
<1>7. thread[t].pc # "idle" => thread[t].id \in Id
  BY <1>1 DEF RequestOK
<1>2. CASE Create(t)
  <2>1. StateOK'
    BY <1>2 DEF Create, StateOK
  <2>2. ThreadOK'
    <3>1. CASE Reply(t)
      BY <3>1, ReplyOK
    <3>2. CASE Goto(t, "construct")
      <4>1. /\ "construct" \in Label
            /\ "construct" \notin Starting \cup Stopping \cup Last
        BY DEF Label, Starting, Stopping, Last
      <4>2. thread[t].id \in Id
        BY <1>2, <1>7 DEF Create, At
      <4>3. QED
        BY <3>2, <4>1, <4>2, GotoOK
    <3>3. QED
      BY <1>2, <3>1, <3>2 DEF Create
  <2>3. QED
    BY <2>1, <2>2
<1>3. ASSUME NEW o \in Obj, NEW a \in BOOLEAN, NEW b \in BOOLEAN,
             Construct(t, o, a, b)
      PROVE  TypeInv'
  <2>1. StateOK'
    BY <1>3 DEF Construct, StateOK, NewServer, ServerRecord
  <2>2. ThreadOK'
    <3> DEFINE l == IF b THEN "start" ELSE "register"
               s == IF b THEN <<"register">> ELSE <<>>
               r == [thread[t] EXCEPT !.self = o, !.pc = l, !.stack = s]
    <3>1. thread' = [thread EXCEPT ![t] = r]
      BY <1>3 DEF Construct, ThreadOK
    <3>2. /\ l \in Label /\ l \notin Stopping
          /\ l \in Starting => s \in Shallow
          /\ s \in Stacks
      BY DEF Label, Starting, Stopping, Stacks, Shallow, Last
    <3> HIDE DEF l, s
    <3>3. /\ r \in Request /\ r.pc = l /\ r.self = o /\ r.stack = s
          /\ r.id = thread[t].id
      BY <1>1, <3>2 DEF Request
    <3>4. thread[t].id \in Id
      BY <1>3, <1>7 DEF Construct, At
    <3> HIDE DEF r
    <3>5. RequestOK(r)
      BY <3>2, <3>3, <3>4 DEF RequestOK
    <3>6. QED
      BY <3>1, <3>5, OneRequest
  <2>3. QED
    BY <2>1, <2>2
<1>4. CASE ConstructFails(t)
  BY <1>4, ReplyOK DEF ConstructFails, StateOK
<1>5. CASE Register(t) \/ Store(t)
  <2>1. Self(t) \in Obj
    BY <1>1, <1>5 DEF Register, Store, At, Self, RequestOK, Request, Last
  <2>2. StateOK'
    BY <1>5, <2>1 DEF Register, Store, StateOK
  <2>3. QED
    BY <1>5, <2>2, ReplyOK DEF Register, Store
<1>6. ASSUME NEW m \in {"start", "stop", "restart"}, Command(t, m)
      PROVE  TypeInv'
  <2>1. StateOK'
    BY <1>6 DEF Command, StateOK
  <2>2. ThreadOK'
    <3> DEFINE o == storage[thread[t].id]
               l == IF m = "restart" THEN "stop" ELSE m
               s == IF m = "restart" THEN <<"rewrite", "store">> ELSE <<"store">>
               r == [thread[t] EXCEPT !.self = o, !.pc = l, !.stack = s]
    <3>1. CASE o = NoObj
      BY <1>6, <3>1, ReplyOK DEF Command
    <3>2. CASE o # NoObj
      <4>1. thread' = [thread EXCEPT ![t] = r]
        BY <1>6, <3>2 DEF Command, ThreadOK
      <4>2. o \in Obj
        BY <1>6, <3>2, <1>7 DEF Command, At, StateOK
      <4>3. /\ l \in Label /\ s \in Stacks
            /\ l \in Starting => s \in Shallow
            /\ l \in Stopping => s \in Shallow \cup Deep
        BY DEF Label, Starting, Stopping, Stacks, Shallow, Deep, Last
      <4> HIDE DEF l, s
      <4>4. /\ r \in Request /\ r.pc = l /\ r.self = o /\ r.stack = s
            /\ r.id = thread[t].id
        BY <1>1, <4>2, <4>3 DEF Request
      <4>5. thread[t].id \in Id
        BY <1>6, <1>7 DEF Command, At
      <4> HIDE DEF r, o
      <4>6. RequestOK(r)
        BY <4>2, <4>3, <4>4, <4>5 DEF RequestOK
      <4>7. QED
        BY <4>1, <4>6, OneRequest
    <3>3. QED
      BY <3>1, <3>2
  <2>3. QED
    BY <2>1, <2>2
<1>8. CASE Remove(t)
  <2> DEFINE o == storage[thread[t].id]
             s == <<"cleanup">>
             r == [thread[t] EXCEPT !.self = o, !.pc = "stop", !.stack = s]
  <2>1. StateOK'
    BY <1>8 DEF Remove, StateOK
  <2>2. CASE o = NoObj
    BY <1>8, <2>1, <2>2, ReplyOK DEF Remove
  <2>3. CASE o # NoObj
    <3>1. thread' = [thread EXCEPT ![t] = r]
      BY <1>8, <2>3 DEF Remove, ThreadOK
    <3>2. o \in Obj
      BY <1>8, <2>3, <1>7 DEF Remove, At, StateOK
    <3>3. /\ "stop" \in Label \ Starting /\ s \in Stacks /\ s \in Shallow
      BY DEF Label, Starting, Stacks, Shallow, Last
    <3> HIDE DEF s
    <3>4. /\ r \in Request /\ r.pc = "stop" /\ r.self = o /\ r.stack = s
          /\ r.id = thread[t].id
      BY <1>1, <3>2, <3>3 DEF Request
    <3>5. thread[t].id \in Id
      BY <1>8, <1>7 DEF Remove, At
    <3> HIDE DEF r, o
    <3>6. RequestOK(r)
      BY <3>2, <3>3, <3>4, <3>5 DEF RequestOK
    <3>7. QED
      BY <2>1, <3>1, <3>6, OneRequest
  <2>4. QED
    BY <2>2, <2>3
<1>9. CASE Cleanup(t)
  <2>1. Self(t) \in Obj
    BY <1>9, SelfOK DEF Cleanup, At, Last
  <2>2. StateOK'
    <3>1. server' \in [Obj -> ServerRecord]
      BY <1>9, CleanupFields DEF StateOK
    <3>2. QED
      BY <1>9, <3>1 DEF Cleanup, StateOK
  <2>3. QED
    BY <1>9, <2>2, ReplyOK DEF Cleanup
<1>10. QED
  BY <1>2, <1>3, <1>4, <1>5, <1>6, <1>8, <1>9

-----------------------------------------------------------------------------
(***************************************************************************)
(* Types: start() and stop().                                              *)
(***************************************************************************)
LEMMA AtWork ==
  ASSUME ThreadOK, NEW t \in Thread,
         thread[t].pc \in Starting \cup Stopping
  PROVE  /\ thread[t] \in Request
         /\ Self(t) \in Obj /\ thread[t].self = Self(t)
         /\ thread[t].id \in Id
         /\ thread[t].child \in Pid \cup {NoPid}
         /\ thread[t].tries \in 0..1
         /\ thread[t].stack \in Shallow \cup Deep
         /\ thread[t].pc \in Starting => thread[t].stack \in Shallow
BY LabelsOK DEF ThreadOK, RequestOK, Self, Request

\* Inside start() the thread goes on in start(), inside stop() in stop().
Onward(t, l) ==
  \/ thread[t].pc \in Starting /\ l \in Starting
  \/ thread[t].pc \in Stopping /\ l \in Stopping

LEMMA GoOn ==
  ASSUME ThreadOK, NEW t \in Thread, NEW l, Onward(t, l), Goto(t, l)
  PROVE  ThreadOK'
BY LabelsOK, AtWork, GotoOK DEF Onward

LEMMA GoOnChild ==
  ASSUME ThreadOK, NEW t \in Thread, NEW l, Onward(t, l),
         NEW c \in Pid \cup {NoPid},
         thread' = [thread EXCEPT ![t].pc = l, ![t].child = c]
  PROVE  ThreadOK'
<1> DEFINE r == [thread[t] EXCEPT !.pc = l, !.child = c]
<1>1. thread' = [thread EXCEPT ![t] = r]
  BY DEF ThreadOK
<1>2. /\ thread[t] \in Request
      /\ l \in Label /\ thread[t].id \in Id /\ thread[t].self \in Obj
      /\ l \in Starting => thread[t].stack \in Shallow
      /\ l \in Stopping => thread[t].stack \in Shallow \cup Deep
  BY LabelsOK, AtWork DEF Onward
<1>3. /\ r \in Request /\ r.pc = l /\ r.self = thread[t].self
      /\ r.stack = thread[t].stack /\ r.id = thread[t].id
  BY <1>2 DEF Request
<1> HIDE DEF r
<1>4. RequestOK(r)
  BY <1>2, <1>3 DEF RequestOK
<1>5. QED
  BY <1>1, <1>4, OneRequest

LEMMA GoOnTries ==
  ASSUME ThreadOK, NEW t \in Thread, NEW l, Onward(t, l), NEW n \in 0..1,
         thread' = [thread EXCEPT ![t].pc = l, ![t].tries = n]
  PROVE  ThreadOK'
<1> DEFINE r == [thread[t] EXCEPT !.pc = l, !.tries = n]
<1>1. thread' = [thread EXCEPT ![t] = r]
  BY DEF ThreadOK
<1>2. /\ thread[t] \in Request
      /\ l \in Label /\ thread[t].id \in Id /\ thread[t].self \in Obj
      /\ l \in Starting => thread[t].stack \in Shallow
      /\ l \in Stopping => thread[t].stack \in Shallow \cup Deep
  BY LabelsOK, AtWork DEF Onward
<1>3. /\ r \in Request /\ r.pc = l /\ r.self = thread[t].self
      /\ r.stack = thread[t].stack /\ r.id = thread[t].id
  BY <1>2 DEF Request
<1> HIDE DEF r
<1>4. RequestOK(r)
  BY <1>2, <1>3 DEF RequestOK
<1>5. QED
  BY <1>1, <1>4, OneRequest

\* One object changes.
LEMMA ServerOK ==
  ASSUME StateOK, NEW o \in Obj, NEW r \in ServerRecord,
         server' = [server EXCEPT ![o] = r],
         UNCHANGED <<storage, os, failed, lost>>
  PROVE  StateOK'
BY DEF StateOK

\* An exception in start().
LEMMA FailOK ==
  ASSUME TypeInv, NEW t \in Thread, Raise(t), thread[t].pc \in Starting,
         failed' \in {failed, failed \cup {Self(t)}},
         UNCHANGED <<storage, server, os>>
  PROVE  TypeInv'
BY RaiseOK, AtWork DEF TypeInv, StateOK

LEMMA StepStart ==
  ASSUME TypeInv, NEW t \in Thread,
         \/ Start(t) \/ Repairs(t) \/ RepairFails(t)
         \/ \E p \in Pid : Spawn(t, p)
         \/ SpawnFails(t)
         \/ WaitConnects(t) \/ WaitDies(t) \/ WaitTimesOut(t) \/ ReapChild(t)
         \/ IsMaster(t) \/ IsMasterFails(t) \/ AddUsers(t) \/ AddUsersFails(t)
         \/ Secure(t) \/ Rewrite(t)
  PROVE  TypeInv'
<1>1. thread[t].pc \in Starting
  BY DEF Starting, At, Start, Repairs, Repair, Repaired, RepairFails, Spawn,
         SpawnFails,
         WaitConnects, WaitDies, WaitTimesOut, ReapChild, IsMaster,
         IsMasterFails, AddUsers, AddUsersFails, Secure, Rewrite
<1>2. /\ ThreadOK /\ StateOK
      /\ Self(t) \in Obj /\ server[Self(t)] \in ServerRecord
      /\ thread[t].child \in Pid \cup {NoPid}
      /\ \A l \in Starting : Onward(t, l)
  BY <1>1, AtWork DEF TypeInv, StateOK, Onward
<1>3. {"start", "repair", "repairing", "spawn", "wait", "reap_child",
       "is_master", "add_users"} \subseteq Starting
  BY DEF Starting
<1>4. CASE Start(t)
  <2>1. StateOK'
    BY <1>2, <1>4 DEF Start, StateOK
  <2>2. CASE Return(t)
    BY <1>1, <1>2, <2>1, <2>2, ReturnOK DEF TypeInv
  <2>3. ASSUME NEW l \in {"repair", "spawn"}, Goto(t, l)
        PROVE  TypeInv'
    BY <1>2, <1>3, <2>1, <2>3, GoOn DEF TypeInv
  <2>4. QED
    BY <1>4, <2>2, <2>3 DEF Start
<1>5. ASSUME NEW w \in {"runs", "none"},
             server' = [server EXCEPT ![Self(t)].repair = w]
      PROVE  \E r \in ServerRecord : server' = [server EXCEPT ![Self(t)] = r]
  <2> DEFINE r == [server[Self(t)] EXCEPT !.repair = w]
  <2>1. r \in ServerRecord
    BY <1>2 DEF ServerRecord
  <2>2. server' = [server EXCEPT ![Self(t)] = r]
    BY <1>2, <1>5 DEF StateOK
  <2>3. QED
    BY <2>1, <2>2
<1>16. CASE Repairs(t)
  <2>1. \E r \in ServerRecord : server' = [server EXCEPT ![Self(t)] = r]
    BY <1>5, <1>16 DEF Repairs, Repair, Repaired
  <2>2. StateOK'
    BY <1>2, <1>16, <2>1, ServerOK DEF Repairs, Repair, Repaired
  <2>3. QED
    BY <1>2, <1>3, <1>16, <2>2, GoOn DEF Repairs, Repair, Repaired, TypeInv
<1>6. CASE RepairFails(t) \/ SpawnFails(t) \/ WaitDies(t) \/ ReapChild(t)
  BY <1>1, <1>6, FailOK DEF RepairFails, SpawnFails, WaitDies, ReapChild
<1>7. CASE IsMasterFails(t) \/ AddUsersFails(t)
  BY <1>1, <1>7, FailOK DEF IsMasterFails, AddUsersFails
<1>8. ASSUME NEW p \in Pid, Spawn(t, p)
      PROVE  TypeInv'
  <2> DEFINE r == [obj |-> Self(t), auth |-> Me(t).auth, st |-> "boot"]
  <2>1. r \in Process /\ r.obj \in Obj
    BY <1>2 DEF Process, Me, ServerRecord
  <2>2. os' = [os EXCEPT ![p] = r]
    BY <1>8 DEF Spawn
  <2> HIDE DEF r
  <2>3. StateOK'
    BY <1>2, <1>8, <2>1, <2>2 DEF Spawn, StateOK
  <2>4. ThreadOK'
    BY <1>2, <1>3, <1>8, GoOnChild DEF Spawn
  <2>5. QED
    BY <2>3, <2>4 DEF TypeInv
<1>9. CASE WaitConnects(t)
  <2> DEFINE r == [server[Self(t)] EXCEPT !.proc = thread[t].child]
  <2>1. r \in ServerRecord
    BY <1>2 DEF ServerRecord
  <2>2. server' = [server EXCEPT ![Self(t)] = r]
    BY <1>2, <1>9 DEF WaitConnects, StateOK
  <2> HIDE DEF r
  <2>3. StateOK'
    BY <1>2, <1>9, <2>1, <2>2, ServerOK DEF WaitConnects
  <2>4. ThreadOK'
    BY <1>2, <1>3, <1>9, GoOnChild DEF WaitConnects
  <2>5. QED
    BY <2>3, <2>4 DEF TypeInv
<1>10. CASE WaitTimesOut(t)
  <2>1. StateOK'
    BY <1>2, <1>10, SignalOK DEF WaitTimesOut, StateOK
  <2>2. QED
    BY <1>2, <1>3, <1>10, <2>1, GoOn DEF WaitTimesOut, TypeInv
<1>11. CASE IsMaster(t)
  <2>1. StateOK'
    BY <1>2, <1>11 DEF IsMaster, StateOK
  <2>2. CASE Goto(t, "add_users")
    BY <1>2, <1>3, <2>1, <2>2, GoOn DEF TypeInv
  <2>3. CASE Return(t)
    BY <1>1, <1>2, <2>1, <2>3, ReturnOK DEF TypeInv
  <2>4. QED
    BY <1>11, <2>2, <2>3 DEF IsMaster
<1>12. CASE AddUsers(t)
  <2>1. PICK ok \in BOOLEAN :
          server' = [server EXCEPT ![Self(t)].users = @ \/ ok]
    BY <1>12 DEF AddUsers
  <2> DEFINE u == server[Self(t)].users \/ ok
             r == [server[Self(t)] EXCEPT !.users = u]
             s == <<"secure">> \o thread[t].stack
             q == [thread[t] EXCEPT !.pc = "stop", !.stack = s]
  <2>2. u \in BOOLEAN
    OBVIOUS
  <2>3. server' = [server EXCEPT ![Self(t)] = r]
    BY <1>2, <2>1 DEF StateOK
  <2> HIDE DEF u
  <2>4. r \in ServerRecord
    BY <1>2, <2>2 DEF ServerRecord
  <2> HIDE DEF r
  <2>5. StateOK'
    BY <1>2, <1>12, <2>3, <2>4, ServerOK DEF AddUsers
  <2>6. s \in Deep
    BY <1>1, <1>2, AtWork, CallSecure
  <2>7. thread' = [thread EXCEPT ![t] = q]
    BY <1>2, <1>12 DEF AddUsers, Call, ThreadOK
  <2> HIDE DEF s
  <2>8. thread[t] \in Request /\ thread[t].id \in Id /\ thread[t].self \in Obj
    BY <1>1, <1>2, AtWork
  <2>9. "stop" \in Label \ Starting
    BY DEF Label, Starting
  <2>10. /\ q \in Request /\ q.pc = "stop" /\ q.self = thread[t].self
         /\ q.stack = s /\ q.id = thread[t].id
    BY <2>6, <2>8, <2>9 DEF Request, Stacks
  <2> HIDE DEF q
  <2>11. RequestOK(q)
    BY <2>6, <2>8, <2>9, <2>10 DEF RequestOK
  <2>12. QED
    BY <1>2, <2>5, <2>7, <2>11, OneRequest DEF TypeInv
<1>13. CASE Secure(t)
  <2> DEFINE w == server[Self(t)].old \/ server[Self(t)].conf
             r == [server[Self(t)] EXCEPT !.auth = TRUE,
                     !.restart_required = FALSE, !.old = w, !.conf = TRUE,
                     !.data = TRUE]
  <2>5. w \in BOOLEAN
    OBVIOUS
  <2>2. server' = [server EXCEPT ![Self(t)] = r]
    BY <1>2, <1>13 DEF Secure, Me, StateOK, ServerRecord
  <2> HIDE DEF w
  <2>1. r \in ServerRecord
    BY <1>2, <2>5 DEF ServerRecord
  <2> HIDE DEF r
  <2>3. StateOK'
    BY <1>2, <1>13, <2>1, <2>2, ServerOK DEF Secure
  <2>4. QED
    BY <1>2, <1>3, <1>13, <2>3, GoOn DEF Secure, TypeInv
<1>14. CASE Rewrite(t)
  <2> DEFINE w == server[Self(t)].old \/ server[Self(t)].conf
             r == [server[Self(t)] EXCEPT !.old = w, !.conf = TRUE]
  <2>5. w \in BOOLEAN
    OBVIOUS
  <2>2. server' = [server EXCEPT ![Self(t)] = r]
    BY <1>2, <1>14 DEF Rewrite, Me, StateOK, ServerRecord
  <2> HIDE DEF w
  <2>1. r \in ServerRecord
    BY <1>2, <2>5 DEF ServerRecord
  <2> HIDE DEF r
  <2>3. StateOK'
    BY <1>2, <1>14, <2>1, <2>2, ServerOK DEF Rewrite
  <2>4. QED
    BY <1>2, <1>3, <1>14, <2>3, GoOn DEF Rewrite, TypeInv
<1>15. QED
  BY <1>4, <1>16, <1>6, <1>7, <1>8, <1>9, <1>10, <1>11, <1>12, <1>13, <1>14

LEMMA StepStop ==
  ASSUME TypeInv, NEW t \in Thread,
         \/ Stop(t) \/ Shutdown(t) \/ ShutdownFails(t)
         \/ Awaited(t) \/ AwaitTimesOut(t) \/ Kill(t) \/ Reap(t)
  PROVE  TypeInv'
<1>1. thread[t].pc \in Stopping
  BY DEF Stopping, At, Stop, Shutdown, ShutdownFails, Awaited, AwaitTimesOut,
         Kill, Reap
<1>2. /\ ThreadOK /\ StateOK
      /\ Self(t) \in Obj /\ server[Self(t)] \in ServerRecord
      /\ \A l \in Stopping : Onward(t, l)
  BY <1>1, AtWork DEF TypeInv, StateOK, Onward
<1>3. {"shutdown", "await", "kill", "reap"} \subseteq Stopping
  BY DEF Stopping
<1>4. CASE Stop(t)
  <2>1. StateOK'
    BY <1>2, <1>4 DEF Stop, StateOK
  <2>2. CASE Return(t)
    BY <1>1, <1>2, <2>1, <2>2, ReturnOK DEF TypeInv
  <2>3. CASE thread' = [thread EXCEPT ![t].pc = "shutdown", ![t].tries = 0]
    <3>1. 0 \in 0..1 /\ Onward(t, "shutdown")
      BY <1>2, <1>3
    <3>2. QED
      BY <1>2, <2>1, <2>3, <3>1, GoOnTries DEF TypeInv
  <2>4. QED
    BY <1>4, <2>2, <2>3 DEF Stop
<1>5. CASE Shutdown(t)
  <2>4. PICK reached \in BOOLEAN :
          os' = [p \in Pid |-> IF reached /\ p \in Serving(Self(t))
                               THEN [os[p] EXCEPT !.st = "exiting"] ELSE os[p]]
    BY <1>5 DEF Shutdown
  <2>1. /\ os' \in [Pid -> Process]
        /\ \A p \in Pid : os'[p].st # "gone" => os'[p].obj \in Obj
    BY <1>2, <2>4 DEF StateOK, Process, Serving, LiveOf, Alive
  <2>2. StateOK'
    BY <1>2, <1>5, <2>1 DEF Shutdown, StateOK
  <2>3. QED
    BY <1>2, <1>3, <1>5, <2>2, GoOn DEF Shutdown, TypeInv
<1>6. CASE ShutdownFails(t)
  BY <1>2, <1>3, <1>6, GoOn DEF ShutdownFails, TypeInv, StateOK
<1>7. CASE Awaited(t) \/ Reap(t)
  BY <1>1, <1>2, <1>7, ReturnOK DEF Awaited, Reap, TypeInv, StateOK
<1>8. CASE AwaitTimesOut(t)
  <2>1. StateOK'
    BY <1>2, <1>8 DEF AwaitTimesOut, StateOK
  <2>2. ASSUME NEW l \in {"shutdown", "kill"},
               thread' = [thread EXCEPT ![t].pc = l, ![t].tries = 1]
        PROVE  ThreadOK'
    <3>1. 1 \in 0..1 /\ Onward(t, l)
      BY <1>2, <1>3
    <3>2. QED
      BY <1>2, <2>2, <3>1, GoOnTries
  <2>3. QED
    BY <1>8, <2>1, <2>2 DEF AwaitTimesOut, TypeInv
<1>9. CASE Kill(t)
  <2>1. Me(t).proc \in Pid \cup {NoPid}
    BY <1>2 DEF Me, ServerRecord
  <2>2. StateOK'
    BY <1>2, <1>9, <2>1, SignalOK DEF Kill, StateOK
  <2>3. ThreadOK'
    BY <1>2, <1>3, <1>9, <2>1, GoOnChild DEF Kill
  <2>4. QED
    BY <2>2, <2>3 DEF TypeInv
<1>10. QED
  BY <1>4, <1>5, <1>6, <1>7, <1>8, <1>9

-----------------------------------------------------------------------------
(***************************************************************************)
(* Types: the theorem.                                                     *)
(***************************************************************************)
LEMMA ReceiveTypeInv ==
  ASSUME TypeInv, NEW t \in Thread, NEW i \in Id,
         NEW l \in {"create", "command", "remove"}, Receive(t, i, l)
  PROVE  TypeInv'
<1> DEFINE r == [thread[t] EXCEPT !.pc = l, !.id = i]
<1>1. thread' = [thread EXCEPT ![t] = r]
  BY DEF Receive, TypeInv, ThreadOK
<1>2. thread[t] \in Request
  BY DEF TypeInv, ThreadOK
<1>3. l \in Label /\ l \notin Starting \cup Stopping \cup Last
  BY DEF Label, Starting, Stopping, Last
<1>4. r \in Request /\ r.pc = l /\ r.id = i
  BY <1>2, <1>3 DEF Request
<1> HIDE DEF r
<1>5. RequestOK(r)
  BY <1>3, <1>4 DEF RequestOK
<1>6. QED
  BY <1>1, <1>5, OneRequest DEF Receive, TypeInv, StateOK

LEMMA MongodTypeInv ==
  ASSUME TypeInv, NEW p \in Pid, Boot(p) \/ BootFails(p) \/ Exit(p) \/ Crash(p)
  PROVE  TypeInv'
<1> USE DEF TypeInv
<1>1. ThreadOK'
  BY DEF ThreadOK, Boot, BootFails, Exit, Crash
<1>2. os[p] \in Process /\ os[p].obj \in Obj
  BY DEF StateOK, Boot, BootFails, Exit, Crash
<1>3. Gone \in Process /\ Gone.st = "gone"
  BY DEF Gone, Process
<1>4. CASE Boot(p)
  <2> DEFINE r == [os[p] EXCEPT !.st = "up"]
  <2>1. r \in Process /\ r.obj = os[p].obj
    BY <1>2 DEF Process
  <2>2. os' = [os EXCEPT ![p] = r]
    BY <1>4 DEF Boot, StateOK
  <2> HIDE DEF r
  <2>3. QED
    BY <1>1, <1>2, <1>4, <2>1, <2>2 DEF Boot, StateOK
<1>5. CASE BootFails(p) \/ Exit(p)
  BY <1>1, <1>3, <1>5 DEF BootFails, Exit, StateOK
<1>6. CASE Crash(p)
  <2> DEFINE o == os[p].obj
             r == [server[o] EXCEPT !.lock = server[o].data]
  <2>1. r \in ServerRecord
    BY <1>2 DEF StateOK, ServerRecord
  <2>2. server' = [server EXCEPT ![o] = r]
    BY <1>2, <1>6 DEF Crash, StateOK
  <2> HIDE DEF r
  <2>3. QED
    BY <1>1, <1>2, <1>3, <1>6, <2>1, <2>2 DEF Crash, StateOK
<1>7. QED
  BY <1>4, <1>5, <1>6

\* The end of a repair touches nothing but the two fields about it.
LEMMA RepairEndsOK ==
  ASSUME TypeInv, NEW u \in Obj, RepairEnds(u)
  PROVE  /\ TypeInv' /\ UNCHANGED <<storage, os, thread, failed, lost>>
         /\ \A o \in Obj : /\ server'[o].proc = server[o].proc
                          /\ server'[o].login = server[o].login
                          /\ server'[o].restart_required
                               = server[o].restart_required
                          /\ server'[o].auth = server[o].auth
                          /\ server'[o].conf = server[o].conf
                          /\ server'[o].data = server[o].data
                          /\ server'[o].kept = server[o].kept
<1>1. PICK ok \in BOOLEAN :
        server' = [server EXCEPT ![u].repair = IF ok THEN "done" ELSE "none",
                                 ![u].lock = @ /\ ~ok]
  BY DEF RepairEnds
<1>2. UNCHANGED <<storage, os, thread, failed, lost>>
  BY DEF RepairEnds
<1> DEFINE w == IF ok THEN "done" ELSE "none"
           k == server[u].lock /\ ~ok
           r == [server[u] EXCEPT !.repair = w, !.lock = k]
<1>3. server \in [Obj -> ServerRecord] /\ server[u] \in ServerRecord
  BY DEF TypeInv, StateOK
<1>4. w \in {"done", "none"} /\ k \in BOOLEAN
  OBVIOUS
<1>5. server' = [server EXCEPT ![u] = r]
  BY <1>1, <1>3 DEF ServerRecord
<1> HIDE DEF w, k
<1>6. /\ r \in ServerRecord
      /\ r.proc = server[u].proc /\ r.login = server[u].login
      /\ r.restart_required = server[u].restart_required
      /\ r.auth = server[u].auth /\ r.conf = server[u].conf
      /\ r.data = server[u].data /\ r.kept = server[u].kept
  BY <1>3, <1>4 DEF ServerRecord
<1> HIDE DEF r
<1>7. server' \in [Obj -> ServerRecord]
  BY <1>3, <1>5, <1>6
<1>8. TypeInv'
  BY <1>2, <1>7 DEF TypeInv, StateOK, ThreadOK
<1>9. QED
  BY <1>2, <1>3, <1>5, <1>6, <1>8

LEMMA NextTypeInv ==
  ASSUME TypeInv, [Next]_vars
  PROVE  TypeInv'
<1>1. ASSUME NEW t \in Thread, Step(t)
      PROVE  TypeInv'
  BY <1>1, StepRequest, StepStart, StepStop DEF Step, Repairs
<1>2. CASE UNCHANGED vars
  BY <1>2 DEF vars, TypeInv, ThreadOK, StateOK
<1>3. QED
  BY <1>1, <1>2, ReceiveTypeInv, MongodTypeInv, RepairEndsOK DEF Next

\* Whatever requests overlap and whatever fails, the registry, the servers,
\* the processes and the requests are what the code can make of them; in
\* particular start() and stop() always find something to return to.
THEOREM TypeCorrect == Spec => []TypeOK
<1>1. TypeInv /\ [Next]_vars => TypeInv'
  BY NextTypeInv
<1>2. TypeInv => TypeOK
  BY DEF TypeInv, ThreadOK, StateOK, TypeOK
<1>3. QED
  BY InitTypeInv, <1>1, <1>2, PTL DEF Spec

-----------------------------------------------------------------------------
(***************************************************************************)
(* A secured server stays secured.                                         *)
(***************************************************************************)
\* A login that needs no restart any more has its authentication configured.
SecuredConf ==
  \A o \in Obj : server[o].login /\ ~server[o].restart_required
               => server[o].auth

\* Only a new Server and the rewriting of the first config file touch the
\* three fields, and each leaves them as the fact wants them.
LEMMA KeepsSecuredConf ==
  ASSUME TypeInv, SecuredConf, [Next]_vars
  PROVE  SecuredConf'
<1> DEFINE Same == \A o \in Obj :
             /\ server'[o].login = server[o].login
             /\ server'[o].restart_required = server[o].restart_required
             /\ server'[o].auth = server[o].auth
<1>1. server \in [Obj -> ServerRecord]
  BY DEF TypeInv, StateOK
<1>2. Same => SecuredConf'
  BY DEF SecuredConf
<1>3. UNCHANGED server => Same
  OBVIOUS
<1>4. ASSUME NEW t \in Thread, Step(t)
      PROVE  SecuredConf'
  <2>1. ASSUME NEW o \in Obj, NEW a \in BOOLEAN, NEW b \in BOOLEAN,
               Construct(t, o, a, b)
        PROVE  SecuredConf'
    BY <1>1, <2>1 DEF Construct, NewServer, SecuredConf
  <2>2. CASE Secure(t)
    BY <1>1, <2>2 DEF Secure, SecuredConf, ServerRecord
  <2>3. CASE Cleanup(t)
    BY <1>1, <1>2, <2>3, CleanupFields
  <2>4. CASE Repairs(t)
    BY <1>1, <1>2, <2>4 DEF Repairs, Repair, Repaired, ServerRecord
  <2>5. CASE WaitConnects(t)
    BY <1>1, <1>2, <2>5 DEF WaitConnects, ServerRecord
  <2>6. CASE AddUsers(t)
    BY <1>1, <1>2, <2>6 DEF AddUsers, ServerRecord
  <2>7. CASE Rewrite(t)
    BY <1>1, <1>2, <2>7 DEF Rewrite, ServerRecord
  <2>8. CASE \/ Create(t) \/ ConstructFails(t) \/ Register(t) \/ Store(t)
             \/ \E m \in {"start", "stop", "restart"} : Command(t, m)
             \/ Remove(t)
    BY <1>2, <1>3, <2>8 DEF Create, ConstructFails, Register, Store, Command,
                          Remove
  <2>9. CASE \/ Start(t) \/ RepairFails(t) \/ \E p \in Pid : Spawn(t, p)
             \/ SpawnFails(t) \/ WaitDies(t) \/ WaitTimesOut(t)
             \/ ReapChild(t) \/ IsMaster(t) \/ IsMasterFails(t)
             \/ AddUsersFails(t)
    BY <1>2, <1>3, <2>9 DEF Start, RepairFails, Spawn, SpawnFails, WaitDies,
       WaitTimesOut, ReapChild, IsMaster, IsMasterFails, AddUsersFails
  <2>10. CASE \/ Stop(t) \/ Shutdown(t) \/ ShutdownFails(t) \/ Awaited(t)
              \/ AwaitTimesOut(t) \/ Kill(t) \/ Reap(t)
    BY <1>2, <1>3, <2>10 DEF Stop, Shutdown, ShutdownFails, Awaited,
       AwaitTimesOut, Kill, Reap
  <2>11. QED
    BY <1>4, <2>1, <2>2, <2>3, <2>4, <2>5, <2>6, <2>7, <2>8, <2>9, <2>10
       DEF Step, Repairs
<1>5. ASSUME NEW p \in Pid, Boot(p) \/ BootFails(p) \/ Exit(p) \/ Crash(p)
      PROVE  SecuredConf'
  <2>1. CASE Crash(p)
    BY <1>1, <1>2, <2>1 DEF Crash, ServerRecord
  <2>2. CASE Boot(p) \/ BootFails(p) \/ Exit(p)
    BY <1>2, <1>3, <2>2 DEF Boot, BootFails, Exit
  <2>3. QED
    BY <1>5, <2>1, <2>2
<1>6. ASSUME NEW t \in Thread, NEW i \in Id,
             NEW l \in {"create", "command", "remove"}, Receive(t, i, l)
      PROVE  SecuredConf'
  BY <1>2, <1>3, <1>6 DEF Receive
<1>7. CASE UNCHANGED vars
  BY <1>2, <1>3, <1>7 DEF vars
<1>9. ASSUME NEW o \in Obj, RepairEnds(o)
      PROVE  SecuredConf'
  BY <1>2, <1>9, RepairEndsOK
<1>8. QED
  BY <1>4, <1>5, <1>6, <1>7, <1>9 DEF Next

\* What one step may do to a process that was not there.
SecureStart(p) ==
  ~Alive(p) /\ os'[p].st = "boot" =>
    \/ os'[p].auth
    \/ server[os'[p].obj].login => server[os'[p].obj].restart_required

\* Only Popen makes a process, from the config file of its server.
LEMMA StartsSecured ==
  ASSUME TypeInv, SecuredConf, [Next]_vars, NEW p \in Pid
  PROVE  SecureStart(p)
<1>1. /\ os \in [Pid -> Process] /\ p # NoPid
  BY ServersAssumption DEF TypeInv, StateOK
<1>2. UNCHANGED os => SecureStart(p)
  BY <1>1 DEF SecureStart, Alive
<1>3. ASSUME NEW q \in Pid \cup {NoPid}, os' = Terminated(q)
      PROVE  SecureStart(p)
  BY <1>1, <1>3 DEF Terminated, SecureStart, Alive, Process
<1>4. ASSUME NEW t \in Thread, Step(t)
      PROVE  SecureStart(p)
  <2>1. ASSUME NEW q \in Pid, Spawn(t, q)
        PROVE  SecureStart(p)
    <3>1. Self(t) \in Obj
      BY <2>1, AtWork DEF Spawn, At, Starting, TypeInv
    <3>2. Me(t).login /\ ~Me(t).restart_required => Me(t).auth
      BY <3>1 DEF SecuredConf, Me
    <3>3. CASE p = q
      BY <1>1, <2>1, <3>2, <3>3 DEF Spawn, SecureStart, Me
    <3>4. CASE p # q
      BY <1>1, <2>1, <3>4 DEF Spawn, SecureStart, Alive
    <3>5. QED
      BY <3>3, <3>4
  <2>2. CASE WaitTimesOut(t)
    <3>1. thread[t].child \in Pid \cup {NoPid}
      BY DEF TypeInv, ThreadOK, Request
    <3>2. QED
      BY <1>3, <2>2, <3>1 DEF WaitTimesOut
  <2>3. CASE Kill(t)
    <3>1. Self(t) \in Obj
      BY <2>3, AtWork DEF Kill, At, Stopping, TypeInv
    <3>2. Me(t).proc \in Pid \cup {NoPid}
      BY <3>1 DEF Me, TypeInv, StateOK, ServerRecord
    <3>3. QED
      BY <1>3, <2>3, <3>2 DEF Kill
  <2>4. CASE Shutdown(t)
    BY <1>1, <2>4 DEF Shutdown, SecureStart, Serving, LiveOf, Alive, Process
  <2>5. CASE \/ Create(t)
             \/ \E o \in Obj, a, b \in BOOLEAN : Construct(t, o, a, b)
             \/ ConstructFails(t) \/ Register(t) \/ Store(t)
             \/ \E m \in {"start", "stop", "restart"} : Command(t, m)
             \/ Remove(t) \/ Cleanup(t)
    BY <1>2, <2>5 DEF Create, Construct, ConstructFails, Register, Store,
                      Command, Remove, Cleanup
  <2>6. CASE \/ Start(t) \/ Repairs(t) \/ RepairFails(t) \/ SpawnFails(t)
             \/ WaitConnects(t) \/ WaitDies(t) \/ ReapChild(t)
             \/ IsMaster(t) \/ IsMasterFails(t) \/ AddUsers(t)
             \/ AddUsersFails(t) \/ Secure(t) \/ Rewrite(t)
    BY <1>2, <2>6 DEF Start, Repairs, Repair, Repaired, RepairFails,
                      SpawnFails, WaitConnects,
       WaitDies, ReapChild, IsMaster, IsMasterFails, AddUsers, AddUsersFails,
       Secure, Rewrite
  <2>7. CASE \/ Stop(t) \/ ShutdownFails(t) \/ Awaited(t)
             \/ AwaitTimesOut(t) \/ Reap(t)
    BY <1>2, <2>7 DEF Stop, ShutdownFails, Awaited, AwaitTimesOut, Reap
  <2>8. QED
    BY <1>4, <2>1, <2>2, <2>3, <2>4, <2>5, <2>6, <2>7 DEF Step, Repairs
<1>5. ASSUME NEW q \in Pid, Boot(q) \/ BootFails(q) \/ Exit(q) \/ Crash(q)
      PROVE  SecureStart(p)
  BY <1>1, <1>5 DEF Boot, BootFails, Exit, Crash, SecureStart, Alive, Gone,
                    Process
<1>6. ASSUME NEW t \in Thread, NEW i \in Id,
             NEW l \in {"create", "command", "remove"}, Receive(t, i, l)
      PROVE  SecureStart(p)
  BY <1>2, <1>6 DEF Receive
<1>7. CASE UNCHANGED vars
  BY <1>2, <1>7 DEF vars
<1>9. ASSUME NEW o \in Obj, RepairEnds(o)
      PROVE  SecureStart(p)
  BY <1>2, <1>9 DEF RepairEnds
<1>8. QED
  BY <1>4, <1>5, <1>6, <1>7, <1>9 DEF Next

\* No server has a login at first.
LEMMA InitSecured == Init => SecuredConf
<1>1. ASSUME Init, NEW o \in Obj
      PROVE  ~server[o].login
  BY <1>1 DEF Init, NewServer
<1>2. QED
  BY <1>1 DEF SecuredConf

\* Once the restart with authentication of a server that has a login is over,
\* no start and no restart, by whatever request and whatever else overlaps it,
\* makes a process of it without authentication (Server.start, Server.restart).
THEOREM StaysSecured == Spec => SecuredForGood
<1>1. Init => SecuredConf
  BY InitSecured
<1>2. TypeInv /\ SecuredConf /\ [Next]_vars => TypeInv' /\ SecuredConf'
  BY NextTypeInv, KeepsSecuredConf
<1>3. TypeInv /\ SecuredConf /\ [Next]_vars => \A p \in Pid : SecureStart(p)
  BY StartsSecured
<1>4. TypeInv /\ SecuredConf /\ [Next]_vars =>
        [\A p \in Pid :
           ~Alive(p) /\ os'[p].st = "boot" =>
             \/ os'[p].auth
             \/ server[os'[p].obj].login =>
                  server[os'[p].obj].restart_required]_vars
  BY <1>3 DEF SecureStart
<1>5. QED
  BY InitTypeInv, <1>1, <1>2, <1>4, PTL DEF Spec, SecuredForGood

-----------------------------------------------------------------------------
(***************************************************************************)
(* Clients that wait for their replies: who has which server.              *)
(*                                                                         *)
(* A request under way has its id for itself, and so the server that is    *)
(* stored there: start() and stop() of one server never overlap.  How a    *)
(* request will end, Aim, says where its server is meanwhile.              *)
(***************************************************************************)
Working == Starting \cup Stopping \cup Last

\* The label a request ends with: where its outermost call returns to.
Aim(r) == IF r.stack = <<>> THEN r.pc ELSE r.stack[Len(r.stack)]

\* A request has a server only while it works on it, starts only what it
\* stores afterwards, and has a process in hand only where the code does.
Tidy(r) ==
  /\ r.pc = "idle" => r = Idle
  /\ r.pc \notin Working => r.self = NoObj
  /\ r.pc \notin Starting \cup Stopping => r.stack = <<>>
  /\ r.pc \in Starting => Aim(r) \in {"register", "store"}
  /\ r.pc \in Stopping /\ r.stack \in Deep => Aim(r) \in {"register", "store"}
  /\ r.pc \notin {"wait", "reap_child", "reap"} => r.child = NoPid
  /\ r.pc \in {"wait", "reap_child"} => r.child \in Pid

Kept == Registered \cup InHand

Apart ==
  /\ \A t, u \in Thread : t # u /\ thread[t].id # NoId =>
       thread[t].id # thread[u].id
  /\ \A t, u \in Thread : t # u /\ thread[t].self # NoObj =>
       thread[t].self # thread[u].self
  /\ \A t \in Thread, i \in Id :
       thread[t].self # NoObj /\ storage[i] = thread[t].self => i = thread[t].id
  /\ \A i, j \in Id : storage[i] = storage[j] /\ storage[i] # NoObj => i = j
  /\ lost \cap Kept = {}

\* Where the server of a request is, or that its id is free.
PlacedAt(r, s) ==
  /\ Aim(r) \in {"construct", "register", "cleanup"} => s[r.id] = NoObj
  /\ Aim(r) = "store" => s[r.id] = r.self

Order ==
  /\ \A t \in Thread : Tidy(thread[t]) /\ PlacedAt(thread[t], storage)
  /\ Apart

\* The labels of the stack.
LEMMA ShallowAim ==
  ASSUME NEW l
  PROVE  /\ <<l>> # <<>> /\ Len(<<l>>) = 1 /\ <<l>>[1] = l
         /\ Head(<<l>>) = l /\ Tail(<<l>>) = <<>>
OBVIOUS

LEMMA DeepAim ==
  ASSUME NEW m, NEW l
  PROVE  /\ <<m, l>> # <<>> /\ Len(<<m, l>>) = 2 /\ <<m, l>>[2] = l
         /\ Head(<<m, l>>) = m /\ Tail(<<m, l>>) = <<l>>
OBVIOUS

\* What return and call do to the aim.
LEMMA ShallowEnd ==
  ASSUME NEW s \in Shallow
  PROVE  /\ s # <<>> /\ Head(s) = s[Len(s)] /\ Head(s) \in Last
         /\ Tail(s) = <<>>
<1>1. PICK l \in Last : s = <<l>>
  BY DEF Shallow
<1>2. QED
  BY <1>1, ShallowAim

LEMMA DeepEnd ==
  ASSUME NEW s \in Deep
  PROVE  /\ s # <<>> /\ Tail(s) # <<>> /\ s[Len(s)] = Tail(s)[Len(Tail(s))]
         /\ Tail(s) \in Shallow /\ Head(s) \in {"secure", "rewrite"}
<1>1. PICK m \in {"secure", "rewrite"}, l \in Last : s = <<m, l>>
  BY DEF Deep
<1>2. /\ s # <<>> /\ Tail(s) = <<l>> /\ s[Len(s)] = l /\ Head(s) = m
  BY <1>1, DeepAim
<1>3. <<l>> # <<>> /\ <<l>>[Len(<<l>>)] = l /\ <<l>> \in Shallow
  BY ShallowAim DEF Shallow
<1>4. QED
  BY <1>2, <1>3

LEMMA CallEnd ==
  ASSUME NEW s \in Shallow
  PROVE  LET c == <<"secure">> \o s
         IN  /\ c \in Deep /\ c # <<>> /\ Head(c) = "secure"
             /\ c[Len(c)] = s[Len(s)]
<1>1. PICK l \in Last : s = <<l>>
  BY DEF Shallow
<1> DEFINE c == <<"secure">> \o s
<1>2. c \in Deep
  BY CallSecure
<1>3. PICK m \in {"secure", "rewrite"}, k \in Last : c = <<m, k>>
  BY <1>2 DEF Deep
<1>4. Len(c) = 2 /\ c[1] = "secure" /\ c[2] = l
  <2> DEFINE S == {"secure", l}
  <2>1. <<"secure">> \in Seq(S) /\ <<l>> \in Seq(S)
    OBVIOUS
  <2>2. Len(<<"secure">>) = 1 /\ Len(<<l>>) = 1
    OBVIOUS
  <2> HIDE DEF S
  <2>3. QED
    BY <1>1, <2>1, <2>2, ConcatProperties
<1>5. Head(c) = m /\ c # <<>>
  BY <1>3, DeepAim
<1>6. m = "secure"
  <2>1. <<m, k>>[1] = m
    OBVIOUS
  <2> HIDE DEF c
  <2>2. QED
    BY <1>3, <1>4, <2>1
<1>7. s[Len(s)] = l
  BY <1>1, ShallowAim
<1> HIDE DEF c
<1>8. c \in Deep /\ c # <<>> /\ Head(c) = "secure" /\ c[Len(c)] = s[Len(s)]
  BY <1>2, <1>4, <1>5, <1>6, <1>7
<1>9. QED
  BY <1>8 DEF c

LEMMA LastStrings == Last \cap {"idle", "create", "construct", "command", "remove"} = {}
BY DEF Last

\* A request that works on a server ends with one of three labels, and any
\* other is where it says.
LEMMA AimOf ==
  ASSUME NEW r, RequestOK(r), Tidy(r)
  PROVE  /\ r.pc \in Starting \cup Stopping => Aim(r) \in Last /\ r.stack # <<>>
         /\ r.pc \notin Starting \cup Stopping => Aim(r) = r.pc
<1>1. ASSUME r.pc \in Starting \cup Stopping
      PROVE  Aim(r) \in Last /\ r.stack # <<>>
  <2>1. r.stack \in Shallow \cup Deep
    BY <1>1 DEF RequestOK
  <2>2. CASE r.stack \in Shallow
    BY <2>2, ShallowEnd DEF Aim
  <2>3. CASE r.stack \in Deep
    <3>1. /\ r.stack # <<>>
          /\ r.stack[Len(r.stack)] = Tail(r.stack)[Len(Tail(r.stack))]
          /\ Tail(r.stack) \in Shallow
      BY <2>3, DeepEnd
    <3>2. r.stack[Len(r.stack)] \in Last
      BY <3>1, ShallowEnd
    <3>3. QED
      BY <3>1, <3>2 DEF Aim
  <2>4. QED
    BY <2>1, <2>2, <2>3
<1>2. ASSUME r.pc \notin Starting \cup Stopping
      PROVE  Aim(r) = r.pc
  BY <1>2 DEF Tidy, Aim
<1>3. QED
  BY <1>1, <1>2

\* Raise asks whether the request is a create: whether it would register.
LEMMA CreatingAim ==
  ASSUME TypeInv, NEW t \in Thread, thread[t].pc \in Starting \cup Stopping
  PROVE  Creating(t) <=> Aim(thread[t]) = "register"
<1> DEFINE s == thread[t].stack
<1>1. s \in Shallow \cup Deep
  BY AtWork DEF TypeInv
<1>2. ASSUME NEW l \in Last, s = <<l>>
      PROVE  Creating(t) <=> Aim(thread[t]) = "register"
  <2>1. DOMAIN s = {1} /\ s[1] = l
    BY <1>2
  <2>2. s # <<>> /\ s[Len(s)] = l
    BY <1>2, ShallowAim
  <2> HIDE DEF s
  <2>3. Creating(t) <=> \E k \in DOMAIN s : s[k] = "register"
    BY DEF Creating, s
  <2>4. Aim(thread[t]) = l
    BY <2>2 DEF Aim, s
  <2>5. QED
    BY <2>1, <2>3, <2>4
<1>3. ASSUME NEW m \in {"secure", "rewrite"}, NEW l \in Last, s = <<m, l>>
      PROVE  Creating(t) <=> Aim(thread[t]) = "register"
  <2>1. DOMAIN s = {1, 2} /\ s[1] = m /\ s[2] = l
    BY <1>3
  <2>2. s # <<>> /\ s[Len(s)] = l
    BY <1>3, DeepAim
  <2> HIDE DEF s
  <2>3. Creating(t) <=> \E k \in DOMAIN s : s[k] = "register"
    BY DEF Creating, s
  <2>4. Aim(thread[t]) = l
    BY <2>2 DEF Aim, s
  <2>5. QED
    BY <2>1, <2>3, <2>4
<1>4. QED
  BY <1>1, <1>2, <1>3 DEF Shallow, Deep

\* One request changes and nothing is stored or popped: it must not take an
\* id or a server of another one.
LEMMA OneOrder ==
  ASSUME TypeInv, Order, NEW t \in Thread, NEW r, RequestOK(r), Tidy(r),
         thread' = [thread EXCEPT ![t] = r], storage' = storage,
         lost' \cap Kept' = {},
         r.id # NoId => \A u \in Thread \ {t} : thread[u].id # r.id,
         r.self # NoObj =>
           /\ \A u \in Thread \ {t} : thread[u].self # r.self
           /\ \A i \in Id : storage[i] = r.self => i = r.id,
         PlacedAt(r, storage)
  PROVE  Order'
<1>1. thread'[t] = r /\ \A u \in Thread \ {t} : thread'[u] = thread[u]
  BY DEF TypeInv, ThreadOK
<1>2. ASSUME NEW u \in Thread
      PROVE  Tidy(thread'[u]) /\ PlacedAt(thread'[u], storage)
  BY <1>1 DEF Order
<1>3. \A u, v \in Thread : u # v /\ thread'[u].id # NoId =>
        thread'[u].id # thread'[v].id
  BY <1>1 DEF Order, Apart
<1>4. \A u, v \in Thread : u # v /\ thread'[u].self # NoObj =>
        thread'[u].self # thread'[v].self
  BY <1>1 DEF Order, Apart
<1>5. \A u \in Thread, i \in Id :
        thread'[u].self # NoObj /\ storage[i] = thread'[u].self =>
          i = thread'[u].id
  BY <1>1 DEF Order, Apart
<1>6. QED
  BY <1>2, <1>3, <1>4, <1>5 DEF Order, Apart

\* The reply: the request has nothing any more.
LEMMA IdleTidy ==
  /\ Tidy(Idle) /\ RequestOK(Idle) /\ Aim(Idle) = "idle"
  /\ Idle.self = NoObj /\ Idle.id = NoId /\ Idle.child = NoPid
  /\ Idle.pc = "idle"
BY LabelsOK
   DEF Idle, Tidy, Aim, Working, RequestOK, Request, Stacks

\* What is kept after a reply.
LEMMA ReplyHands ==
  ASSUME TypeInv, Order, NEW t \in Thread, Reply(t)
  PROVE  /\ InHand' = InHand \ {thread[t].self}
         /\ thread'[t] = Idle /\ \A u \in Thread \ {t} : thread'[u] = thread[u]
<1>1. thread'[t] = Idle /\ \A u \in Thread \ {t} : thread'[u] = thread[u]
  BY DEF TypeInv, ThreadOK, Reply
<1>2. ASSUME NEW o \in Obj
      PROVE  o \in InHand' <=> o \in InHand /\ o # thread[t].self
  BY <1>1, IdleTidy, ServersAssumption DEF InHand, Order, Apart
<1>3. QED
  BY <1>1, <1>2 DEF InHand

LEMMA ReplyOrder ==
  ASSUME TypeInv, Order, NEW t \in Thread, Reply(t), UNCHANGED <<storage, lost>>
  PROVE  Order'
<1>1. lost' \cap Kept' = {}
  BY ReplyHands DEF Order, Apart, Kept, Registered
<1>2. PlacedAt(Idle, storage)
  BY IdleTidy DEF PlacedAt
<1>3. QED
  BY <1>1, <1>2, IdleTidy, OneOrder DEF Reply

\* A create that raises loses the server it has made; nobody else has it.
LEMMA RaiseOrder ==
  ASSUME TypeInv, Order, NEW t \in Thread, Raise(t), storage' = storage,
         thread[t].pc \in Starting
  PROVE  Order'
<1>1. Self(t) \in Obj /\ thread[t].self = Self(t) /\ thread[t].id \in Id
  BY AtWork DEF TypeInv
<1>2. Self(t) \notin InHand' /\ Kept' \subseteq Kept
  BY <1>1, ReplyHands DEF Raise, Kept, Registered
<1>3. ASSUME Creating(t)
      PROVE  Self(t) \notin Registered'
  <2>1. Aim(thread[t]) = "register"
    BY <1>3, CreatingAim
  <2>2. storage[thread[t].id] = NoObj
    BY <2>1 DEF Order, PlacedAt
  <2>3. \A i \in Id : storage[i] # Self(t)
    BY <1>1, <2>2, ServersAssumption DEF Order, Apart
  <2>4. QED
    BY <2>3 DEF Registered
<1>4. lost' \cap Kept' = {}
  BY <1>2, <1>3 DEF Order, Apart, Kept, Raise
<1>5. PlacedAt(Idle, storage)
  BY IdleTidy DEF PlacedAt
<1>6. QED
  BY <1>4, <1>5, IdleTidy, OneOrder DEF Reply, Raise

\* A client that waits uses an id that no request under way has.
LEMMA ReceiveOrder ==
  ASSUME TypeInv, Order, Serial, NEW t \in Thread, NEW i \in Id,
         NEW l \in {"create", "command", "remove"}, Receive(t, i, l)
  PROVE  Order' /\ Kept' = Kept
<1> DEFINE r == [thread[t] EXCEPT !.pc = l, !.id = i]
<1>1. thread[t] = Idle
  BY DEF Receive, At, Order, Tidy
<1>2. thread' = [thread EXCEPT ![t] = r]
  BY DEF Receive, TypeInv, ThreadOK
<1>3. l \in Label /\ l \notin Working \cup {"construct"} \cup Last /\ l # "idle"
      /\ l \notin {"wait", "reap_child", "reap"}
  BY DEF Label, Starting, Stopping, Last, Working
<1>4. /\ r.pc = l /\ r.id = i /\ r.self = NoObj /\ r.stack = <<>>
      /\ r.child = NoPid
  <2>1. Idle.stack = <<>>
    BY DEF Idle
  <2>2. /\ thread[t].self = NoObj /\ thread[t].stack = <<>>
        /\ thread[t].child = NoPid /\ thread[t] \in Request
    BY <1>1, <2>1, IdleTidy DEF TypeInv, ThreadOK
  <2>3. QED
    BY <2>2 DEF Request
<1>5. r \in Request
  BY <1>3 DEF Request, TypeInv, ThreadOK
<1> HIDE DEF r
<1>6. RequestOK(r) /\ Tidy(r) /\ Aim(r) = l
  BY <1>3, <1>4, <1>5 DEF RequestOK, Tidy, Aim, Working
<1>7. thread'[t].self = NoObj /\ \A u \in Thread \ {t} : thread'[u] = thread[u]
  BY <1>2, <1>4 DEF TypeInv, ThreadOK
<1>8. thread[t].self = NoObj
  BY <1>1 DEF Idle
<1>9. Kept' = Kept
  BY <1>7, <1>8 DEF Kept, InHand, Registered, Receive
<1>10. \A u \in Thread \ {t} : thread[u].id # r.id
  BY <1>4 DEF Receive
<1>11. PlacedAt(r, storage)
  BY <1>3, <1>6 DEF PlacedAt, Last
<1>12. lost' \cap Kept' = {}
  BY <1>9 DEF Receive, Order, Apart
<1>13. QED
  BY <1>2, <1>4, <1>6, <1>9, <1>10, <1>11, <1>12, OneOrder DEF Receive

\* A request that gets a server has not had one.
LEMMA WithoutServer ==
  ASSUME TypeInv, Order, NEW t \in Thread, thread[t].pc \notin Working,
         thread[t].pc # "idle"
  PROVE  /\ thread[t].self = NoObj /\ thread[t].stack = <<>>
         /\ thread[t].child = NoPid /\ thread[t] \in Request
         /\ thread[t].id \in Id /\ thread[t].id # NoId
         /\ Aim(thread[t]) = thread[t].pc
         /\ \A u \in Thread \ {t} : thread[u].id # thread[t].id
<1>1. thread[t].pc \notin {"wait", "reap_child", "reap"}
  BY DEF Working, Starting, Stopping
<1>2. QED
  BY <1>1, ServersAssumption
     DEF Order, Tidy, TypeInv, ThreadOK, RequestOK, Working, Aim, Apart

LEMMA CreateOrder ==
  ASSUME TypeInv, Order, NEW t \in Thread, Create(t)
  PROVE  Order'
<1>1. thread[t].pc = "create" /\ "create" \notin Working
      /\ "construct" \notin Working /\ "construct" \in Label
  BY DEF Create, At, Working, Starting, Stopping, Last, Label
<1>2. CASE Reply(t)
  BY <1>2, ReplyOrder DEF Create
<1>3. CASE storage[thread[t].id] = NoObj /\ Goto(t, "construct")
  <2> DEFINE r == [thread[t] EXCEPT !.pc = "construct"]
  <2>1. thread' = [thread EXCEPT ![t] = r]
    BY <1>3 DEF Goto, TypeInv, ThreadOK
  <2>2. /\ r.pc = "construct" /\ r.id = thread[t].id /\ r.self = NoObj
        /\ r.stack = <<>> /\ r.child = NoPid /\ r \in Request /\ r.id \in Id
    BY <1>1, WithoutServer DEF Request
  <2> HIDE DEF r
  <2>3. RequestOK(r) /\ Tidy(r) /\ Aim(r) = "construct"
    BY <1>1, <2>2 DEF RequestOK, Tidy, Aim, Working, Starting, Stopping
  <2>4. PlacedAt(r, storage)
    BY <1>3, <2>2, <2>3 DEF PlacedAt
  <2>5. thread'[t].self = NoObj /\ thread[t].self = NoObj
        /\ \A u \in Thread \ {t} : thread'[u] = thread[u]
    BY <1>1, <2>1, <2>2, WithoutServer DEF TypeInv, ThreadOK
  <2>6. lost' \cap Kept' = {}
    BY <2>5 DEF Create, Order, Apart, Kept, Registered, InHand
  <2>7. \A u \in Thread \ {t} : thread[u].id # r.id
    BY <1>1, <2>2, WithoutServer
  <2>8. QED
    BY <2>1, <2>2, <2>3, <2>4, <2>6, <2>7, OneOrder DEF Create
<1>4. QED
  BY <1>2, <1>3 DEF Create

LEMMA ConstructOrder ==
  ASSUME TypeInv, Order, NEW t \in Thread, NEW o \in Obj, NEW a \in BOOLEAN,
         NEW b \in BOOLEAN, Construct(t, o, a, b)
  PROVE  /\ Order' /\ Kept' = Kept \cup {o}
         /\ thread'[t].pc \in {"start", "register"} /\ thread'[t].self = o
         /\ \A u \in Thread \ {t} : thread'[u] = thread[u]
<1> DEFINE l == IF b THEN "start" ELSE "register"
           s == IF b THEN <<"register">> ELSE <<>>
           r == [thread[t] EXCEPT !.self = o, !.pc = l, !.stack = s]
<1>1. thread[t].pc = "construct" /\ "construct" \notin Working
  BY DEF Construct, At, Working, Starting, Stopping, Last
<1>2. thread' = [thread EXCEPT ![t] = r]
  BY DEF Construct, TypeInv, ThreadOK
<1>3. /\ l \in {"start", "register"} /\ l \in Label
      /\ l = "start" => s \in Shallow /\ s # <<>> /\ s[Len(s)] = "register"
      /\ l = "register" => s = <<>>
      /\ s \in Stacks
  BY ShallowAim DEF Label, Stacks, Shallow, Last
<1> HIDE DEF l, s
<1>4. /\ r \in Request /\ r.pc = l /\ r.self = o /\ r.stack = s
      /\ r.id = thread[t].id /\ r.id \in Id /\ r.child = NoPid
  BY <1>1, <1>3, WithoutServer DEF Request
<1> HIDE DEF r
<1>5. Aim(r) = "register"
  BY <1>3, <1>4 DEF Aim
<1>6. RequestOK(r) /\ Tidy(r)
  BY <1>3, <1>4, <1>5
     DEF RequestOK, Tidy, Working, Starting, Stopping, Last
<1>7. PlacedAt(r, storage)
  BY <1>1, <1>4, <1>5, WithoutServer DEF PlacedAt, Order
<1>8. /\ thread'[t] = r /\ \A u \in Thread \ {t} : thread'[u] = thread[u]
      /\ thread[t].self = NoObj
  BY <1>1, <1>2, WithoutServer DEF TypeInv, ThreadOK
<1>9. Kept' = Kept \cup {o}
  <2>1. Registered' = Registered
    BY DEF Registered, Construct
  <2>2. InHand' = InHand \cup {o}
    BY <1>4, <1>8, ServersAssumption DEF InHand, Self
  <2>3. QED
    BY <2>1, <2>2 DEF Kept
<1>10. lost' \cap Kept' = {}
  BY <1>9 DEF Construct, Order, Apart
<1>11. /\ \A u \in Thread \ {t} : thread[u].self # r.self
       /\ \A i \in Id : storage[i] # r.self
  BY <1>4 DEF Construct, FreshObj, Registered, InHand
<1>12. \A u \in Thread \ {t} : thread[u].id # r.id
  BY <1>1, <1>4, WithoutServer
<1>13. Order'
  BY <1>2, <1>6, <1>7, <1>10, <1>11, <1>12, OneOrder DEF Construct
<1>14. QED
  BY <1>3, <1>4, <1>8, <1>9, <1>13

\* A command gets the server that is stored under its id: no other request has
\* it, because it would have the id.
LEMMA CommandOrder ==
  ASSUME TypeInv, Order, NEW t \in Thread, NEW m \in {"start", "stop", "restart"},
         Command(t, m)
  PROVE  /\ Order' /\ Kept' = Kept
         /\ thread'[t].pc \in {"start", "stop", "idle"}
         /\ \A u \in Thread \ {t} : thread'[u] = thread[u]
<1> DEFINE o == storage[thread[t].id]
           l == IF m = "restart" THEN "stop" ELSE m
           s == IF m = "restart" THEN <<"rewrite", "store">> ELSE <<"store">>
           r == [thread[t] EXCEPT !.self = o, !.pc = l, !.stack = s]
<1>1. thread[t].pc = "command" /\ "command" \notin Working
  BY DEF Command, At, Working, Starting, Stopping, Last
<1>2. thread[t].self = NoObj /\ thread[t].id \in Id
  BY <1>1, WithoutServer
<1>3. CASE Reply(t)
  <2>1. thread'[t] = Idle /\ \A u \in Thread \ {t} : thread'[u] = thread[u]
    BY <1>3, ReplyHands
  <2>2. Kept' = Kept
    BY <1>2, <1>3, ReplyHands, ServersAssumption
       DEF Kept, Registered, Command, InHand
  <2>3. QED
    BY <1>3, <2>1, <2>2, ReplyOrder, IdleTidy DEF Command
<1>4. CASE o # NoObj
  <2>1. thread' = [thread EXCEPT ![t] = r]
    BY <1>4 DEF Command, TypeInv, ThreadOK
  <2>2. o \in Obj
    BY <1>2, <1>4 DEF TypeInv, StateOK
  <2>3. /\ l \in {"start", "stop"} /\ l \in Label /\ s \in Stacks
        /\ l = "start" => s \in Shallow
        /\ s \in Shallow \cup Deep
        /\ s # <<>> /\ s[Len(s)] = "store"
    BY ShallowAim, DeepAim DEF Label, Stacks, Shallow, Deep, Last
  <2> HIDE DEF l, s
  <2>4. /\ r \in Request /\ r.pc = l /\ r.self = o /\ r.stack = s
        /\ r.id = thread[t].id /\ r.id \in Id /\ r.child = NoPid
    BY <1>1, <2>2, <2>3, WithoutServer DEF Request
  <2> HIDE DEF r
  <2>5. Aim(r) = "store"
    BY <2>3, <2>4 DEF Aim
  <2>6. RequestOK(r) /\ Tidy(r)
    BY <2>2, <2>3, <2>4, <2>5
       DEF RequestOK, Tidy, Working, Starting, Stopping, Last
  <2>7. PlacedAt(r, storage)
    BY <2>4, <2>5 DEF PlacedAt
  <2>8. /\ thread'[t] = r /\ \A u \in Thread \ {t} : thread'[u] = thread[u]
    BY <2>1 DEF TypeInv, ThreadOK
  <2>9. Kept' = Kept
    <3>1. o \in Registered
      BY <1>2, <2>2 DEF Registered
    <3>2. InHand' = InHand \cup {o}
      BY <1>2, <2>2, <2>4, <2>8, ServersAssumption DEF InHand
    <3>3. Registered' = Registered
      BY DEF Command, Registered
    <3>4. QED
      BY <3>1, <3>2, <3>3 DEF Kept
  <2>10. lost' \cap Kept' = {}
    BY <2>9 DEF Command, Order, Apart
  <2>11. \A u \in Thread \ {t} : thread[u].id # r.id
    BY <1>1, <2>4, WithoutServer
  <2>12. \A u \in Thread \ {t} : thread[u].self # o
    BY <1>2, <1>4, <2>4, <2>11 DEF Order, Apart
  <2>13. \A i \in Id : storage[i] = o => i = r.id
    BY <1>2, <1>4, <2>4 DEF Order, Apart
  <2>14. Order'
    BY <2>1, <2>4, <2>6, <2>7, <2>10, <2>11, <2>12, <2>13, OneOrder DEF Command
  <2>15. QED
    BY <2>3, <2>4, <2>8, <2>9, <2>14
<1>5. QED
  BY <1>3, <1>4 DEF Command

\* The end of a create: the id has stayed free since it was looked up.
LEMMA RegisterOrder ==
  ASSUME TypeInv, Order, NEW t \in Thread, Register(t) \/ Store(t)
  PROVE  Order' /\ Kept' = Kept
<1> DEFINE o == thread[t].self
           i == thread[t].id
<1>1. /\ thread[t].pc \in {"register", "store"} /\ "register" \in Last
      /\ "store" \in Last /\ "register" \notin Starting \cup Stopping
      /\ "store" \notin Starting \cup Stopping
  BY DEF Register, Store, At, Last, Starting, Stopping
<1>2. o \in Obj /\ i \in Id /\ i # NoId /\ Self(t) = o /\ o # NoObj
  BY <1>1, LabelsOK, ServersAssumption DEF TypeInv, ThreadOK, RequestOK, Self
<1>3. Aim(thread[t]) = thread[t].pc
  BY <1>1, AimOf DEF TypeInv, ThreadOK, Order
<1>4. storage[i] \in {NoObj, o}
  BY <1>1, <1>3 DEF Order, PlacedAt
<1>5. /\ thread'[t] = Idle /\ \A u \in Thread \ {t} : thread'[u] = thread[u]
      /\ InHand' = InHand \ {o}
  BY ReplyHands DEF Register, Store
<1>6. storage' = [storage EXCEPT ![i] = o] /\ storage \in [Id -> Obj \cup {NoObj}]
  BY <1>2 DEF Register, Store, TypeInv, StateOK
<1> HIDE DEF o, i
<1>7. Registered' = Registered \cup {o}
  BY <1>2, <1>4, <1>6, ServersAssumption DEF Registered
<1>8. o \in InHand /\ Kept' = Kept
  BY <1>2, <1>5, <1>7 DEF Kept, InHand, Self
<1>9. \A u \in Thread \ {t} : thread[u].id # i /\ thread[u].self # o
  BY <1>2 DEF Order, Apart, i, o
<1>10. \A j \in Id : storage[j] = o => j = i
  BY <1>2 DEF Order, Apart, i, o
<1>11. \A j, k \in Id : storage'[j] = storage'[k] /\ storage'[j] # NoObj => j = k
  BY <1>2, <1>6, <1>10 DEF Order, Apart
<1>12. \A u \in Thread \ {t} : PlacedAt(thread[u], storage')
  <2> SUFFICES ASSUME NEW u \in Thread \ {t}
               PROVE  PlacedAt(thread[u], storage')
    OBVIOUS
  <2>1. storage'[thread[u].id] = storage[thread[u].id] \/ thread[u].id \notin Id
    BY <1>6, <1>9
  <2>2. CASE thread[u].id \in Id
    BY <2>1, <2>2 DEF Order, PlacedAt
  <2>3. CASE thread[u].id \notin Id
    <3>1. thread[u].pc = "idle"
      BY <2>3 DEF TypeInv, ThreadOK, RequestOK
    <3>2. Aim(thread[u]) = "idle"
      BY <3>1, IdleTidy DEF Order, Tidy
    <3>3. QED
      BY <3>2 DEF PlacedAt
  <2>4. QED
    BY <2>2, <2>3
<1>13. PlacedAt(Idle, storage')
  BY IdleTidy DEF PlacedAt
<1>14. \A u \in Thread : Tidy(thread'[u]) /\ PlacedAt(thread'[u], storage')
  BY <1>5, <1>12, <1>13, IdleTidy DEF Order
<1>15. \A u, v \in Thread : u # v /\ thread'[u].id # NoId =>
         thread'[u].id # thread'[v].id
  BY <1>5, IdleTidy DEF Order, Apart
<1>16. \A u, v \in Thread : u # v /\ thread'[u].self # NoObj =>
         thread'[u].self # thread'[v].self
  BY <1>5, IdleTidy DEF Order, Apart
<1>17. \A u \in Thread, j \in Id :
         thread'[u].self # NoObj /\ storage'[j] = thread'[u].self =>
           j = thread'[u].id
  <2> SUFFICES ASSUME NEW u \in Thread, NEW j \in Id, thread'[u].self # NoObj,
                      storage'[j] = thread'[u].self
               PROVE  j = thread'[u].id
    OBVIOUS
  <2>1. u # t /\ thread'[u] = thread[u]
    BY <1>5, IdleTidy
  <2>2. j # i
    BY <1>6, <1>9, <2>1
  <2>3. QED
    BY <1>6, <2>1, <2>2 DEF Order, Apart
<1>18. lost' \cap Kept' = {}
  BY <1>8 DEF Register, Store, Order, Apart
<1>19. QED
  BY <1>8, <1>11, <1>14, <1>15, <1>16, <1>17, <1>18 DEF Order, Apart

\* remove() pops the server that the request then stops.
LEMMA RemoveOrder ==
  ASSUME TypeInv, Order, NEW t \in Thread, Remove(t)
  PROVE  /\ Order' /\ Kept' = Kept
         /\ thread'[t].pc \in {"stop", "idle"}
         /\ \A u \in Thread \ {t} : thread'[u] = thread[u]
<1> DEFINE i == thread[t].id
           o == storage[i]
           r == [thread[t] EXCEPT !.self = o, !.pc = "stop",
                                  !.stack = <<"cleanup">>]
<1>1. thread[t].pc = "remove" /\ "remove" \notin Working
  BY DEF Remove, At, Working, Starting, Stopping, Last
<1>2. /\ thread[t].self = NoObj /\ i \in Id
      /\ \A u \in Thread \ {t} : thread[u].id # i
  BY <1>1, WithoutServer
<1>3. CASE o = NoObj
  <2>1. Reply(t) /\ UNCHANGED <<storage, lost>>
    BY <1>3 DEF Remove
  <2>2. thread'[t] = Idle /\ \A u \in Thread \ {t} : thread'[u] = thread[u]
    BY <2>1, ReplyHands
  <2>3. Kept' = Kept
    BY <1>2, <2>1, ReplyHands, ServersAssumption DEF Kept, Registered, InHand
  <2>4. QED
    BY <2>1, <2>2, <2>3, ReplyOrder, IdleTidy
<1>4. CASE o # NoObj
  <2>1. thread' = [thread EXCEPT ![t] = r] /\ storage' = [storage EXCEPT ![i] = NoObj]
    BY <1>4 DEF Remove, TypeInv, ThreadOK
  <2>2. o \in Obj /\ storage \in [Id -> Obj \cup {NoObj}]
    BY <1>2, <1>4 DEF TypeInv, StateOK
  <2>3. /\ r.pc = "stop" /\ r.self = o /\ r.stack = <<"cleanup">>
        /\ r.id = i /\ r.child = NoPid
    BY <1>1, WithoutServer DEF Request
  <2> HIDE DEF r
  <2>5. r.stack \notin Deep
    <3>1. ASSUME NEW m \in {"secure", "rewrite"}, NEW l \in Last,
                 <<"cleanup">> = <<m, l>>
          PROVE  FALSE
      <4>1. Len(<<"cleanup">>) = 1 /\ Len(<<m, l>>) = 2
        OBVIOUS
      <4>2. QED
        BY <3>1, <4>1
    <3>2. QED
      BY <2>3, <3>1 DEF Deep
  <2>6. Aim(r) = "cleanup"
    BY <2>3, ShallowAim DEF Aim
  <2>7. Tidy(r)
    BY <2>3, <2>5 DEF Tidy, Working, Starting, Stopping
  <2>8. thread'[t] = r /\ \A u \in Thread \ {t} : thread'[u] = thread[u]
    BY <2>1 DEF TypeInv, ThreadOK
  <2> HIDE DEF i, o
  <2>9. o = storage[i]
    BY DEF o
  <2>10. /\ \A j \in Id : storage[j] = o => j = i
         /\ \A u \in Thread : thread[u].self = o => thread[u].id = i
    BY <1>2, <1>4, <2>9 DEF Order, Apart
  <2>11. \A u \in Thread \ {t} : thread[u].self # o
    BY <1>2, <2>10
  <2>12. Registered' = Registered \ {o} /\ o \in Registered
    BY <1>2, <2>1, <2>2, <2>9, <2>10, ServersAssumption DEF Registered
  <2>13. InHand' = InHand \cup {o}
    BY <1>2, <2>2, <2>3, <2>8, ServersAssumption DEF InHand
  <2>14. Kept' = Kept
    BY <2>12, <2>13 DEF Kept
  <2>15. PlacedAt(r, storage')
    BY <1>2, <2>1, <2>2, <2>3, <2>6 DEF PlacedAt
  <2>16. \A u \in Thread \ {t} : PlacedAt(thread[u], storage')
    <3> SUFFICES ASSUME NEW u \in Thread \ {t}
                 PROVE  PlacedAt(thread[u], storage')
      OBVIOUS
    <3>1. CASE thread[u].id \in Id
      BY <1>2, <2>1, <2>2, <3>1 DEF Order, PlacedAt, i
    <3>2. CASE thread[u].id \notin Id
      <4>1. thread[u].pc = "idle"
        BY <3>2 DEF TypeInv, ThreadOK, RequestOK
      <4>2. Aim(thread[u]) = "idle"
        BY <4>1, IdleTidy DEF Order, Tidy
      <4>3. QED
        BY <4>2 DEF PlacedAt
    <3>3. QED
      BY <3>1, <3>2
  <2>17. \A u \in Thread : Tidy(thread'[u]) /\ PlacedAt(thread'[u], storage')
    BY <2>7, <2>8, <2>15, <2>16 DEF Order
  <2>18. \A u, v \in Thread : u # v /\ thread'[u].id # NoId =>
           thread'[u].id # thread'[v].id
    BY <1>2, <2>3, <2>8 DEF Order, Apart
  <2>19. \A u, v \in Thread : u # v /\ thread'[u].self # NoObj =>
           thread'[u].self # thread'[v].self
    BY <2>3, <2>8, <2>11 DEF Order, Apart
  <2>20. \A u \in Thread, j \in Id :
           thread'[u].self # NoObj /\ storage'[j] = thread'[u].self =>
             j = thread'[u].id
    <3> SUFFICES ASSUME NEW u \in Thread, NEW j \in Id, thread'[u].self # NoObj,
                        storage'[j] = thread'[u].self
                 PROVE  j = thread'[u].id
      OBVIOUS
    <3>1. j # i /\ storage[j] = thread'[u].self
      BY <1>2, <2>1, <2>2
    <3>2. CASE u = t
      BY <2>3, <2>8, <2>10, <3>1, <3>2
    <3>3. CASE u # t
      BY <2>8, <3>1, <3>3 DEF Order, Apart
    <3>4. QED
      BY <3>2, <3>3
  <2>21. \A j, k \in Id : storage'[j] = storage'[k] /\ storage'[j] # NoObj => j = k
    BY <1>2, <2>1, <2>2 DEF Order, Apart
  <2>22. lost' \cap Kept' = {}
    BY <2>14 DEF Remove, Order, Apart
  <2>23. Order'
    BY <2>17, <2>18, <2>19, <2>20, <2>21, <2>22 DEF Order, Apart
  <2>24. QED
    BY <2>3, <2>8, <2>14, <2>23
<1>5. QED
  BY <1>3, <1>4

\* A step inside start() or stop(): the request keeps its id, its server and
\* its aim.
Within(t) ==
  /\ \A u \in Thread \ {t} : thread'[u] = thread[u]
  /\ thread'[t].id = thread[t].id /\ thread'[t].self = thread[t].self
  /\ Aim(thread'[t]) = Aim(thread[t])
  /\ thread'[t].pc \in Working
  /\ Tidy(thread'[t])

LEMMA WithinOrder ==
  ASSUME TypeInv, TypeInv', Order, NEW t \in Thread, Within(t),
         UNCHANGED <<storage, lost>>
  PROVE  Order' /\ Kept' = Kept
<1> DEFINE r == thread'[t]
<1>1. thread' = [thread EXCEPT ![t] = r] /\ RequestOK(r)
  BY DEF TypeInv, ThreadOK, Within
<1>2. \A u \in Thread : thread'[u].self = thread[u].self
  BY DEF Within
<1>3. Kept' = Kept
  BY <1>2 DEF Kept, InHand, Registered, Self
<1>4. Tidy(r) /\ r.id = thread[t].id /\ r.self = thread[t].self
      /\ Aim(r) = Aim(thread[t])
  BY DEF Within
<1> HIDE DEF r
<1>5. PlacedAt(r, storage)
  BY <1>4 DEF Order, PlacedAt
<1>6. lost' \cap Kept' = {}
  BY <1>3 DEF Order, Apart
<1>7. r.id # NoId => \A u \in Thread \ {t} : thread[u].id # r.id
  BY <1>4 DEF Order, Apart
<1>8. r.self # NoObj =>
        /\ \A u \in Thread \ {t} : thread[u].self # r.self
        /\ \A i \in Id : storage[i] = r.self => i = r.id
  BY <1>4 DEF Order, Apart
<1>9. QED
  BY <1>1, <1>3, <1>4, <1>5, <1>6, <1>7, <1>8, OneOrder

\* The thread goes on in the same call.
LEMMA GoesWithin ==
  ASSUME TypeInv, NEW t \in Thread, Tidy(thread[t]), NEW r,
         thread' = [thread EXCEPT ![t] = r], Onward(t, r.pc),
         r.id = thread[t].id, r.self = thread[t].self,
         r.stack = thread[t].stack,
         r.pc \notin {"wait", "reap_child", "reap"} => r.child = NoPid,
         r.pc \in {"wait", "reap_child"} => r.child \in Pid
  PROVE  Within(t) /\ thread'[t] = r
<1>1. thread'[t] = r /\ \A u \in Thread \ {t} : thread'[u] = thread[u]
  BY DEF TypeInv, ThreadOK
<1>2. thread[t].stack # <<>>
  BY AimOf DEF TypeInv, ThreadOK, Onward
<1>3. Aim(r) = Aim(thread[t])
  BY <1>2 DEF Aim
<1>4. r.pc \in Starting \cup Stopping /\ r.pc \in Working /\ r.pc # "idle"
  BY LabelsOK DEF Onward, Working
<1>5. Tidy(r)
  BY <1>3, <1>4, LabelsOK DEF Tidy, Onward
<1>6. QED
  BY <1>1, <1>3, <1>4, <1>5 DEF Within

\* The three forms in which the modules' actions say it.
LEMMA GotoWithin ==
  ASSUME TypeInv, NEW t \in Thread, Tidy(thread[t]), NEW l, Goto(t, l),
         Onward(t, l),
         l \notin {"wait", "reap_child", "reap"} => thread[t].child = NoPid,
         l \in {"wait", "reap_child"} => thread[t].child \in Pid
  PROVE  /\ Within(t) /\ thread'[t].pc = l
         /\ thread'[t].stack = thread[t].stack
         /\ thread'[t].child = thread[t].child
<1> DEFINE r == [thread[t] EXCEPT !.pc = l]
<1>1. thread' = [thread EXCEPT ![t] = r] /\ thread[t] \in Request
  BY DEF Goto, TypeInv, ThreadOK
<1>2. /\ r.pc = l /\ r.id = thread[t].id /\ r.self = thread[t].self
      /\ r.stack = thread[t].stack /\ r.child = thread[t].child
  BY <1>1 DEF Request
<1> HIDE DEF r
<1>3. QED
  BY <1>1, <1>2, GoesWithin

WithChild(t, l, c) == thread' = [thread EXCEPT ![t].pc = l, ![t].child = c]
WithTries(t, l, n) == thread' = [thread EXCEPT ![t].pc = l, ![t].tries = n]

LEMMA ChildWithin ==
  ASSUME TypeInv, NEW t \in Thread, Tidy(thread[t]), NEW l, NEW c,
         WithChild(t, l, c),
         Onward(t, l),
         l \notin {"wait", "reap_child", "reap"} => c = NoPid,
         l \in {"wait", "reap_child"} => c \in Pid
  PROVE  /\ Within(t) /\ thread'[t].pc = l /\ thread'[t].child = c
         /\ thread'[t].stack = thread[t].stack
<1> DEFINE r == [thread[t] EXCEPT !.pc = l, !.child = c]
<1>1. thread' = [thread EXCEPT ![t] = r] /\ thread[t] \in Request
  BY DEF TypeInv, ThreadOK, WithChild
<1>2. /\ r.pc = l /\ r.id = thread[t].id /\ r.self = thread[t].self
      /\ r.stack = thread[t].stack /\ r.child = c
  BY <1>1 DEF Request
<1> HIDE DEF r
<1>3. QED
  BY <1>1, <1>2, GoesWithin

LEMMA TriesWithin ==
  ASSUME TypeInv, NEW t \in Thread, Tidy(thread[t]), NEW l, NEW n,
         WithTries(t, l, n), Onward(t, l), l \notin {"wait", "reap_child", "reap"},
         thread[t].child = NoPid
  PROVE  /\ Within(t) /\ thread'[t].pc = l /\ thread'[t].child = NoPid
         /\ thread'[t].stack = thread[t].stack
<1> DEFINE r == [thread[t] EXCEPT !.pc = l, !.tries = n]
<1>1. thread' = [thread EXCEPT ![t] = r] /\ thread[t] \in Request
  BY DEF TypeInv, ThreadOK, WithTries
<1>2. /\ r.pc = l /\ r.id = thread[t].id /\ r.self = thread[t].self
      /\ r.stack = thread[t].stack /\ r.child = NoPid
  BY <1>1 DEF Request
<1> HIDE DEF r
<1>3. QED
  BY <1>1, <1>2, GoesWithin

\* start() and stop() return to where they were called from, and a start()
\* only to the end of the request.
Returned(t) ==
  /\ thread'[t].pc = Head(thread[t].stack)
  /\ thread'[t].pc \in Last \cup {"secure", "rewrite"}
  /\ thread'[t].child = NoPid
  /\ thread[t].pc \in Starting => thread'[t].pc \in {"register", "store"}

LEMMA ReturnWithin ==
  ASSUME TypeInv, NEW t \in Thread, Tidy(thread[t]), Return(t),
         thread[t].pc \in Starting \cup Stopping
  PROVE  Within(t) /\ Returned(t)
<1> DEFINE s == thread[t].stack
           r == [thread[t] EXCEPT !.pc = Head(s), !.stack = Tail(s),
                                  !.child = NoPid]
<1>1. thread' = [thread EXCEPT ![t] = r] /\ thread[t] \in Request
  BY DEF Return, TypeInv, ThreadOK
<1>2. /\ r.pc = Head(s) /\ r.id = thread[t].id /\ r.self = thread[t].self
      /\ r.stack = Tail(s) /\ r.child = NoPid
  BY <1>1 DEF Request
<1>3. thread'[t] = r /\ \A u \in Thread \ {t} : thread'[u] = thread[u]
  BY <1>1 DEF TypeInv, ThreadOK
<1> HIDE DEF r
<1>4. CASE s \in Shallow
  <2>1. /\ s # <<>> /\ Head(s) = s[Len(s)] /\ Head(s) \in Last
        /\ Tail(s) = <<>>
    BY <1>4, ShallowEnd
  <2>2. Aim(r) = Head(s) /\ Aim(thread[t]) = Head(s)
    BY <1>2, <2>1 DEF Aim
  <2>3. thread[t].pc \in Starting => Head(s) \in {"register", "store"}
    BY <2>2 DEF Tidy
  <2>4. Tidy(r) /\ r.pc \in Working
    BY <1>2, <2>1, LabelsOK DEF Tidy, Working, Last
  <2>5. QED
    BY <1>2, <1>3, <2>1, <2>2, <2>3, <2>4 DEF Within, Returned
<1>5. CASE s \in Deep /\ thread[t].pc \in Stopping
  <2>1. /\ s # <<>> /\ Tail(s) # <<>> /\ s[Len(s)] = Tail(s)[Len(Tail(s))]
        /\ Tail(s) \in Shallow /\ Head(s) \in {"secure", "rewrite"}
    BY <1>5, DeepEnd
  <2>2. Aim(r) = Aim(thread[t]) /\ Aim(thread[t]) \in {"register", "store"}
    BY <1>2, <1>5, <2>1 DEF Aim, Tidy
  <2>3. /\ r.pc \in Starting /\ r.pc \notin Stopping /\ r.pc # "idle"
        /\ r.pc \notin {"wait", "reap_child", "reap"} /\ r.pc \in Working
    BY <1>2, <2>1, LabelsOK DEF Working
  <2>4. Tidy(r)
    BY <1>2, <2>2, <2>3 DEF Tidy
  <2>5. QED
    BY <1>2, <1>3, <1>5, <2>1, <2>2, <2>3, <2>4, LabelsOK DEF Within, Returned
<1>6. QED
  BY <1>4, <1>5 DEF TypeInv, ThreadOK, RequestOK

\* Where every step of start() leads.
StartMoves(t) ==
  /\ Start(t) =>
       /\ Within(t) /\ thread'[t].child = NoPid
       /\ \/ thread'[t].pc \in {"repair", "spawn"} /\ ~Alive(Me(t).proc)
          \/ thread'[t].pc \in {"register", "store"} /\ Alive(Me(t).proc)
  /\ Repairs(t) => /\ Within(t) /\ thread'[t].child = NoPid
                   /\ thread[t].pc \in {"repair", "repairing"}
                   /\ thread'[t].pc \in {"repairing", "spawn"}
  /\ \A p \in Pid : Spawn(t, p) =>
       Within(t) /\ thread'[t].pc = "wait" /\ thread'[t].child = p
  /\ WaitConnects(t) => /\ Within(t) /\ thread'[t].pc = "is_master"
                        /\ thread'[t].child = NoPid
  /\ WaitTimesOut(t) => /\ Within(t) /\ thread'[t].pc = "reap_child"
                        /\ thread'[t].child = thread[t].child
  /\ IsMaster(t) =>
       /\ Within(t) /\ thread'[t].child = NoPid
       /\ \/ thread'[t].pc = "add_users"
          \/ thread'[t].pc \in {"register", "store"} /\ ~Me(t).restart_required
  /\ AddUsers(t) => /\ Within(t) /\ thread'[t].child = NoPid
                    /\ thread'[t].pc = "stop" /\ Head(thread'[t].stack) = "secure"
  /\ Secure(t) \/ Rewrite(t) =>
       Within(t) /\ thread'[t].pc = "start" /\ thread'[t].child = NoPid

LEMMA StartMoving ==
  ASSUME TypeInv, NEW t \in Thread, Tidy(thread[t])
  PROVE  StartMoves(t)
<1> USE DEF At
<1>1. /\ {"start", "repair", "repairing", "spawn", "wait", "reap_child",
          "is_master", "add_users", "secure", "rewrite"} \subseteq Starting
      /\ "stop" \in Stopping
  BY DEF Starting, Stopping
<1>2. thread[t].pc \notin {"wait", "reap_child", "reap"} => thread[t].child = NoPid
  BY DEF Tidy
<1>3. ASSUME Start(t)
      PROVE  /\ Within(t) /\ thread'[t].child = NoPid
             /\ \/ thread'[t].pc \in {"repair", "spawn"} /\ ~Alive(Me(t).proc)
                \/ thread'[t].pc \in {"register", "store"} /\ Alive(Me(t).proc)
  <2>1. thread[t].pc = "start" /\ thread[t].pc \in Starting /\ thread[t].child = NoPid
    BY <1>1, <1>2, <1>3 DEF Start
  <2>2. CASE Alive(Me(t).proc) /\ Return(t)
    BY <2>1, <2>2, ReturnWithin DEF Returned
  <2>3. ASSUME NEW l \in {"repair", "spawn"}, ~Alive(Me(t).proc), Goto(t, l)
        PROVE  /\ Within(t) /\ thread'[t].child = NoPid /\ thread'[t].pc = l
    BY <1>1, <2>1, <2>3, GotoWithin DEF Onward
  <2>4. QED
    BY <1>3, <2>2, <2>3 DEF Start
<1>4. ASSUME Repairs(t)
      PROVE  /\ Within(t) /\ thread'[t].child = NoPid
             /\ thread[t].pc \in {"repair", "repairing"}
             /\ thread'[t].pc \in {"repairing", "spawn"}
  BY <1>1, <1>2, <1>4, GotoWithin DEF Onward, Repairs, Repair, Repaired
<1>5. ASSUME NEW p \in Pid, Spawn(t, p)
      PROVE  Within(t) /\ thread'[t].pc = "wait" /\ thread'[t].child = p
  <2>1. WithChild(t, "wait", p) /\ Onward(t, "wait")
    BY <1>1, <1>5 DEF Spawn, Onward, WithChild
  <2>2. QED
    BY <2>1, ChildWithin
<1>6. ASSUME WaitConnects(t)
      PROVE  /\ Within(t) /\ thread'[t].pc = "is_master"
             /\ thread'[t].child = NoPid
  <2>1. WithChild(t, "is_master", NoPid) /\ Onward(t, "is_master")
    BY <1>1, <1>6 DEF WaitConnects, Onward, WithChild
  <2>2. QED
    BY <2>1, ChildWithin
<1>7. ASSUME WaitTimesOut(t)
      PROVE  /\ Within(t) /\ thread'[t].pc = "reap_child"
             /\ thread'[t].child = thread[t].child
  <2>1. thread[t].child \in Pid
    BY <1>7 DEF WaitTimesOut, Tidy
  <2>2. QED
    BY <1>1, <1>7, <2>1, GotoWithin DEF Onward, WaitTimesOut
<1>8. ASSUME IsMaster(t)
      PROVE  /\ Within(t) /\ thread'[t].child = NoPid
             /\ \/ thread'[t].pc = "add_users"
                \/ /\ thread'[t].pc \in {"register", "store"}
                   /\ ~Me(t).restart_required
  <2>1. thread[t].pc = "is_master" /\ thread[t].pc \in Starting /\ thread[t].child = NoPid
    BY <1>1, <1>2, <1>8 DEF IsMaster
  <2>2. CASE ~Me(t).restart_required /\ Return(t)
    BY <2>1, <2>2, ReturnWithin DEF Returned
  <2>3. CASE Goto(t, "add_users")
    BY <1>1, <2>1, <2>3, GotoWithin DEF Onward
  <2>4. QED
    BY <1>8, <2>2, <2>3 DEF IsMaster
<1>9. ASSUME AddUsers(t)
      PROVE  /\ Within(t) /\ thread'[t].child = NoPid
             /\ thread'[t].pc = "stop" /\ Head(thread'[t].stack) = "secure"
  <2> DEFINE c == <<"secure">> \o thread[t].stack
             r == [thread[t] EXCEPT !.pc = "stop", !.stack = c]
  <2>1. /\ thread[t].pc \in Starting /\ thread[t].child = NoPid
        /\ thread[t] \in Request /\ thread[t].stack \in Shallow
    BY <1>1, <1>2, <1>9, AtWork DEF AddUsers, TypeInv
  <2>2. thread' = [thread EXCEPT ![t] = r]
    BY <1>9 DEF AddUsers, Call, TypeInv, ThreadOK
  <2>3. /\ c \in Deep /\ c # <<>> /\ Head(c) = "secure"
        /\ c[Len(c)] = thread[t].stack[Len(thread[t].stack)]
    BY <2>1, CallEnd
  <2> HIDE DEF c
  <2>4. /\ r.pc = "stop" /\ r.id = thread[t].id /\ r.self = thread[t].self
        /\ r.stack = c /\ r.child = NoPid
    BY <2>1 DEF Request
  <2> HIDE DEF r
  <2>5. thread'[t] = r /\ \A u \in Thread \ {t} : thread'[u] = thread[u]
    BY <2>2 DEF TypeInv, ThreadOK
  <2>6. thread[t].stack # <<>>
    BY <2>1, ShallowEnd
  <2>7. Aim(r) = Aim(thread[t]) /\ Aim(r) \in {"register", "store"}
    BY <2>1, <2>3, <2>4, <2>6 DEF Aim, Tidy
  <2>8. r.pc \in Working /\ r.pc \in Stopping /\ r.pc \notin Starting
    BY <1>1, <2>4, LabelsOK DEF Working
  <2>9. Tidy(r)
    BY <2>4, <2>7, <2>8 DEF Tidy
  <2>10. QED
    BY <2>3, <2>4, <2>5, <2>7, <2>8, <2>9 DEF Within
<1>10. ASSUME Secure(t) \/ Rewrite(t)
       PROVE  Within(t) /\ thread'[t].pc = "start" /\ thread'[t].child = NoPid
  BY <1>1, <1>2, <1>10, GotoWithin DEF Onward, Secure, Rewrite
<1>11. QED
  BY <1>3, <1>4, <1>5, <1>6, <1>7, <1>8, <1>9, <1>10 DEF StartMoves

\* Where every step of stop() leads.
StopMoves(t) ==
  /\ Stop(t) =>
       /\ Within(t) /\ thread'[t].child = NoPid
       /\ \/ thread'[t].pc = "shutdown" /\ thread'[t].stack = thread[t].stack
          \/ ~Alive(Me(t).proc) /\ Returned(t)
  /\ Shutdown(t) \/ ShutdownFails(t) \/ AwaitTimesOut(t) =>
       /\ Within(t) /\ thread'[t].child = NoPid
       /\ thread'[t].pc \in {"shutdown", "await", "kill"}
       /\ thread'[t].stack = thread[t].stack
  /\ Awaited(t) => Within(t) /\ ~Alive(Me(t).proc) /\ Returned(t)
  /\ Kill(t) => /\ Within(t) /\ thread'[t].child = Me(t).proc
                /\ thread'[t].pc = "reap" /\ thread'[t].stack = thread[t].stack
  /\ Reap(t) => Within(t) /\ ~Alive(thread[t].child) /\ Returned(t)

LEMMA StopMoving ==
  ASSUME TypeInv, NEW t \in Thread, Tidy(thread[t])
  PROVE  StopMoves(t)
<1> USE DEF At
<1>1. {"stop", "shutdown", "await", "kill", "reap"} \subseteq Stopping
  BY DEF Stopping
<1>2. thread[t].pc \notin {"wait", "reap_child", "reap"} => thread[t].child = NoPid
  BY DEF Tidy
<1>3. ASSUME Stop(t)
      PROVE  /\ Within(t) /\ thread'[t].child = NoPid
             /\ \/ /\ thread'[t].pc = "shutdown"
                   /\ thread'[t].stack = thread[t].stack
                \/ ~Alive(Me(t).proc) /\ Returned(t)
  <2>1. thread[t].pc = "stop" /\ thread[t].pc \in Stopping /\ thread[t].child = NoPid
    BY <1>1, <1>2, <1>3 DEF Stop
  <2>2. CASE ~Alive(Me(t).proc) /\ Return(t)
    BY <2>1, <2>2, ReturnWithin DEF Returned
  <2>3. CASE thread' = [thread EXCEPT ![t].pc = "shutdown", ![t].tries = 0]
    <3>1. WithTries(t, "shutdown", 0) /\ Onward(t, "shutdown")
      BY <1>1, <2>1, <2>3 DEF Onward, WithTries
    <3>2. QED
      BY <2>1, <3>1, TriesWithin
  <2>4. QED
    BY <1>3, <2>2, <2>3 DEF Stop
<1>4. ASSUME NEW l \in {"await", "kill"}, Goto(t, l),
             thread[t].pc \in {"shutdown", "await"}
      PROVE  /\ Within(t) /\ thread'[t].child = NoPid /\ thread'[t].pc = l
             /\ thread'[t].stack = thread[t].stack
  BY <1>1, <1>2, <1>4, GotoWithin DEF Onward
<1>5. ASSUME AwaitTimesOut(t)
      PROVE  /\ Within(t) /\ thread'[t].child = NoPid
             /\ thread'[t].pc \in {"shutdown", "kill"}
             /\ thread'[t].stack = thread[t].stack
  <2>1. ASSUME NEW l \in {"shutdown", "kill"},
               thread' = [thread EXCEPT ![t].pc = l, ![t].tries = 1]
        PROVE  /\ Within(t) /\ thread'[t].child = NoPid /\ thread'[t].pc = l
               /\ thread'[t].stack = thread[t].stack
    <3>1. /\ WithTries(t, l, 1) /\ Onward(t, l) /\ thread[t].child = NoPid
          /\ l \notin {"wait", "reap_child", "reap"}
      BY <1>1, <1>2, <1>5, <2>1 DEF Onward, AwaitTimesOut, WithTries
    <3>2. QED
      BY <3>1, TriesWithin
  <2>2. QED
    BY <1>5, <2>1 DEF AwaitTimesOut
<1>6. ASSUME Awaited(t)
      PROVE  Within(t) /\ ~Alive(Me(t).proc) /\ Returned(t)
  BY <1>1, <1>6, ReturnWithin DEF Awaited
<1>7. ASSUME Kill(t)
      PROVE  /\ Within(t) /\ thread'[t].child = Me(t).proc
             /\ thread'[t].pc = "reap" /\ thread'[t].stack = thread[t].stack
  <2>1. WithChild(t, "reap", Me(t).proc) /\ Onward(t, "reap")
    BY <1>1, <1>7 DEF Kill, Onward, WithChild
  <2>2. QED
    BY <2>1, ChildWithin
<1>8. ASSUME Reap(t)
      PROVE  Within(t) /\ ~Alive(thread[t].child) /\ Returned(t)
  BY <1>1, <1>8, ReturnWithin DEF Reap
<1>9. QED
  BY <1>3, <1>4, <1>5, <1>6, <1>7, <1>8
     DEF StopMoves, Shutdown, ShutdownFails

-----------------------------------------------------------------------------
(***************************************************************************)
(* Clients that wait for their replies: no process without its server.     *)
(***************************************************************************)
\* Every process is known to its server, or to the request that has just
\* started it, and the server is still there or was lost half way.
Tracked ==
  \A p \in Pid : Alive(p) =>
    /\ \/ server[os[p].obj].proc = p
       \/ \E t \in Thread : thread[t].self = os[p].obj /\ thread[t].child = p
    /\ os[p].obj \in Kept \cup (lost \cap failed)

\* Where the code goes on only when nothing of the server runs: after the
\* checks of start(), and after stop().
Still == {"repair", "repairing", "spawn", "secure", "rewrite", "cleanup"}

StoppedAt(t) ==
  LET r == thread[t] IN
    /\ r.pc \in Still => LiveOf(r.self) = {}
    /\ r.pc \in {"wait", "reap_child"} => LiveOf(r.self) \subseteq {r.child}
    /\ r.pc = "reap" => r.child = server[r.self].proc

Stopped == \A t \in Thread : StoppedAt(t)

\* What most steps do to the processes: none is new.
Fewer ==
  \A p \in Pid : Alive(p)' =>
    Alive(p) /\ os'[p].obj = os[p].obj /\ os'[p].auth = os[p].auth

SameProc == \A o \in Obj : server'[o].proc = server[o].proc

LEMMA LiveType ==
  ASSUME TypeInv, NEW p \in Pid
  PROVE  /\ Alive(p) <=> os[p].st # "gone"
         /\ Alive(p) => os[p].obj \in Obj
         /\ p # NoPid
BY ServersAssumption DEF Alive, TypeInv, StateOK

LEMMA FewerLive ==
  ASSUME Fewer, NEW o
  PROVE  LiveOf(o)' \subseteq LiveOf(o)
BY DEF Fewer, LiveOf

LEMMA SameOsFewer ==
  ASSUME os' = os
  PROVE  Fewer
BY DEF Fewer, Alive

\* A process that its server has kept, and that is gone, is all there was.
LEMMA NoneLeft ==
  ASSUME TypeInv, Order, Tracked, NEW t \in Thread, thread[t].self \in Obj,
         ~Alive(server[thread[t].self].proc), ~Alive(thread[t].child)
  PROVE  LiveOf(thread[t].self) = {}
<1> SUFFICES ASSUME NEW p \in LiveOf(thread[t].self)
             PROVE  FALSE
  OBVIOUS
<1>1. p \in Pid /\ Alive(p) /\ os[p].obj = thread[t].self
  BY DEF LiveOf
<1>2. PICK u \in Thread : thread[u].self = os[p].obj /\ thread[u].child = p
  BY <1>1 DEF Tracked
<1>3. u = t
  BY <1>1, <1>2, ServersAssumption DEF Order, Apart
<1>4. QED
  BY <1>1, <1>2, <1>3

\* Steps that start nothing, and drop no process that lives.
LEMMA TrackedCalm ==
  ASSUME TypeInv, Tracked, Fewer, SameProc, Kept \subseteq Kept',
         UNCHANGED <<lost, failed>>,
         \A u \in Thread :
           \/ thread'[u].self = thread[u].self /\ thread'[u].child = thread[u].child
           \/ ~Alive(thread[u].child)
  PROVE  Tracked'
<1> SUFFICES ASSUME NEW p \in Pid, Alive(p)'
             PROVE  /\ \/ server'[os'[p].obj].proc = p
                       \/ \E t \in Thread : /\ thread'[t].self = os'[p].obj
                                            /\ thread'[t].child = p
                    /\ os'[p].obj \in Kept' \cup (lost' \cap failed')
  BY DEF Tracked
<1>1. Alive(p) /\ os'[p].obj = os[p].obj /\ os[p].obj \in Obj
  BY LiveType DEF Fewer
<1>2. os[p].obj \in Kept \cup (lost \cap failed)
  BY <1>1 DEF Tracked
<1>3. CASE server[os[p].obj].proc = p
  BY <1>1, <1>2, <1>3 DEF SameProc
<1>4. ASSUME NEW t \in Thread, thread[t].self = os[p].obj, thread[t].child = p
      PROVE  thread'[t].self = os'[p].obj /\ thread'[t].child = p
  BY <1>1, <1>4
<1>5. QED
  BY <1>1, <1>2, <1>3, <1>4 DEF Tracked

LEMMA OthersStopped ==
  ASSUME TypeInv, Stopped, Fewer, SameProc, NEW u \in Thread,
         thread'[u] = thread[u]
  PROVE  StoppedAt(u)'
<1> DEFINE r == thread[u]
<1>1. LiveOf(r.self)' \subseteq LiveOf(r.self)
  <2>1. r.self' = r.self
    OBVIOUS
  <2>2. ASSUME NEW o
        PROVE  LiveOf(o)' \subseteq LiveOf(o)
    BY FewerLive
  <2>3. \A o : LiveOf(o)' \subseteq LiveOf(o)
    BY <2>2
  <2>4. QED
    BY <2>1, <2>3 DEF LiveOf
<1>2. r.pc = "reap" => r.self \in Obj
  BY DEF TypeInv, ThreadOK, RequestOK, Stopping
<1>3. QED
  BY <1>1, <1>2 DEF Stopped, StoppedAt, SameProc

\* Steps of one request that start nothing: what is left to show is where the
\* request has got to.
LEMMA CalmStep ==
  ASSUME TypeInv, Tracked, Stopped, Fewer, SameProc, Kept \subseteq Kept',
         UNCHANGED <<lost, failed>>, NEW t \in Thread,
         \A u \in Thread \ {t} : thread'[u] = thread[u],
         \/ thread'[t].self = thread[t].self /\ thread'[t].child = thread[t].child
         \/ ~Alive(thread[t].child),
         StoppedAt(t)'
  PROVE  Tracked' /\ Stopped'
<1>1. Tracked'
  BY TrackedCalm
<1>2. QED
  BY <1>1, OthersStopped DEF Stopped

\* A request that has only been received.
LEMMA RequestTracked ==
  ASSUME TypeInv, Order, Tracked, Stopped, NEW t \in Thread,
         \/ \E i \in Id, l \in {"create", "command", "remove"} :
              Receive(t, i, l) /\ Kept' = Kept
         \/ Create(t) \/ ConstructFails(t)
         \/ \E m \in {"start", "stop", "restart"} : Command(t, m)
         \/ Remove(t)
  PROVE  Tracked' /\ Stopped'
<1>1. UNCHANGED <<server, os, lost, failed>>
  BY DEF Receive, Create, ConstructFails, Command, Remove
<1>2. Fewer /\ SameProc
  BY <1>1, SameOsFewer DEF SameProc
<1>3. /\ thread[t].child = NoPid /\ thread[t].self = NoObj
  <2>1. thread[t].pc \in {"idle", "create", "construct", "command", "remove"}
    BY DEF Receive, Create, ConstructFails, Command, Remove, At
  <2>2. /\ thread[t].pc \notin Working
        /\ thread[t].pc \notin {"wait", "reap_child", "reap"}
    BY <2>1 DEF Working, Starting, Stopping, Last
  <2>3. QED
    BY <2>2 DEF Order, Tidy
<1>4. ~Alive(thread[t].child)
  BY <1>3 DEF Alive
<1>5. /\ \A u \in Thread \ {t} : thread'[u] = thread[u]
      /\ thread'[t].pc \in {"create", "command", "remove", "construct", "idle",
                            "start", "stop"}
      /\ Kept \subseteq Kept'
  <2>1. ASSUME NEW i \in Id, NEW l \in {"create", "command", "remove"},
               Receive(t, i, l), Kept' = Kept
        PROVE  /\ \A u \in Thread \ {t} : thread'[u] = thread[u]
               /\ thread'[t].pc = l
    <3>1. thread[t] \in Request /\ DOMAIN thread = Thread
      BY DEF TypeInv, ThreadOK
    <3>2. QED
      BY <2>1, <3>1 DEF Receive, Request
  <2>2. CASE Create(t) \/ ConstructFails(t)
    <3>1. CASE Reply(t)
      <4>1. Registered' = Registered
        BY <2>2 DEF Create, ConstructFails, Registered
      <4>2. NoObj \notin InHand
        BY ServersAssumption DEF InHand
      <4>3. QED
        BY <1>3, <3>1, <4>1, <4>2, ReplyHands, IdleTidy DEF Kept
    <3>2. CASE Create(t) /\ Goto(t, "construct")
      <4>1. thread[t] \in Request /\ DOMAIN thread = Thread
        BY DEF TypeInv, ThreadOK
      <4>2. /\ \A u \in Thread \ {t} : thread'[u] = thread[u]
            /\ thread'[t].pc = "construct" /\ thread'[t].self = thread[t].self
        BY <3>2, <4>1 DEF Goto, Request
      <4>3. Kept' = Kept
        BY <3>2, <4>2 DEF Kept, Registered, InHand, Create
      <4>4. QED
        BY <4>2, <4>3
    <3>3. QED
      BY <2>2, <3>1, <3>2 DEF Create, ConstructFails
  <2>3. QED
    BY <2>1, <2>2, CommandOrder, RemoveOrder
<1>6. StoppedAt(t)'
  BY <1>5 DEF StoppedAt, Still
<1>7. QED
  BY <1>1, <1>2, <1>4, <1>5, <1>6, CalmStep

\* A new server has no process.
LEMMA ConstructTracked ==
  ASSUME TypeInv, Order, Tracked, Stopped, NEW t \in Thread, NEW o \in Obj,
         NEW a \in BOOLEAN, NEW b \in BOOLEAN, Construct(t, o, a, b)
  PROVE  Tracked' /\ Stopped'
<1>1. /\ Kept' = Kept \cup {o}
      /\ thread'[t].pc \in {"start", "register"} /\ thread'[t].self = o
      /\ \A u \in Thread \ {t} : thread'[u] = thread[u]
  BY ConstructOrder
<1>2. /\ os' = os /\ o \notin Kept /\ LiveOf(o) = {}
      /\ failed' = failed \ {o} /\ lost' = lost \ {o}
      /\ server' = [server EXCEPT ![o] = NewServer(a)]
  BY DEF Construct, FreshObj, Kept
<1>3. thread[t].child = NoPid
  <2>1. thread[t].pc = "construct"
    BY DEF Construct, At
  <2>2. QED
    BY <2>1 DEF Order, Tidy
<1>4. ASSUME NEW p \in Pid, Alive(p)'
      PROVE  /\ \/ server'[os'[p].obj].proc = p
                \/ \E u \in Thread : /\ thread'[u].self = os'[p].obj
                                     /\ thread'[u].child = p
             /\ os'[p].obj \in Kept' \cup (lost' \cap failed')
  <2>1. Alive(p) /\ os[p].obj # o /\ os[p].obj \in Obj
    BY <1>2, <1>4, LiveType DEF Alive, LiveOf
  <2>2. os'[p].obj \in Kept' \cup (lost' \cap failed')
    BY <1>1, <1>2, <2>1 DEF Tracked
  <2>3. server'[os[p].obj] = server[os[p].obj]
    BY <1>2, <2>1 DEF TypeInv, StateOK
  <2>4. CASE server[os[p].obj].proc = p
    BY <1>2, <2>2, <2>3, <2>4
  <2>5. ASSUME NEW u \in Thread, thread[u].self = os[p].obj, thread[u].child = p
        PROVE  thread'[u].self = os'[p].obj /\ thread'[u].child = p
    BY <1>1, <1>2, <1>3, <2>1, <2>5, LiveType
  <2>6. QED
    BY <2>1, <2>2, <2>4, <2>5 DEF Tracked
<1>5. ASSUME NEW u \in Thread
      PROVE  StoppedAt(u)'
  <2>1. CASE u = t
    BY <1>1, <2>1 DEF StoppedAt, Still
  <2>2. CASE u # t
    <3>1. thread'[u] = thread[u] /\ thread[u].self # o
      BY <1>1, <1>2, <2>2 DEF Kept, InHand, Self
    <3>2. thread[u].pc = "reap" => server'[thread[u].self] = server[thread[u].self]
      BY <1>2, <3>1 DEF TypeInv, StateOK, ThreadOK, RequestOK, Stopping
    <3>3. \A x : LiveOf(x)' = LiveOf(x)
      BY <1>2 DEF LiveOf, Alive
    <3>4. LiveOf(thread[u].self)' = LiveOf(thread[u].self)
      BY <1>2, <3>1 DEF LiveOf, Alive
    <3>5. QED
      BY <3>1, <3>2, <3>4 DEF Stopped, StoppedAt
  <2>3. QED
    BY <2>1, <2>2
<1>6. QED
  BY <1>4, <1>5 DEF Tracked, Stopped

\* The end of a request that succeeds: nothing runs after a remove.
LEMMA EndTracked ==
  ASSUME TypeInv, Order, Tracked, Stopped, NEW t \in Thread,
         Register(t) \/ Store(t) \/ Cleanup(t)
  PROVE  Tracked' /\ Stopped'
<1>1. /\ thread'[t] = Idle /\ \A u \in Thread \ {t} : thread'[u] = thread[u]
      /\ InHand' = InHand \ {thread[t].self}
  BY ReplyHands DEF Register, Store, Cleanup
<1>2. thread[t].child = NoPid /\ ~Alive(thread[t].child)
  <2>1. thread[t].pc \in {"register", "store", "cleanup"}
    BY DEF Register, Store, Cleanup, At
  <2>2. QED
    BY <2>1 DEF Order, Tidy, Alive
<1>3. os' = os /\ Fewer /\ UNCHANGED <<lost, failed>>
  BY SameOsFewer DEF Register, Store, Cleanup
<1>4. SameProc
  <2>1. CASE server' = server
    BY <2>1 DEF SameProc
  <2>2. CASE Cleanup(t)
    BY <2>2, CleanupFields DEF SameProc, TypeInv, StateOK
  <2>3. QED
    BY <2>1, <2>2 DEF Register, Store
<1>5. StoppedAt(t)'
  BY <1>1, IdleTidy DEF StoppedAt, Still
<1>6. CASE Register(t) \/ Store(t)
  BY <1>1, <1>2, <1>3, <1>4, <1>5, <1>6, RegisterOrder, CalmStep
<1>7. CASE Cleanup(t)
  <2>1. LiveOf(thread[t].self) = {} /\ Registered' = Registered
    BY <1>7 DEF Cleanup, At, Stopped, StoppedAt, Still, Registered
  <2>2. Kept \ {thread[t].self} \subseteq Kept'
    BY <1>1, <2>1 DEF Kept
  <2>3. ASSUME NEW p \in Pid, Alive(p)'
        PROVE  /\ \/ server'[os'[p].obj].proc = p
                  \/ \E u \in Thread : /\ thread'[u].self = os'[p].obj
                                       /\ thread'[u].child = p
               /\ os'[p].obj \in Kept' \cup (lost' \cap failed')
    <3>1. Alive(p) /\ os'[p].obj = os[p].obj /\ os[p].obj \in Obj
      BY <1>3, <2>3, LiveType DEF Fewer
    <3>2. os[p].obj # thread[t].self
      BY <2>1, <3>1 DEF LiveOf
    <3>3. CASE server[os[p].obj].proc = p
      BY <1>3, <1>4, <2>2, <3>1, <3>2, <3>3 DEF SameProc, Tracked
    <3>4. ASSUME NEW u \in Thread, thread[u].self = os[p].obj, thread[u].child = p
          PROVE  thread'[u].self = os'[p].obj /\ thread'[u].child = p
      BY <1>1, <3>1, <3>2, <3>4
    <3>5. QED
      BY <1>3, <2>2, <3>1, <3>2, <3>3, <3>4 DEF Tracked
  <2>4. QED
    BY <1>1, <1>3, <1>4, <1>5, <2>3, OthersStopped DEF Tracked, Stopped
<1>8. QED
  BY <1>6, <1>7

\* An exception before isMaster leaves no process; a later one leaves one, and
\* the server is lost and known to have failed when the request was a create.
LEMMA RaiseTracked ==
  ASSUME TypeInv, Order, Tracked, Stopped, NEW t \in Thread,
         \/ RepairFails(t) \/ SpawnFails(t) \/ WaitDies(t) \/ ReapChild(t)
         \/ IsMasterFails(t) \/ AddUsersFails(t)
  PROVE  Tracked' /\ Stopped'
<1> DEFINE o == thread[t].self
<1>1. /\ thread[t].pc \in {"repair", "repairing", "spawn", "wait", "reap_child",
                          "is_master", "add_users"}
      /\ UNCHANGED <<storage, server, os>> /\ Raise(t)
      /\ failed \subseteq failed' /\ lost \subseteq lost'
      /\ lost' = IF Creating(t) THEN lost \cup {o} ELSE lost
  BY DEF RepairFails, SpawnFails, WaitDies, ReapChild, IsMasterFails,
         AddUsersFails, At, Raise, Self
<1>2. thread[t].pc \in Starting /\ o \in Obj
  BY <1>1, AtWork DEF Starting, TypeInv
<1>3. /\ thread'[t] = Idle /\ \A u \in Thread \ {t} : thread'[u] = thread[u]
      /\ InHand' = InHand \ {o}
  BY <1>1, ReplyHands DEF Raise
<1>4. Registered' = Registered /\ Fewer /\ SameProc
  BY <1>1, SameOsFewer DEF Registered, SameProc
<1>5. StoppedAt(t)'
  BY <1>3, IdleTidy DEF StoppedAt, Still
<1>6. Stopped'
  BY <1>3, <1>4, <1>5, OthersStopped DEF Stopped
<1>7. \/ LiveOf(o) = {}
      \/ o \in failed' /\ thread[t].child = NoPid
  <2>1. CASE RepairFails(t) \/ SpawnFails(t)
    BY <2>1 DEF RepairFails, SpawnFails, At, Stopped, StoppedAt, Still
  <2>2. CASE WaitDies(t) \/ ReapChild(t)
    BY <2>2 DEF WaitDies, ReapChild, At, Stopped, StoppedAt, LiveOf
  <2>3. CASE IsMasterFails(t) \/ AddUsersFails(t)
    BY <2>3 DEF IsMasterFails, AddUsersFails, At, Order, Tidy, Self
  <2>4. QED
    BY <2>1, <2>2, <2>3
<1>8. o \in Registered \/ o \in lost'
  <2>1. Aim(thread[t]) \in {"register", "store"}
    BY <1>2 DEF Order, Tidy
  <2>2. CASE Aim(thread[t]) = "register"
    BY <1>1, <1>2, <2>2, CreatingAim
  <2>3. CASE Aim(thread[t]) = "store"
    <3>1. thread[t].id \in Id
      BY <1>2, AtWork DEF TypeInv
    <3>2. storage[thread[t].id] = o
      BY <2>3 DEF Order, PlacedAt
    <3>3. QED
      BY <1>2, <3>1, <3>2 DEF Registered
  <2>4. QED
    BY <2>1, <2>2, <2>3
<1> HIDE DEF o
<1>9. ASSUME NEW p \in Pid, Alive(p)'
      PROVE  /\ \/ server'[os'[p].obj].proc = p
                \/ \E u \in Thread : /\ thread'[u].self = os'[p].obj
                                     /\ thread'[u].child = p
             /\ os'[p].obj \in Kept' \cup (lost' \cap failed')
  <2>1. Alive(p) /\ os'[p].obj = os[p].obj /\ os[p].obj \in Obj /\ p # NoPid
    BY <1>4, <1>9, LiveType DEF Fewer
  <2>2. CASE os[p].obj # o
    <3>1. os'[p].obj \in Kept' \cup (lost' \cap failed')
      BY <1>1, <1>3, <1>4, <2>1, <2>2 DEF Tracked, Kept
    <3>2. ASSUME NEW u \in Thread, thread[u].self = os[p].obj,
                 thread[u].child = p
          PROVE  thread'[u].self = os'[p].obj /\ thread'[u].child = p
      BY <1>3, <2>1, <2>2, <3>2 DEF o
    <3>3. QED
      BY <1>1, <2>1, <3>1, <3>2 DEF Tracked
  <2>3. CASE os[p].obj = o
    <3>1. o \in failed' /\ thread[t].child = NoPid
      BY <1>7, <2>1, <2>3 DEF LiveOf
    <3>2. os'[p].obj \in Kept' \cup (lost' \cap failed')
      BY <1>4, <1>8, <2>1, <2>3, <3>1 DEF Kept
    <3>3. ASSUME NEW u \in Thread, thread[u].self = o, thread[u].child = p
          PROVE  FALSE
      <4>1. u = t
        BY <1>2, <3>3, ServersAssumption DEF Order, Apart, o
      <4>2. QED
        BY <2>1, <3>1, <3>3, <4>1
    <3>4. server[o].proc = p
      BY <2>1, <2>3, <3>3 DEF Tracked
    <3>5. QED
      BY <1>1, <2>1, <2>3, <3>2, <3>4
  <2>4. QED
    BY <2>2, <2>3
<1>10. QED
  BY <1>6, <1>9 DEF Tracked

\* Signals end processes and make none.
LEMMA SignalFewer ==
  ASSUME TypeInv, NEW q, os' = Terminated(q)
  PROVE  Fewer
BY LiveType DEF Fewer, Terminated, Alive, TypeInv, StateOK, Process

\* The steps of start() and stop() but for Popen and the end of wait_for.
LEMMA CalmWithin ==
  ASSUME TypeInv, Order, Tracked, Stopped, NEW t \in Thread,
         \/ Start(t) \/ Repairs(t) \/ WaitTimesOut(t)
         \/ IsMaster(t) \/ AddUsers(t) \/ Secure(t) \/ Rewrite(t)
         \/ Stop(t) \/ Shutdown(t) \/ ShutdownFails(t)
         \/ Awaited(t) \/ AwaitTimesOut(t) \/ Kill(t) \/ Reap(t)
  PROVE  Tracked' /\ Stopped' /\ Fewer /\ SameProc /\ Within(t)
<1> DEFINE o == thread[t].self
<1>1. Tidy(thread[t])
  BY DEF Order
<1>2. StartMoves(t) /\ StopMoves(t)
  BY <1>1, StartMoving, StopMoving
<1>3. Within(t)
  BY <1>2 DEF StartMoves, StopMoves
<1>4. /\ thread[t].pc \in Starting \cup Stopping /\ o \in Obj /\ Self(t) = o
      /\ UNCHANGED <<storage, lost, failed>>
  <2>1. thread[t].pc \in Starting \cup Stopping
    BY DEF Start, Repairs, Repair, Repaired, WaitTimesOut, IsMaster, AddUsers,
           Secure, Rewrite,
           Stop, Shutdown, ShutdownFails, Awaited, AwaitTimesOut, Kill, Reap,
           At, Starting, Stopping
  <2>2. UNCHANGED <<storage, lost, failed>>
    BY DEF Start, Repairs, Repair, Repaired, WaitTimesOut, IsMaster, AddUsers,
           Secure, Rewrite,
           Stop, Shutdown, ShutdownFails, Awaited, AwaitTimesOut, Kill, Reap
  <2>3. QED
    BY <2>1, <2>2, AtWork DEF TypeInv
<1>5. Fewer
  <2>1. CASE os' = os
    BY <2>1, SameOsFewer
  <2>2. CASE WaitTimesOut(t) \/ Kill(t)
    BY <2>2, SignalFewer DEF WaitTimesOut, Kill
  <2>3. CASE Shutdown(t)
    BY <2>3, LiveType
       DEF Shutdown, Fewer, Serving, LiveOf, Alive, TypeInv, StateOK, Process
  <2>4. QED
    BY <2>1, <2>2, <2>3
       DEF Start, Repairs, Repair, Repaired, IsMaster, AddUsers, Secure,
           Rewrite, Stop,
           ShutdownFails, Awaited, AwaitTimesOut, Reap
<1>6. SameProc
  <2>1. CASE server' = server
    BY <2>1 DEF SameProc
  <2>2. CASE Repairs(t) \/ AddUsers(t) \/ Secure(t) \/ Rewrite(t)
    BY <2>2 DEF Repairs, Repair, Repaired, AddUsers, Secure, Rewrite,
                SameProc, TypeInv, StateOK,
                ServerRecord
  <2>3. QED
    BY <2>1, <2>2
       DEF Start, WaitTimesOut, IsMaster, Stop, Shutdown, ShutdownFails,
           Awaited, AwaitTimesOut, Kill, Reap
<1>7. Kept' = Kept
  <2>1. \A u \in Thread : thread'[u].self = thread[u].self
    BY <1>3 DEF Within
  <2>2. QED
    BY <1>4, <2>1 DEF Kept, InHand, Registered, Self
<1>8. ~Alive(thread[t].child) \/ thread'[t].child = thread[t].child
  BY <1>1, <1>2
     DEF StartMoves, StopMoves, Tidy, Alive, Start, Repairs, Repair, Repaired,
         IsMaster, AddUsers,
         Secure, Rewrite, Stop, Shutdown, ShutdownFails, Awaited,
         AwaitTimesOut, Kill, At
<1>9. LiveOf(o)' \subseteq LiveOf(o)
  <2>1. \A x : {p \in Pid : Alive(p)' /\ os'[p].obj = x}
                 \subseteq {p \in Pid : Alive(p) /\ os[p].obj = x}
    BY <1>5 DEF Fewer
  <2>2. thread'[t].self = o
    BY <1>3 DEF Within
  <2>3. QED
    BY <2>1, <2>2 DEF LiveOf
<1>10. StoppedAt(t)'
  <2>1. thread'[t].self = o
    BY <1>3 DEF Within
  <2>2. ASSUME LiveOf(o) = {}, thread'[t].pc \notin {"wait", "reap_child", "reap"}
        PROVE  StoppedAt(t)'
    BY <1>9, <2>1, <2>2 DEF StoppedAt, LiveOf
  <2>3. ASSUME thread'[t].pc \notin Still \cup {"wait", "reap_child", "reap"}
        PROVE  StoppedAt(t)'
    BY <2>3 DEF StoppedAt
  <2>4. ASSUME ~Alive(server[o].proc), ~Alive(thread[t].child)
        PROVE  LiveOf(o) = {}
    BY <1>4, <2>4, NoneLeft
  <2>5. CASE Start(t)
    <3>1. ~Alive(thread[t].child)
      BY <1>1, <2>5 DEF Start, At, Tidy, Alive
    <3>2. CASE ~Alive(Me(t).proc) /\ thread'[t].pc \in {"repair", "spawn"}
      BY <1>4, <2>2, <2>4, <3>1, <3>2 DEF Me
    <3>3. CASE thread'[t].pc \in {"register", "store"}
      BY <2>3, <3>3 DEF Still
    <3>4. QED
      BY <1>2, <2>5, <3>2, <3>3 DEF StartMoves
  <2>6. CASE Repairs(t)
    <3>1. LiveOf(o) = {}
      BY <2>6 DEF Repairs, Repair, Repaired, At, Stopped, StoppedAt, Still
    <3>2. QED
      BY <1>2, <2>2, <2>6, <3>1 DEF StartMoves
  <2>7. CASE WaitTimesOut(t)
    <3>1. LiveOf(o) \subseteq {thread[t].child}
      BY <2>7 DEF WaitTimesOut, At, Stopped, StoppedAt
    <3>2. thread'[t].pc = "reap_child" /\ thread'[t].child = thread[t].child
      BY <1>2, <2>7 DEF StartMoves
    <3>3. QED
      BY <1>9, <2>1, <3>1, <3>2 DEF StoppedAt, Still, LiveOf
  <2>8. CASE IsMaster(t) \/ AddUsers(t) \/ Secure(t) \/ Rewrite(t)
    BY <1>2, <2>3, <2>8 DEF StartMoves, Still
  <2>9. CASE Stop(t)
    <3>1. ~Alive(thread[t].child)
      BY <1>1, <2>9 DEF Stop, At, Tidy, Alive
    <3>2. CASE ~Alive(Me(t).proc) /\ Returned(t)
      BY <1>4, <2>2, <2>4, <3>1, <3>2 DEF Me, Returned, Last
    <3>3. CASE thread'[t].pc = "shutdown"
      BY <2>3, <3>3 DEF Still
    <3>4. QED
      BY <1>2, <2>9, <3>2, <3>3 DEF StopMoves
  <2>10. CASE Shutdown(t) \/ ShutdownFails(t) \/ AwaitTimesOut(t)
    BY <1>2, <2>3, <2>10 DEF StopMoves, Still
  <2>11. CASE Awaited(t)
    <3>1. ~Alive(thread[t].child)
      BY <1>1, <2>11 DEF Awaited, At, Tidy, Alive
    <3>2. ~Alive(Me(t).proc) /\ Returned(t)
      BY <1>2, <2>11 DEF StopMoves
    <3>3. QED
      BY <1>4, <2>2, <2>4, <3>1, <3>2 DEF Me, Returned, Last
  <2>12. CASE Kill(t)
    <3>1. thread'[t].pc = "reap" /\ thread'[t].child = server[o].proc
      BY <1>2, <1>4, <2>12 DEF StopMoves, Me
    <3>2. QED
      BY <1>4, <1>6, <2>1, <3>1 DEF StoppedAt, Still, SameProc
  <2>13. CASE Reap(t)
    <3>1. ~Alive(thread[t].child) /\ Returned(t)
      BY <1>2, <2>13 DEF StopMoves
    <3>2. thread[t].child = server[o].proc
      BY <2>13 DEF Reap, At, Stopped, StoppedAt
    <3>3. QED
      BY <2>2, <2>4, <3>1, <3>2 DEF Returned, Last
  <2>14. QED
    BY <2>5, <2>6, <2>7, <2>8, <2>9, <2>10, <2>11, <2>12, <2>13
<1>11. \A u \in Thread \ {t} : thread'[u] = thread[u]
  BY <1>3 DEF Within
<1>12. Tracked' /\ Stopped'
  BY <1>3, <1>4, <1>5, <1>6, <1>7, <1>8, <1>10, <1>11, CalmStep DEF Within
<1>13. QED
  BY <1>3, <1>5, <1>6, <1>12

\* Popen: the only process of the server, in the hands of the request.
LEMMA SpawnTracked ==
  ASSUME TypeInv, Order, Tracked, Stopped, NEW t \in Thread, NEW q \in Pid,
         Spawn(t, q)
  PROVE  Tracked' /\ Stopped' /\ Within(t)
<1> DEFINE o == thread[t].self
<1>1. /\ Within(t) /\ thread'[t].pc = "wait" /\ thread'[t].child = q
      /\ thread'[t].self = o
  BY StartMoving DEF StartMoves, Order, Within
<1>2. thread[t].pc = "spawn" /\ o \in Obj /\ Self(t) = o /\ thread[t].child = NoPid
  <2>1. thread[t].pc = "spawn"
    BY DEF Spawn, At
  <2>2. QED
    BY <2>1, AtWork DEF TypeInv, Starting, Order, Tidy
<1>3. /\ os' = [os EXCEPT ![q] = [obj |-> o, auth |-> Me(t).auth, st |-> "boot"]]
      /\ ~Alive(q) /\ \A u \in Thread : thread[u].child # q
      /\ UNCHANGED <<storage, server, failed, lost>>
      /\ os \in [Pid -> Process]
  BY <1>2 DEF Spawn, FreshPid, TypeInv, StateOK
<1>4. LiveOf(o) = {}
  BY <1>2 DEF Stopped, StoppedAt, Still
<1>5. \A u \in Thread : thread'[u].self = thread[u].self
  BY <1>1 DEF Within
<1>6. Kept' = Kept /\ o \in Kept
  BY <1>2, <1>3, <1>5 DEF Kept, InHand, Registered, Self
<1>7. \A p \in Pid \ {q} : os'[p] = os[p] /\ (Alive(p)' <=> Alive(p))
  BY <1>3 DEF Alive
<1>8. os'[q].obj = o
  BY <1>3
<1>9. \A u \in Thread \ {t} : thread'[u] = thread[u]
  BY <1>1 DEF Within
<1>10. ASSUME NEW p \in Pid, Alive(p)'
       PROVE  /\ \/ server'[os'[p].obj].proc = p
                 \/ \E u \in Thread : /\ thread'[u].self = os'[p].obj
                                      /\ thread'[u].child = p
              /\ os'[p].obj \in Kept' \cup (lost' \cap failed')
  <2>1. CASE p = q
    BY <1>1, <1>6, <1>8, <2>1
  <2>2. CASE p # q
    <3>1. Alive(p) /\ os'[p].obj = os[p].obj /\ p # NoPid
      BY <1>7, <1>10, <2>2, LiveType
    <3>2. os'[p].obj \in Kept' \cup (lost' \cap failed')
      BY <1>3, <1>6, <3>1 DEF Tracked
    <3>3. ASSUME NEW u \in Thread, thread[u].self = os[p].obj, thread[u].child = p
          PROVE  thread'[u].self = os'[p].obj /\ thread'[u].child = p
      BY <1>2, <1>9, <3>1, <3>3
    <3>4. QED
      BY <1>3, <3>1, <3>2, <3>3 DEF Tracked
  <2>3. QED
    BY <2>1, <2>2
<1>11. ASSUME NEW u \in Thread
       PROVE  StoppedAt(u)'
  <2>1. CASE u = t
    <3>1. \A p \in Pid : Alive(p)' /\ os'[p].obj = o => p = q
      BY <1>4, <1>7 DEF LiveOf
    <3>2. QED
      BY <1>1, <2>1, <3>1 DEF StoppedAt, Still, LiveOf
  <2>2. CASE u # t
    <3>1. thread'[u] = thread[u]
      BY <1>9, <2>2
    <3>2. thread[u].self # o
      BY <1>2, <2>2, ServersAssumption DEF Order, Apart
    <3>3. \A p \in Pid : Alive(p)' /\ os'[p].obj = thread[u].self =>
                           Alive(p) /\ os[p].obj = thread[u].self
      BY <1>7, <1>8, <3>2
    <3>4. QED
      BY <1>3, <3>1, <3>3 DEF Stopped, StoppedAt, LiveOf
  <2>3. QED
    BY <2>1, <2>2
<1>12. QED
  BY <1>1, <1>10, <1>11 DEF Tracked, Stopped

\* The end of wait_for: start() keeps the process the request had in hand.
LEMMA ConnectsTracked ==
  ASSUME TypeInv, Order, Tracked, Stopped, NEW t \in Thread, WaitConnects(t)
  PROVE  Tracked' /\ Stopped' /\ Within(t)
<1> DEFINE o == thread[t].self
           q == thread[t].child
<1>1. /\ Within(t) /\ thread'[t].pc = "is_master" /\ thread'[t].child = NoPid
      /\ thread'[t].self = o
  BY StartMoving DEF StartMoves, Order, Within
<1>2. thread[t].pc = "wait" /\ o \in Obj /\ Self(t) = o
  <2>1. thread[t].pc = "wait"
    BY DEF WaitConnects, At
  <2>2. QED
    BY <2>1, AtWork DEF TypeInv, Starting
<1>3. /\ server' = [server EXCEPT ![o].proc = q]
      /\ UNCHANGED <<storage, os, failed, lost>>
      /\ server \in [Obj -> ServerRecord]
  BY <1>2 DEF WaitConnects, TypeInv, StateOK
<1>4. LiveOf(o) \subseteq {q}
  BY <1>2 DEF Stopped, StoppedAt
<1>5. \A u \in Thread : thread'[u].self = thread[u].self
  BY <1>1 DEF Within
<1>6. Kept' = Kept
  BY <1>3, <1>5 DEF Kept, InHand, Registered, Self
<1>7. /\ server'[o].proc = q
      /\ \A x \in Obj \ {o} : server'[x] = server[x]
  BY <1>2, <1>3 DEF ServerRecord
<1>8. \A u \in Thread \ {t} : thread'[u] = thread[u]
  BY <1>1 DEF Within
<1>9. ASSUME NEW p \in Pid, Alive(p)'
       PROVE  /\ \/ server'[os'[p].obj].proc = p
                 \/ \E u \in Thread : /\ thread'[u].self = os'[p].obj
                                      /\ thread'[u].child = p
              /\ os'[p].obj \in Kept' \cup (lost' \cap failed')
  <2>1. Alive(p) /\ os'[p].obj = os[p].obj /\ os[p].obj \in Obj
    BY <1>3, <1>9, LiveType DEF Alive
  <2>2. os'[p].obj \in Kept' \cup (lost' \cap failed')
    BY <1>3, <1>6, <2>1 DEF Tracked
  <2>3. CASE os[p].obj = o
    BY <1>4, <1>7, <2>1, <2>2, <2>3 DEF LiveOf
  <2>4. CASE os[p].obj # o
    <3>1. ASSUME NEW u \in Thread, thread[u].self = os[p].obj, thread[u].child = p
          PROVE  thread'[u].self = os'[p].obj /\ thread'[u].child = p
      BY <1>8, <2>1, <2>4, <3>1
    <3>2. QED
      BY <1>7, <2>1, <2>2, <2>4, <3>1 DEF Tracked
  <2>5. QED
    BY <2>3, <2>4
<1>10. ASSUME NEW u \in Thread
       PROVE  StoppedAt(u)'
  <2>1. CASE u = t
    BY <1>1, <2>1 DEF StoppedAt, Still
  <2>2. CASE u # t
    <3>1. thread'[u] = thread[u] /\ thread[u].self # o
      BY <1>2, <1>8, <2>2, ServersAssumption DEF Order, Apart
    <3>2. thread[u].pc = "reap" => server'[thread[u].self] = server[thread[u].self]
      BY <1>7, <3>1 DEF TypeInv, ThreadOK, RequestOK, Stopping
    <3>3. QED
      BY <1>3, <3>1, <3>2 DEF Stopped, StoppedAt, LiveOf, Alive
  <2>3. QED
    BY <2>1, <2>2
<1>11. QED
  BY <1>1, <1>9, <1>10 DEF Tracked, Stopped

\* mongod by itself.
LEMMA MongodCalm ==
  ASSUME TypeInv, NEW p \in Pid, Boot(p) \/ BootFails(p) \/ Exit(p) \/ Crash(p)
  PROVE  /\ Fewer /\ SameProc /\ UNCHANGED <<storage, thread, failed, lost>>
         /\ Kept' = Kept
         /\ \A o \in Obj : [server'[o] EXCEPT !.lock = FALSE]
                             = [server[o] EXCEPT !.lock = FALSE]
<1>1. UNCHANGED <<storage, thread, failed, lost>>
  BY DEF Boot, BootFails, Exit, Crash
<1>2. Kept' = Kept
  BY <1>1 DEF Kept, InHand, Registered, Self
<1>3. Fewer
  <2>1. CASE Boot(p)
    BY <2>1, LiveType DEF Boot, Fewer, Alive, TypeInv, StateOK, Process
  <2>2. CASE BootFails(p) \/ Exit(p) \/ Crash(p)
    BY <2>2, LiveType DEF BootFails, Exit, Crash, Gone, Fewer, Alive, TypeInv,
       StateOK
  <2>3. QED
    BY <2>1, <2>2
<1>4. /\ SameProc
      /\ \A o \in Obj : [server'[o] EXCEPT !.lock = FALSE]
                          = [server[o] EXCEPT !.lock = FALSE]
  <2>1. CASE server' = server
    BY <2>1 DEF SameProc
  <2>2. CASE Crash(p)
    <3>1. server \in [Obj -> ServerRecord]
      BY DEF TypeInv, StateOK
    <3>2. \A o \in Obj : server'[o] = server[o]
            \/ \E b : server'[o] = [server[o] EXCEPT !.lock = b]
      BY <2>2, <3>1 DEF Crash
    <3>3. SameProc
      BY <3>1, <3>2 DEF SameProc, ServerRecord
    <3>4. ASSUME NEW r \in ServerRecord, NEW b
          PROVE  [[r EXCEPT !.lock = b] EXCEPT !.lock = FALSE]
                   = [r EXCEPT !.lock = FALSE]
      BY DEF ServerRecord
    <3>5. QED
      BY <3>1, <3>2, <3>3, <3>4
  <2>3. QED
    BY <2>1, <2>2 DEF Boot, BootFails, Exit
<1>5. QED
  BY <1>1, <1>2, <1>3, <1>4

LEMMA MongodTracked ==
  ASSUME TypeInv, Tracked, Stopped,
         NEW p \in Pid, Boot(p) \/ BootFails(p) \/ Exit(p) \/ Crash(p)
  PROVE  Tracked' /\ Stopped'
<1>1. /\ Fewer /\ SameProc /\ UNCHANGED <<storage, thread, failed, lost>>
      /\ Kept' = Kept
  BY MongodCalm
<1>2. Tracked'
  BY <1>1, TrackedCalm
<1>3. QED
  BY <1>1, <1>2, OthersStopped DEF Stopped

\* The steps of start() and stop(), by what the proofs say of them.
CalmSteps(t) ==
  \/ Start(t) \/ Repairs(t) \/ WaitTimesOut(t)
  \/ IsMaster(t) \/ AddUsers(t) \/ Secure(t) \/ Rewrite(t)
  \/ Stop(t) \/ Shutdown(t) \/ ShutdownFails(t)
  \/ Awaited(t) \/ AwaitTimesOut(t) \/ Kill(t) \/ Reap(t)

Raises(t) ==
  \/ RepairFails(t) \/ SpawnFails(t) \/ WaitDies(t) \/ ReapChild(t)
  \/ IsMasterFails(t) \/ AddUsersFails(t)

Requests(t) ==
  \/ Create(t) \/ ConstructFails(t)
  \/ \E m \in {"start", "stop", "restart"} : Command(t, m)
  \/ Remove(t)

LEMMA StepKinds ==
  ASSUME NEW t \in Thread, Step(t)
  PROVE  \/ CalmSteps(t) \/ Raises(t) \/ Requests(t)
         \/ \E o \in Obj, a, b \in BOOLEAN : Construct(t, o, a, b)
         \/ \E p \in Pid : Spawn(t, p)
         \/ WaitConnects(t)
         \/ Register(t) \/ Store(t) \/ Cleanup(t)
BY Zenon DEF Step, CalmSteps, Raises, Requests, Repairs

LEMMA RaisesLabel ==
  ASSUME NEW t \in Thread, Raises(t)
  PROVE  /\ thread[t].pc \in Starting /\ Raise(t)
         /\ UNCHANGED <<storage, server, os>>
BY DEF Raises, RepairFails, SpawnFails, WaitDies, ReapChild, IsMasterFails,
       AddUsersFails, At, Starting

LEMMA CalmLeaves ==
  ASSUME NEW t \in Thread, CalmSteps(t)
  PROVE  UNCHANGED <<storage, lost, failed>>
BY DEF CalmSteps, Start, Repairs, Repair, Repaired, WaitTimesOut, IsMaster,
       AddUsers, Secure,
       Rewrite, Stop, Shutdown, ShutdownFails, Awaited, AwaitTimesOut, Kill,
       Reap

\* The processes and who has them.
HandInv == TypeInv /\ Order /\ Tracked /\ Stopped

LEMMA StepHand ==
  ASSUME HandInv, NEW t \in Thread, Step(t)
  PROVE  HandInv'
<1> USE DEF HandInv
<1>1. TypeInv'
  BY NextTypeInv DEF Next
<1>2. CASE CalmSteps(t)
  <2>1. Tracked' /\ Stopped' /\ Within(t)
    BY <1>2, CalmWithin DEF CalmSteps
  <2>2. Order'
    BY <1>1, <1>2, <2>1, CalmLeaves, WithinOrder
  <2>3. QED
    BY <1>1, <2>1, <2>2
<1>3. CASE Raises(t)
  BY <1>1, <1>3, RaisesLabel, RaiseOrder, RaiseTracked DEF Raises
<1>4. CASE Requests(t)
  <2>1. Tracked' /\ Stopped'
    BY <1>4, RequestTracked DEF Requests
  <2>2. Order'
    BY <1>4, CreateOrder, ReplyOrder, CommandOrder, RemoveOrder
       DEF Requests, ConstructFails
  <2>3. QED
    BY <1>1, <2>1, <2>2
<1>5. ASSUME NEW o \in Obj, NEW a \in BOOLEAN, NEW b \in BOOLEAN,
             Construct(t, o, a, b)
      PROVE  HandInv'
  BY <1>1, <1>5, ConstructOrder, ConstructTracked
<1>6. ASSUME NEW p \in Pid, Spawn(t, p)
      PROVE  HandInv'
  <2>1. Tracked' /\ Stopped' /\ Within(t)
    BY <1>6, SpawnTracked
  <2>2. Order'
    BY <1>1, <1>6, <2>1, WithinOrder DEF Spawn
  <2>3. QED
    BY <1>1, <2>1, <2>2
<1>7. CASE WaitConnects(t)
  <2>1. Tracked' /\ Stopped' /\ Within(t)
    BY <1>7, ConnectsTracked
  <2>2. Order'
    BY <1>1, <1>7, <2>1, WithinOrder DEF WaitConnects
  <2>3. QED
    BY <1>1, <2>1, <2>2
<1>8. CASE Register(t) \/ Store(t)
  BY <1>1, <1>8, RegisterOrder, EndTracked
<1>9. CASE Cleanup(t)
  BY <1>1, <1>9, ReplyOrder, EndTracked DEF Cleanup
<1>10. QED
  BY <1>2, <1>3, <1>4, <1>5, <1>6, <1>7, <1>8, <1>9, StepKinds

LEMMA UnchangedHand ==
  ASSUME HandInv, UNCHANGED vars
  PROVE  HandInv'
<1>1. Kept' = Kept
  BY DEF vars, Kept, Registered, InHand, Self
<1>2. TypeInv'
  BY DEF HandInv, vars, TypeInv, ThreadOK, StateOK
<1>3. Fewer /\ SameProc
  BY SameOsFewer DEF vars, SameProc
<1>4. Tracked'
  BY <1>1, <1>3, TrackedCalm DEF HandInv, vars
<1>5. Stopped'
  BY <1>3, OthersStopped DEF HandInv, vars, Stopped
<1>6. Order'
  BY <1>1 DEF HandInv, vars, Order, Apart
<1>7. QED
  BY <1>2, <1>4, <1>5, <1>6 DEF HandInv

LEMMA NextHand ==
  ASSUME HandInv, Serial, [Next]_vars
  PROVE  HandInv'
<1>1. ASSUME NEW t \in Thread, NEW i \in Id,
             NEW l \in {"create", "command", "remove"}, Receive(t, i, l)
      PROVE  HandInv'
  <2>1. TypeInv'
    BY <1>1, NextTypeInv DEF Next, HandInv
  <2>2. Order' /\ Kept' = Kept
    BY <1>1, ReceiveOrder DEF HandInv
  <2>3. Tracked' /\ Stopped'
    BY <1>1, <2>2, RequestTracked DEF HandInv
  <2>4. QED
    BY <2>1, <2>2, <2>3 DEF HandInv
<1>2. ASSUME NEW p \in Pid, Boot(p) \/ BootFails(p) \/ Exit(p) \/ Crash(p)
      PROVE  HandInv'
  <2>1. TypeInv'
    BY <1>2, MongodTypeInv DEF HandInv
  <2>2. Tracked' /\ Stopped'
    BY <1>2, MongodTracked DEF HandInv
  <2>3. Kept' = Kept /\ UNCHANGED <<storage, thread, lost>>
    BY <1>2, MongodCalm DEF HandInv
  <2>4. Order'
    BY <2>3 DEF HandInv, Order, Apart
  <2>5. QED
    BY <2>1, <2>2, <2>4 DEF HandInv
<1>3. ASSUME NEW o \in Obj, RepairEnds(o)
      PROVE  HandInv'
  <2>1. TypeInv' /\ UNCHANGED <<storage, os, thread, failed, lost>> /\ SameProc
    BY <1>3, RepairEndsOK DEF HandInv, SameProc
  <2>2. Kept' = Kept
    BY <2>1 DEF Kept, Registered, InHand, Self
  <2>3. Fewer
    BY <2>1, SameOsFewer
  <2>4. Tracked'
    BY <2>1, <2>2, <2>3, TrackedCalm DEF HandInv
  <2>5. Stopped'
    BY <2>1, <2>3, OthersStopped DEF HandInv, Stopped
  <2>6. Order'
    BY <2>1, <2>2 DEF HandInv, Order, Apart
  <2>7. QED
    BY <2>1, <2>4, <2>5, <2>6 DEF HandInv
<1>4. QED
  BY <1>1, <1>2, <1>3, StepHand, UnchangedHand DEF Next

LEMMA InitHand == Init => HandInv
<1> SUFFICES ASSUME Init
             PROVE  HandInv
  OBVIOUS
<1>1. /\ \A t \in Thread : thread[t] = Idle
      /\ \A i \in Id : storage[i] = NoObj
      /\ lost = {} /\ \A p \in Pid : os[p] = Gone
  BY DEF Init
<1>2. \A t \in Thread : Tidy(thread[t]) /\ PlacedAt(thread[t], storage)
  BY <1>1, IdleTidy DEF PlacedAt
<1>3. Apart
  BY <1>1, IdleTidy DEF Apart
<1>4. \A p \in Pid : ~Alive(p)
  BY <1>1 DEF Gone, Alive
<1>5. Tracked
  BY <1>4 DEF Tracked
<1>6. Stopped
  BY <1>1, IdleTidy DEF Stopped, StoppedAt, Still
<1>7. QED
  BY <1>2, <1>3, <1>5, <1>6, InitTypeInv DEF HandInv, Order

\* When clients wait for their replies, no mongod is left that the service
\* does not know, through failed starts, timeouts, crashes and restarts; but
\* for a create() that failed after Popen (Server.start, Servers.create).
THEOREM NobodyOrphaned ==
  ASSUME Serial
  PROVE  Spec => []NoOrphan
<1>1. HandInv /\ [Next]_vars => HandInv'
  BY NextHand
<1>2. HandInv => NoOrphan
  BY DEF HandInv, Tracked, Kept, NoOrphan
<1>3. QED
  BY <1>1, <1>2, InitHand, PTL DEF Spec

-----------------------------------------------------------------------------
(***************************************************************************)
(* Clients that wait for their replies: what is removed is gone.           *)
(***************************************************************************)
\* Whoever is neither kept nor lost has been through Cleanup.
WipedAt(o) == server[o].data \/ server[o].conf => server[o].kept

Wiped == \A o \in Obj \ (Kept \cup lost) : WipedAt(o)

\* The files of the others stay what they are.
LEMMA WipedCalm ==
  ASSUME Wiped, Kept \cup lost \subseteq Kept' \cup lost',
         \A o \in Obj \ (Kept \cup lost) :
           /\ server'[o].data = server[o].data
           /\ server'[o].conf = server[o].conf
           /\ server'[o].kept = server[o].kept
  PROVE  Wiped'
BY DEF Wiped, WipedAt

\* A raise loses nothing that nobody keeps.
LEMMA RaiseKeeps ==
  ASSUME HandInv, NEW t \in Thread, Raises(t)
  PROVE  Kept \cup lost \subseteq Kept' \cup lost'
<1> DEFINE o == thread[t].self
<1>1. /\ thread[t].pc \in Starting /\ Raise(t) /\ storage' = storage
      /\ o \in Obj /\ Self(t) = o /\ thread[t].id \in Id
  BY RaisesLabel, AtWork DEF HandInv, TypeInv
<1>2. /\ InHand' = InHand \ {o} /\ Registered' = Registered
      /\ lost' = IF Creating(t) THEN lost \cup {o} ELSE lost
  BY <1>1, ReplyHands DEF Raise, Registered, HandInv
<1>3. Aim(thread[t]) \in {"register", "store"}
  BY <1>1 DEF HandInv, Order, Tidy
<1>4. CASE Aim(thread[t]) = "register"
  BY <1>1, <1>2, <1>4, CreatingAim DEF HandInv, Kept
<1>5. CASE Aim(thread[t]) = "store"
  <2>1. storage[thread[t].id] = o
    BY <1>5 DEF HandInv, Order, PlacedAt
  <2>2. o \in Registered
    BY <1>1, <2>1 DEF Registered
  <2>3. QED
    BY <1>2, <2>2 DEF Kept
<1>6. QED
  BY <1>3, <1>4, <1>5

\* start() and stop() touch the files of their own server.
LEMMA WithinWiped ==
  ASSUME HandInv, HandInv', Wiped, NEW t \in Thread,
         \/ CalmSteps(t) \/ WaitConnects(t) \/ \E p \in Pid : Spawn(t, p)
  PROVE  Wiped' /\ Kept' = Kept
<1>1. Within(t) /\ UNCHANGED <<storage, lost>>
  BY CalmWithin, CalmLeaves, SpawnTracked, ConnectsTracked
     DEF HandInv, CalmSteps, WaitConnects, Spawn
<1>2. Kept' = Kept /\ lost' = lost
  BY <1>1, WithinOrder DEF HandInv
<1>3. \A o \in Obj \ {Self(t)} : server'[o] = server[o]
  BY DEF CalmSteps, WaitConnects, Spawn, Start, Repairs, Repair, Repaired,
         WaitTimesOut, IsMaster,
         AddUsers, Secure, Rewrite, Stop, Shutdown, ShutdownFails, Awaited,
         AwaitTimesOut, Kill, Reap, HandInv, TypeInv, StateOK
<1>4. \A o \in Obj \ Kept : o # Self(t)
  BY DEF Kept, InHand, Self
<1>5. QED
  BY <1>2, <1>3, <1>4, WipedCalm

LEMMA NextWiped ==
  ASSUME HandInv, HandInv', Wiped, Serial, [Next]_vars
  PROVE  Wiped'
<1>1. ASSUME NEW t \in Thread, Step(t)
      PROVE  Wiped'
  <2>1. CASE CalmSteps(t) \/ WaitConnects(t) \/ \E p \in Pid : Spawn(t, p)
    BY <2>1, WithinWiped
  <2>2. CASE Raises(t)
    BY <2>2, RaiseKeeps, RaisesLabel, WipedCalm
  <2>3. CASE Requests(t)
    <3>1. UNCHANGED <<server, lost>>
      BY <2>3 DEF Requests, Create, ConstructFails, Command, Remove
    <3>2. Kept \subseteq Kept'
      <4>1. CASE \/ \E m \in {"start", "stop", "restart"} : Command(t, m)
                 \/ Remove(t)
        BY <4>1, CommandOrder, RemoveOrder DEF HandInv
      <4>2. CASE Create(t) \/ ConstructFails(t)
        <5>1. thread[t].self = NoObj
          <6>1. thread[t].pc \in {"create", "construct"}
            BY <4>2 DEF Create, ConstructFails, At
          <6>2. thread[t].pc \notin Working
            BY <6>1 DEF Working, Starting, Stopping, Last
          <6>3. QED
            BY <6>2 DEF HandInv, Order, Tidy
        <5>2. \A u \in Thread : thread[u].self # NoObj => thread'[u] = thread[u]
          BY <4>2, <5>1 DEF Create, ConstructFails, Reply, Goto, HandInv,
                            TypeInv,
                            ThreadOK
        <5>3. QED
          BY <4>2, <5>2, ServersAssumption
             DEF Kept, Registered, InHand, Self, Create, ConstructFails
      <4>3. QED
        BY <2>3, <4>1, <4>2 DEF Requests
    <3>3. QED
      BY <3>1, <3>2, WipedCalm
  <2>4. ASSUME NEW o \in Obj, NEW a \in BOOLEAN, NEW b \in BOOLEAN,
               Construct(t, o, a, b)
        PROVE  Wiped'
    <3>1. Kept' = Kept \cup {o} /\ lost' = lost \ {o}
      BY <2>4, ConstructOrder DEF HandInv, Construct
    <3>2. \A x \in Obj \ {o} : server'[x] = server[x]
      BY <2>4 DEF Construct, HandInv, TypeInv, StateOK
    <3>3. QED
      BY <3>1, <3>2 DEF Wiped, WipedAt
  <2>5. CASE Register(t) \/ Store(t)
    <3>1. Kept' = Kept /\ UNCHANGED <<server, lost>>
      BY <2>5, RegisterOrder DEF HandInv, Register, Store
    <3>2. QED
      BY <3>1, WipedCalm
  <2>6. CASE Cleanup(t)
    <3> DEFINE o == thread[t].self
    <3>1. /\ InHand' = InHand \ {o} /\ Registered' = Registered /\ lost' = lost
      BY <2>6, ReplyHands DEF Cleanup, HandInv, Registered
    <3>2. o \in Obj /\ server \in [Obj -> ServerRecord]
      BY <2>6, SelfOK DEF Cleanup, At, Last, Self, HandInv, TypeInv, StateOK
    <3>7. TypeInv /\ Self(t) = o
      BY DEF HandInv, Self
    <3>6. PICK r \in ServerRecord : /\ server' = [server EXCEPT ![Self(t)] = r]
                                    /\ r.data \/ r.conf => r.kept
      BY <2>6, <3>7, CleanupFields
    <3>3. server'[o].data \/ server'[o].conf => server'[o].kept
      BY <3>2, <3>6, <3>7
    <3>4. \A x \in Obj \ {o} : server'[x] = server[x]
      BY <3>2, <3>6, <3>7
    <3>5. QED
      BY <3>1, <3>3, <3>4 DEF Wiped, WipedAt, Kept
  <2>7. QED
    BY <1>1, <2>1, <2>2, <2>3, <2>4, <2>5, <2>6, StepKinds
<1>2. ASSUME NEW t \in Thread, NEW i \in Id,
             NEW l \in {"create", "command", "remove"}, Receive(t, i, l)
      PROVE  Wiped'
  <2>1. Kept' = Kept /\ UNCHANGED <<server, lost>>
    BY <1>2, ReceiveOrder DEF HandInv, Receive
  <2>2. QED
    BY <2>1, WipedCalm
<1>3. ASSUME NEW p \in Pid, Boot(p) \/ BootFails(p) \/ Exit(p) \/ Crash(p)
      PROVE  Wiped'
  <2>1. Kept' = Kept /\ lost' = lost
    BY <1>3, MongodCalm DEF HandInv
  <2>2. \A o \in Obj : /\ server'[o].data = server[o].data
                        /\ server'[o].conf = server[o].conf
                        /\ server'[o].kept = server[o].kept
    BY <1>3 DEF Boot, BootFails, Exit, Crash, HandInv, TypeInv, StateOK,
                ServerRecord
  <2>3. QED
    BY <2>1, <2>2, WipedCalm
<1>4. CASE UNCHANGED vars
  BY <1>4 DEF vars, Wiped, WipedAt, Kept, Registered, InHand, Self
<1>6. ASSUME NEW o \in Obj, RepairEnds(o)
      PROVE  Wiped'
  <2>1. Kept' = Kept /\ lost' = lost
    BY <1>6 DEF RepairEnds, Kept, Registered, InHand, Self
  <2>2. QED
    BY <1>6, <2>1, RepairEndsOK, WipedCalm DEF HandInv
<1>5. QED
  BY <1>1, <1>2, <1>3, <1>4, <1>6 DEF Next

\* When clients wait for their replies, a server that a DELETE is done with
\* leaves no mongod behind, and neither its data nor the config file it ran
\* with last unless cleanup() could not remove them (Servers.remove,
\* Server.stop, Server.cleanup), whatever its process did meanwhile.
THEOREM RemovedLeavesNothing ==
  ASSUME Serial
  PROVE  Spec => []RemovedIsClean
<1>1. Init => Wiped
  BY DEF Init, Wiped, WipedAt, NewServer
<1>2. HandInv /\ Wiped /\ [Next]_vars => HandInv' /\ Wiped'
  BY NextHand, NextWiped
<1>3. HandInv /\ Wiped => RemovedIsClean
  <2> SUFFICES ASSUME HandInv, Wiped,
                      NEW o \in Obj \ (Registered \cup InHand \cup lost)
               PROVE  LiveOf(o) = {} /\ WipedAt(o)
    BY DEF RemovedIsClean, WipedAt
  <2>1. LiveOf(o) = {}
    BY DEF HandInv, Tracked, Kept, LiveOf
  <2>2. QED
    BY <2>1 DEF Wiped, Kept
<1>4. QED
  BY <1>1, <1>2, <1>3, InitHand, PTL DEF Spec

-----------------------------------------------------------------------------
(***************************************************************************)
(* Clients that wait for their replies: a login is enforced.               *)
(***************************************************************************)
\* What runs for a server that has been secured runs with authentication.
Authed == \A p \in Pid : Alive(p) /\ os[p].obj \in Hard => os[p].auth

\* A start() that is between Popen and the restart with authentication.
Securing(r) ==
  \/ r.pc \in {"wait", "reap_child", "is_master", "add_users", "secure"}
  \/ r.pc \in Stopping /\ Head(r.stack) = "secure"

\* What runs for a server that has yet to be secured is being secured, unless
\* a start() has failed half way.
Awaiting ==
  \A p \in Pid :
    Alive(p) /\ server[os[p].obj].login /\ server[os[p].obj].restart_required
      => \/ os[p].obj \in failed
         \/ \E t \in Thread : thread[t].self = os[p].obj /\ Securing(thread[t])

SecureInv == HandInv /\ SecuredConf /\ Authed /\ Awaiting

SameLogin ==
  \A o \in Obj : /\ server'[o].login = server[o].login
                 /\ server'[o].restart_required = server[o].restart_required

\* The request goes on securing, or nothing of its server runs, or it has
\* failed or is secured.
StaysSecuring(t) ==
  Securing(thread[t]) =>
    \/ thread'[t].self = thread[t].self /\ Securing(thread'[t])
    \/ LiveOf(thread[t].self) = {}
    \/ thread[t].self \in failed'
    \/ ~server[thread[t].self].restart_required

LEMMA SecureCalm ==
  ASSUME SecureInv, Fewer, SameLogin, failed \subseteq failed',
         \A t \in Thread : StaysSecuring(t)
  PROVE  Authed' /\ Awaiting'
<1>1. ASSUME NEW p \in Pid, Alive(p)'
      PROVE  /\ os'[p].obj \in Hard' => os'[p].auth
             /\ server'[os'[p].obj].login /\ server'[os'[p].obj].restart_required
                  => \/ os'[p].obj \in failed'
                     \/ \E t \in Thread : /\ thread'[t].self = os'[p].obj
                                          /\ Securing(thread'[t])
  <2> DEFINE o == os[p].obj
  <2>1. /\ Alive(p) /\ os'[p].obj = o /\ os'[p].auth = os[p].auth /\ o \in Obj
        /\ server'[o].login = server[o].login
        /\ server'[o].restart_required = server[o].restart_required
        /\ p \in LiveOf(o)
    BY <1>1, LiveType DEF Fewer, SameLogin, SecureInv, HandInv, LiveOf
  <2>2. os'[p].obj \in Hard' => os'[p].auth
    BY <2>1 DEF SecureInv, Authed, Hard
  <2>3. ASSUME server[o].login, server[o].restart_required, o \notin failed'
        PROVE  \E t \in Thread : thread'[t].self = o /\ Securing(thread'[t])
    <3>1. PICK t \in Thread : thread[t].self = o /\ Securing(thread[t])
      BY <2>1, <2>3 DEF SecureInv, Awaiting
    <3>2. StaysSecuring(t)
      OBVIOUS
    <3>3. thread'[t].self = o /\ Securing(thread'[t])
      BY <2>1, <2>3, <3>1, <3>2 DEF StaysSecuring
    <3>4. QED
      BY <3>3
  <2>4. QED
    BY <2>1, <2>2, <2>3
<1>2. QED
  BY <1>1 DEF Authed, Awaiting

\* Nobody secures at the other labels.
LEMMA NotSecuring ==
  ASSUME NEW r, r.pc \notin {"wait", "reap_child", "is_master", "add_users",
                             "secure"},
         r.pc \notin Stopping
  PROVE  ~Securing(r)
BY DEF Securing

LEMMA WithinSecure ==
  ASSUME SecureInv, NEW t \in Thread, CalmSteps(t), ~Secure(t)
  PROVE  Authed' /\ Awaiting'
<1>1. /\ Fewer /\ Within(t) /\ UNCHANGED <<storage, lost, failed>>
      /\ TypeInv /\ Tidy(thread[t])
  BY CalmWithin, CalmLeaves DEF SecureInv, HandInv, CalmSteps, Order
<1>2. SameLogin
  BY <1>1 DEF CalmSteps, Start, Repairs, Repair, Repaired, WaitTimesOut,
              IsMaster, AddUsers,
         Rewrite, Stop, Shutdown, ShutdownFails, Awaited, AwaitTimesOut, Kill,
         Reap, SameLogin, TypeInv, StateOK, ServerRecord
<1>3. StartMoves(t) /\ StopMoves(t)
  BY <1>1, StartMoving, StopMoving
<1>4. thread'[t].self = thread[t].self
  BY <1>1 DEF Within
<1>5. StaysSecuring(t)
  <2>1. CASE Start(t) \/ Repairs(t) \/ Rewrite(t)
    <3>1. ~Securing(thread[t])
      BY <2>1, NotSecuring DEF Start, Repairs, Repair, Repaired, Rewrite, At,
                               Stopping
    <3>2. QED
      BY <3>1 DEF StaysSecuring
  <2>2. CASE WaitTimesOut(t) \/ AddUsers(t)
    BY <1>3, <1>4, <2>2 DEF StartMoves, StaysSecuring, Securing, Stopping
  <2>3. CASE IsMaster(t)
    BY <1>3, <1>4, <2>3 DEF StartMoves, StaysSecuring, Securing, Me, Self
  <2>4. CASE \/ Stop(t) \/ Shutdown(t) \/ ShutdownFails(t)
             \/ Awaited(t) \/ AwaitTimesOut(t) \/ Kill(t) \/ Reap(t)
    <3>1. thread[t].pc \in Stopping
      BY <2>4 DEF Stop, Shutdown, ShutdownFails, Awaited, AwaitTimesOut, Kill,
                  Reap, At, Stopping
    <3>2. SUFFICES ASSUME Securing(thread[t])
                   PROVE  Securing(thread'[t])
      BY <1>4 DEF StaysSecuring
    <3>3. Head(thread[t].stack) = "secure"
      BY <3>1, <3>2 DEF Securing, Stopping
    <3>4. \/ Returned(t)
          \/ /\ thread'[t].pc \in Stopping
             /\ thread'[t].stack = thread[t].stack
      BY <1>3, <2>4 DEF StopMoves, Stopping
    <3>5. QED
      BY <3>3, <3>4 DEF Returned, Securing
  <2>5. QED
    BY <2>1, <2>2, <2>3, <2>4 DEF CalmSteps
<1>6. \A u \in Thread \ {t} : StaysSecuring(u)
  BY <1>1 DEF Within, StaysSecuring
<1>7. QED
  BY <1>1, <1>2, <1>5, <1>6, SecureCalm

LEMMA NextSecure ==
  ASSUME SecureInv, HandInv', Serial, [Next]_vars
  PROVE  SecuredConf' /\ Authed' /\ Awaiting'
<1>1. TypeInv /\ SecuredConf'
  BY KeepsSecuredConf DEF SecureInv, HandInv
<1>2. /\ server' = server => SameLogin
      /\ os' = os => Fewer
      /\ \A u \in Thread : thread'[u] = thread[u] => StaysSecuring(u)
  BY SameOsFewer DEF SameLogin, StaysSecuring
<1>3. ASSUME NEW t \in Thread, Step(t)
      PROVE  Authed' /\ Awaiting'
  <2>1. CASE CalmSteps(t) /\ ~Secure(t)
    BY <2>1, WithinSecure
  <2>2. CASE Secure(t)
    <3> DEFINE o == Self(t)
    <3>1. o \in Obj /\ thread[t].self = o /\ LiveOf(o) = {}
      <4>1. thread[t].pc = "secure"
        BY <2>2 DEF Secure, At
      <4>2. o \in Obj /\ thread[t].self = o
        BY <4>1, AtWork DEF Starting, SecureInv, HandInv, TypeInv
      <4>3. LiveOf(o) = {}
        BY <4>1, <4>2 DEF SecureInv, HandInv, Stopped, StoppedAt, Still
      <4>4. QED
        BY <4>2, <4>3
    <3>2. /\ \A x \in Obj \ {o} : server'[x] = server[x]
          /\ UNCHANGED <<os, failed>>
      BY <2>2, <1>1 DEF Secure, TypeInv, StateOK
    <3>3. \A u \in Thread \ {t} : thread'[u] = thread[u]
      BY <2>2, <1>1 DEF Secure, Goto, TypeInv, ThreadOK
    <3> HIDE DEF o
    <3>4. ASSUME NEW p \in Pid, Alive(p)'
          PROVE  /\ Alive(p) /\ os[p].obj \in Obj /\ os[p].obj # o
                 /\ server'[os[p].obj] = server[os[p].obj]
      BY <1>1, <3>1, <3>2, <3>4, LiveType DEF LiveOf, Alive
    <3>5. Authed'
      BY <3>2, <3>4 DEF Authed, Hard, SecureInv
    <3>6. Awaiting'
      <4> SUFFICES ASSUME NEW p \in Pid, Alive(p)',
                          server'[os'[p].obj].login,
                          server'[os'[p].obj].restart_required,
                          os'[p].obj \notin failed'
                   PROVE  \E u \in Thread : /\ thread'[u].self = os'[p].obj
                                            /\ Securing(thread'[u])
        BY DEF Awaiting
      <4>1. PICK u \in Thread : thread[u].self = os[p].obj /\ Securing(thread[u])
        BY <3>2, <3>4 DEF SecureInv, Awaiting
      <4>2. u # t
        BY <3>1, <3>4, <4>1
      <4>3. QED
        BY <3>2, <3>3, <4>1, <4>2
    <3>7. QED
      BY <3>5, <3>6
  <2>3. CASE Raises(t)
    <3>1. UNCHANGED <<storage, server, os>> /\ failed \subseteq failed'
      BY <2>3, RaisesLabel DEF Raises, RepairFails, SpawnFails, WaitDies,
         ReapChild, IsMasterFails, AddUsersFails
    <3>2. \A u \in Thread \ {t} : thread'[u] = thread[u]
      BY <2>3, <1>1, RaisesLabel DEF Raise, Reply, TypeInv, ThreadOK
    <3>3. StaysSecuring(t)
      <4>1. CASE RepairFails(t) \/ SpawnFails(t)
        BY <4>1, NotSecuring
           DEF RepairFails, SpawnFails, At, Stopping, StaysSecuring
      <4>2. CASE WaitDies(t) \/ ReapChild(t)
        BY <4>2 DEF WaitDies, ReapChild, At, SecureInv, HandInv, Stopped,
                    StoppedAt, LiveOf, StaysSecuring
      <4>3. CASE IsMasterFails(t) \/ AddUsersFails(t)
        BY <4>3 DEF IsMasterFails, AddUsersFails, Self, StaysSecuring
      <4>4. QED
        BY <2>3, <4>1, <4>2, <4>3 DEF Raises
    <3>4. QED
      BY <1>2, <3>1, <3>2, <3>3, SecureCalm
  <2>4. CASE Requests(t) \/ Register(t) \/ Store(t) \/ Cleanup(t)
    <3>1. /\ UNCHANGED <<os, failed>>
          /\ thread[t].pc \notin Starting \cup Stopping
      BY <2>4 DEF Requests, Create, ConstructFails, Command, Remove, Register,
         Store, Cleanup, At, Starting, Stopping
    <3>2. SameLogin
      <4>1. CASE server' = server
        BY <1>2, <4>1
      <4>2. CASE Cleanup(t)
        BY <1>1, <4>2, CleanupFields DEF SameLogin, TypeInv, StateOK
      <4>3. QED
        BY <2>4, <4>1, <4>2
           DEF Requests, Create, ConstructFails, Command, Remove, Register,
               Store
    <3>3. \A u \in Thread \ {t} : thread'[u] = thread[u]
      BY <1>1, <2>4 DEF Requests, Create, ConstructFails, Command, Remove,
         Register, Store, Cleanup, Reply, Goto, TypeInv, ThreadOK
    <3>4. StaysSecuring(t)
      <4>1. ~Securing(thread[t])
        BY <3>1 DEF Securing, Starting
      <4>2. QED
        BY <4>1 DEF StaysSecuring
    <3>5. QED
      BY <1>2, <3>1, <3>2, <3>3, <3>4, SecureCalm
  <2>5. ASSUME NEW o \in Obj, NEW a \in BOOLEAN, NEW b \in BOOLEAN,
               Construct(t, o, a, b)
        PROVE  Authed' /\ Awaiting'
    <3>1. /\ os' = os /\ failed' = failed \ {o} /\ LiveOf(o) = {}
          /\ \A x \in Obj \ {o} : server'[x] = server[x]
          /\ thread[t].pc = "construct"
      BY <1>1, <2>5 DEF Construct, FreshObj, TypeInv, StateOK, At
    <3>2. /\ \A u \in Thread \ {t} : thread'[u] = thread[u]
          /\ ~Securing(thread[t])
      BY <2>5, <3>1, ConstructOrder, NotSecuring
         DEF SecureInv, HandInv, Stopping
    <3>3. ASSUME NEW p \in Pid, Alive(p)'
          PROVE  /\ Alive(p) /\ os[p].obj \in Obj /\ os[p].obj # o
                 /\ server'[os[p].obj] = server[os[p].obj]
      BY <1>1, <3>1, <3>3, LiveType DEF LiveOf, Alive
    <3>4. Authed'
      BY <3>1, <3>3 DEF Authed, Hard, SecureInv
    <3>5. Awaiting'
      <4> SUFFICES ASSUME NEW p \in Pid, Alive(p)',
                          server'[os'[p].obj].login,
                          server'[os'[p].obj].restart_required,
                          os'[p].obj \notin failed'
                   PROVE  \E u \in Thread : /\ thread'[u].self = os'[p].obj
                                            /\ Securing(thread'[u])
        BY DEF Awaiting
      <4>1. PICK u \in Thread : thread[u].self = os[p].obj /\ Securing(thread[u])
        BY <3>1, <3>3 DEF SecureInv, Awaiting
      <4>2. u # t
        BY <3>2, <4>1
      <4>3. QED
        BY <3>1, <3>2, <4>1, <4>2
    <3>6. QED
      BY <3>4, <3>5
  <2>6. ASSUME NEW q \in Pid, Spawn(t, q)
        PROVE  Authed' /\ Awaiting'
    <3>1. /\ Within(t) /\ thread'[t].pc = "wait" /\ thread'[t].self = thread[t].self
      BY <1>1, <2>6, StartMoving DEF StartMoves, SecureInv, HandInv, Order,
                                     Within
    <3>2. /\ thread[t].pc = "spawn" /\ Self(t) = thread[t].self /\ Self(t) \in Obj
          /\ thread[t].pc \in Starting
      BY <1>1, <2>6, AtWork DEF Spawn, At, Starting, TypeInv
    <3>3. /\ UNCHANGED <<server, failed>> /\ os'[q].obj = Self(t)
          /\ os'[q].auth = Me(t).auth
          /\ \A p \in Pid \ {q} : os'[p] = os[p]
      BY <1>1, <2>6 DEF Spawn, TypeInv, StateOK
    <3>4. Self(t) \in Hard => Me(t).auth
      BY <3>2 DEF Hard, Me, SecureInv, SecuredConf
    <3>5. Hard' = Hard
      BY <3>3 DEF Hard
    <3>6. \A p \in Pid \ {q} : Alive(p)' <=> Alive(p)
      BY <3>3 DEF Alive
    <3>7. Authed'
      BY <3>3, <3>4, <3>5, <3>6 DEF Authed, SecureInv
    <3>8. \A u \in Thread : Securing(thread[u]) => u # t
      BY <3>2, NotSecuring, LabelsOK
    <3>9. \A u \in Thread \ {t} : thread'[u] = thread[u]
      BY <3>1 DEF Within
    <3>10. Securing(thread'[t])
      BY <3>1 DEF Securing
    <3>11. Awaiting'
      <4> SUFFICES ASSUME NEW p \in Pid, Alive(p)',
                          server'[os'[p].obj].login,
                          server'[os'[p].obj].restart_required,
                          os'[p].obj \notin failed'
                   PROVE  \E u \in Thread : /\ thread'[u].self = os'[p].obj
                                            /\ Securing(thread'[u])
        BY DEF Awaiting
      <4>1. CASE p = q
        BY <3>1, <3>2, <3>3, <3>10, <4>1
      <4>2. CASE p # q
        <5>1. PICK u \in Thread : thread[u].self = os[p].obj /\ Securing(thread[u])
          BY <3>3, <3>6, <4>2 DEF SecureInv, Awaiting
        <5>2. QED
          BY <3>3, <3>8, <3>9, <4>2, <5>1
      <4>3. QED
        BY <4>1, <4>2
    <3>12. QED
      BY <3>7, <3>11
  <2>7. CASE WaitConnects(t)
    <3>1. /\ Within(t) /\ thread'[t].pc = "is_master"
      BY <1>1, <2>7, StartMoving DEF StartMoves, SecureInv, HandInv, Order
    <3>2. SameLogin /\ UNCHANGED <<os, failed>>
      BY <1>1, <2>7 DEF WaitConnects, SameLogin, TypeInv, StateOK, ServerRecord
    <3>3. StaysSecuring(t)
      BY <3>1 DEF Within, StaysSecuring, Securing
    <3>4. \A u \in Thread \ {t} : StaysSecuring(u)
      BY <1>2, <3>1 DEF Within
    <3>5. QED
      BY <1>2, <3>2, <3>3, <3>4, SecureCalm
  <2>8. QED
    BY <1>3, <2>1, <2>2, <2>3, <2>4, <2>5, <2>6, <2>7, StepKinds
<1>4. ASSUME NEW t \in Thread, NEW i \in Id,
             NEW l \in {"create", "command", "remove"}, Receive(t, i, l)
      PROVE  Authed' /\ Awaiting'
  <2>1. /\ UNCHANGED <<server, os, failed>> /\ thread[t].pc = "idle"
        /\ \A u \in Thread \ {t} : thread'[u] = thread[u]
    BY <1>1, <1>4 DEF Receive, At, TypeInv, ThreadOK
  <2>2. StaysSecuring(t)
    BY <2>1, NotSecuring, LabelsOK DEF StaysSecuring
  <2>3. QED
    BY <1>2, <2>1, <2>2, SecureCalm
<1>5. ASSUME NEW p \in Pid, Boot(p) \/ BootFails(p) \/ Exit(p) \/ Crash(p)
      PROVE  Authed' /\ Awaiting'
  <2>1. Fewer /\ UNCHANGED <<thread, failed>>
    BY <1>1, <1>5, MongodCalm
  <2>2. SameLogin
    BY <1>1, <1>5 DEF Boot, BootFails, Exit, Crash, SameLogin, TypeInv, StateOK,
                      ServerRecord
  <2>3. QED
    BY <1>2, <2>1, <2>2, SecureCalm
<1>6. CASE UNCHANGED vars
  <2>1. UNCHANGED <<server, os, failed, thread>>
    BY <1>6 DEF vars
  <2>2. Fewer
    BY <2>1 DEF Fewer, Alive
  <2>3. SameLogin /\ failed \subseteq failed'
    BY <2>1 DEF SameLogin
  <2>4. ASSUME NEW t \in Thread  PROVE StaysSecuring(t)
    <3>1. thread'[t] = thread[t]
      BY <2>1
    <3>2. QED
      BY <3>1 DEF StaysSecuring
  <2>5. QED
    BY <1>1, <2>2, <2>3, <2>4, SecureCalm
<1>8. ASSUME NEW o \in Obj, RepairEnds(o)
      PROVE  Authed' /\ Awaiting'
  <2>1. UNCHANGED <<os, thread, failed>> /\ SameLogin
    BY <1>1, <1>8, RepairEndsOK DEF SameLogin
  <2>2. Fewer
    BY <2>1 DEF Fewer, Alive
  <2>3. QED
    BY <1>2, <2>1, <2>2, SecureCalm
<1>7. QED
  BY <1>1, <1>3, <1>4, <1>5, <1>6, <1>8 DEF Next

\* When clients wait for their replies, a server that was created with a login
\* and that no request works on serves with authentication only, unless a
\* start() of it failed half way (Server.start).
THEOREM LoginEnforced ==
  ASSUME Serial
  PROVE  Spec => []SecuredServes
<1>1. Init => SecureInv
  <2> SUFFICES ASSUME Init
               PROVE  SecureInv
    OBVIOUS
  <2>1. \A p \in Pid : ~Alive(p)
    BY DEF Init, Gone, Alive
  <2>2. SecuredConf
    BY InitSecured
  <2>3. QED
    BY <2>1, <2>2, InitHand DEF SecureInv, Authed, Awaiting
<1>2. SecureInv /\ [Next]_vars => SecureInv'
  BY NextHand, NextSecure DEF SecureInv
<1>3. SecureInv => SecuredServes
  <2> SUFFICES ASSUME SecureInv, NEW o \in Registered \ (InHand \cup failed),
                      server[o].login, NEW p \in Serving(o)
               PROVE  os[p].auth
    BY DEF SecuredServes
  <2>1. p \in Pid /\ Alive(p) /\ os[p].obj = o /\ o \in Obj
    BY DEF Serving, LiveOf, Registered
  <2>2. \A t \in Thread : thread[t].self # o
    BY <2>1 DEF InHand, Self
  <2>3. ~server[o].restart_required
    BY <2>1, <2>2 DEF SecureInv, Awaiting
  <2>4. QED
    BY <2>1, <2>3 DEF SecureInv, Authed, Hard
<1>4. QED
  BY <1>1, <1>2, <1>3, PTL DEF Spec

-----------------------------------------------------------------------------
(***************************************************************************)
(* Clients that wait for their replies: the threads implement ServerLife.  *)
(*                                                                         *)
(* LifeInv is what the three invariants above give a step: who has which   *)
(* server, that nothing runs where the code goes on, and what a secured    *)
(* server is configured with.  Every step is one of ServerLife or leaves   *)
(* its three variables alone.                                              *)
(***************************************************************************)
LifeInv == HandInv /\ SecuredConf

\* The places that are no ids are told apart from the ids.
Named == Id \cap {"making", "out"} = {}

\* A server is in the making for as long as a request will register it.
Maker(o) ==
  \E t \in Thread : thread[t].self = o /\ Aim(thread[t]) = "register"

MakerMakes == \A o \in Obj : Making(o) <=> Maker(o)

LEMMA MakingAim == HandInv => MakerMakes
<1> SUFFICES ASSUME HandInv, NEW t \in Thread
             PROVE  Creating(t) \/ At(t, "register")
                      <=> Aim(thread[t]) = "register"
  BY DEF MakerMakes, Making, Maker, Self
<1>1. RequestOK(thread[t]) /\ Tidy(thread[t]) /\ TypeInv
  BY DEF HandInv, TypeInv, ThreadOK, Order
<1>2. CASE thread[t].pc \in Starting \cup Stopping
  <2>1. thread[t].pc # "register"
    BY <1>2 DEF Starting, Stopping
  <2>2. QED
    BY <1>1, <1>2, <2>1, CreatingAim DEF At
<1>3. CASE thread[t].pc \notin Starting \cup Stopping
  <2>1. thread[t].stack = <<>> /\ Aim(thread[t]) = thread[t].pc
    BY <1>1, <1>3, AimOf DEF Tidy
  <2>2. ~Creating(t)
    BY <2>1 DEF Creating
  <2>3. QED
    BY <2>1, <2>2 DEF At
<1>4. QED
  BY <1>2, <1>3

\* Where a server is.
PlaceIs ==
  \A o \in Obj :
    /\ \A i \in Id : storage[i] = o => Place[o] = i
    /\ o \notin Registered /\ Maker(o) => Place[o] = "making"
    /\ o \notin Registered /\ ~Maker(o) => Place[o] = "out"
    /\ Maker(o) => o \notin Registered

LEMMA PlaceOf == HandInv => PlaceIs
<1> SUFFICES ASSUME HandInv, NEW o \in Obj
             PROVE  /\ \A i \in Id : storage[i] = o => Place[o] = i
                    /\ o \notin Registered /\ Maker(o) => Place[o] = "making"
                    /\ o \notin Registered /\ ~Maker(o) => Place[o] = "out"
                    /\ Maker(o) => o \notin Registered
  BY DEF PlaceIs
<1>1. Making(o) <=> Maker(o)
  BY MakingAim DEF MakerMakes
<1>2. Place[o] = IF o \in Registered THEN CHOOSE i \in Id : storage[i] = o
                 ELSE IF Making(o) THEN "making" ELSE "out"
  BY DEF Place
<1>3. ASSUME NEW i \in Id, storage[i] = o
      PROVE  Place[o] = i
  <2>1. o \in Registered
    BY <1>3 DEF Registered
  <2>2. \A j \in Id : storage[j] = o => j = i
    BY <1>3, ServersAssumption DEF HandInv, Order, Apart
  <2>3. QED
    BY <1>2, <1>3, <2>1, <2>2
<1>4. ASSUME NEW t \in Thread, thread[t].self = o, Aim(thread[t]) = "register",
             NEW i \in Id, storage[i] = o
      PROVE  FALSE
  <2>1. i = thread[t].id /\ storage[thread[t].id] = NoObj
    BY <1>4, ServersAssumption DEF HandInv, Order, Apart, PlacedAt
  <2>2. QED
    BY <1>4, <2>1, ServersAssumption
<1>5. QED
  BY <1>1, <1>2, <1>3, <1>4 DEF Maker, Registered

\* What runs.
LEMMA RunsIs ==
  ASSUME TypeInv
  PROVE  /\ \A p \in Pid : Running[p] = Gone <=> ~Alive(p)
         /\ \A p \in Pid, o \in Obj :
              Life!Runs(p, o) <=> Alive(p) /\ os[p].obj = o
         /\ \A o \in Obj : Life!Still(o) <=> LiveOf(o) = {}
<1>1. ASSUME NEW p \in Pid
      PROVE  /\ Running[p] = Gone <=> ~Alive(p)
             /\ Alive(p) => Running[p].obj = os[p].obj
  <2>1. Running[p] = IF Alive(p)
                     THEN [obj |-> os[p].obj, auth |-> os[p].auth] ELSE Gone
    BY DEF Running
  <2>2. Alive(p) => os[p].obj # NoObj
    BY LiveType, ServersAssumption
  <2>3. Gone.obj = NoObj
    BY DEF Gone
  <2>4. Alive(p) => Running[p].obj = os[p].obj
    BY <2>1
  <2>5. QED
    BY <2>1, <2>2, <2>3, <2>4
<1>2. \A p \in Pid : Running[p] = Gone <=> ~Alive(p)
  BY <1>1
<1>3. \A p \in Pid, o \in Obj : Life!Runs(p, o) <=> Alive(p) /\ os[p].obj = o
  BY <1>1 DEF Life!Runs
<1>4. \A o \in Obj : Life!Still(o) <=> LiveOf(o) = {}
  BY <1>3 DEF Life!Still, LiveOf
<1>5. QED
  BY <1>2, <1>3, <1>4

\* What a step leaves alone.
LEMMA PlaceFrame ==
  ASSUME HandInv, HandInv', NEW S,
         \A o \in Obj \ S : /\ \A i \in Id : storage'[i] = o <=> storage[i] = o
                            /\ Maker(o)' <=> Maker(o)
  PROVE  \A o \in Obj \ S : Place'[o] = Place[o]
<1>1. PlaceIs /\ PlaceIs'
  <2>1. HandInv' => PlaceIs'
    BY PlaceOf, PTL
  <2>2. QED
    BY <2>1, PlaceOf
<1>2. ASSUME NEW o \in Obj \ S
      PROVE  Place'[o] = Place[o]
  <2>1. CASE \E i \in Id : storage[i] = o
    BY <1>1, <2>1 DEF PlaceIs
  <2>2. CASE ~ \E i \in Id : storage[i] = o
    <3>1. o \notin Registered /\ o \notin Registered'
      BY <2>2 DEF Registered
    <3>2. /\ Place[o] = IF Maker(o) THEN "making" ELSE "out"
          /\ Place'[o] = IF Maker(o)' THEN "making" ELSE "out"
      BY <1>1, <3>1 DEF PlaceIs
    <3>3. QED
      BY <3>2
  <2>3. QED
    BY <2>1, <2>2
<1>3. QED
  BY <1>2

LEMMA PlaceSame ==
  ASSUME HandInv, HandInv', storage' = storage,
         \A o \in Obj : Maker(o)' <=> Maker(o)
  PROVE  Place' = Place
<1>1. \A o \in Obj \ {} : Place'[o] = Place[o]
  BY PlaceFrame
<1>2. Place = [o \in Obj |-> Place[o]] /\ Place' = [o \in Obj |-> Place'[o]]
  BY DEF Place
<1>3. QED
  BY <1>1, <1>2

LEMMA PlaceMoves ==
  ASSUME HandInv, HandInv', NEW o \in Obj, NEW v, Place'[o] = v,
         \A u \in Obj \ {o} : /\ \A i \in Id : storage'[i] = u <=> storage[i] = u
                              /\ Maker(u)' <=> Maker(u)
  PROVE  Place' = [Place EXCEPT ![o] = v]
<1>1. \A u \in Obj \ {o} : Place'[u] = Place[u]
  BY PlaceFrame
<1>2. Place = [u \in Obj |-> Place[u]] /\ Place' = [u \in Obj |-> Place'[u]]
  BY DEF Place
<1> HIDE DEF Place
<1>3. [Place EXCEPT ![o] = v] = [u \in Obj |-> IF u = o THEN v ELSE Place[u]]
  BY <1>2
<1>4. QED
  BY <1>1, <1>2, <1>3

LEMMA WithinMaker ==
  ASSUME NEW t \in Thread, Within(t), NEW o
  PROVE  Maker(o)' <=> Maker(o)
BY DEF Within, Maker

SameRun ==
  \A p \in Pid : /\ Alive(p)' <=> Alive(p)
                 /\ Alive(p) => os'[p].obj = os[p].obj /\ os'[p].auth = os[p].auth

LEMMA RunningSame ==
  ASSUME SameRun
  PROVE  Running' = Running
BY DEF SameRun, Running

LEMMA HardSame ==
  ASSUME SameLogin
  PROVE  Hard' = Hard
BY DEF SameLogin, Hard

\* A step of ServerLife, or none.
LifeStep == [Life!Next]_<<Place, Running, Hard>>

LEMMA LifeStutter ==
  ASSUME Place' = Place, SameRun, SameLogin
  PROVE  LifeStep
BY RunningSame, HardSame DEF LifeStep

\* A step of start() or stop(), but for Popen and the restart with
\* authentication.
LEMMA CalmLife ==
  ASSUME LifeInv, HandInv', NEW t \in Thread,
         (CalmSteps(t) /\ ~Secure(t)) \/ WaitConnects(t)
  PROVE  LifeStep
<1>1. /\ TypeInv /\ Tidy(thread[t])
      /\ StartMoves(t) /\ StopMoves(t)
  BY StartMoving, StopMoving DEF LifeInv, HandInv, Order
<1>2. Within(t) /\ storage' = storage
  BY <1>1 DEF StartMoves, StopMoves, CalmSteps, Start, Repairs, Repair,
              Repaired, WaitTimesOut,
         IsMaster, AddUsers, Rewrite, Stop, Shutdown, ShutdownFails, Awaited,
         AwaitTimesOut, Kill, Reap, WaitConnects
<1>3. Place' = Place
  BY <1>2, WithinMaker, PlaceSame DEF LifeInv
<1>4. SameLogin
  BY <1>1 DEF CalmSteps, Start, Repairs, Repair, Repaired, WaitTimesOut,
              IsMaster, AddUsers,
         Rewrite, Stop, Shutdown, ShutdownFails, Awaited, AwaitTimesOut, Kill,
         Reap, WaitConnects, SameLogin, TypeInv, StateOK, ServerRecord
<1>5. SameRun
  <2>1. CASE os' = os
    BY <2>1 DEF SameRun, Alive
  <2>2. ASSUME NEW q, os' = Terminated(q)
        PROVE  SameRun
    BY <1>1, <2>2, LiveType DEF Terminated, SameRun, Alive, TypeInv, StateOK,
       Process
  <2>3. CASE Shutdown(t)
    BY <1>1, <2>3, LiveType
       DEF Shutdown, SameRun, Serving, LiveOf, Alive, TypeInv, StateOK, Process
  <2>4. QED
    BY <2>1, <2>2, <2>3
       DEF CalmSteps, Start, Repairs, Repair, Repaired, WaitTimesOut,
           IsMaster, AddUsers, Rewrite,
           Stop, ShutdownFails, Awaited, AwaitTimesOut, Kill, Reap, WaitConnects
<1>6. QED
  BY <1>3, <1>4, <1>5, LifeStutter

\* The restart with authentication: nothing runs.
LEMMA SecureLife ==
  ASSUME Named, LifeInv, HandInv', NEW t \in Thread, Secure(t)
  PROVE  LifeStep
<1> DEFINE o == Self(t)
<1>1. /\ TypeInv /\ o \in Obj /\ thread[t].self = o /\ LiveOf(o) = {}
      /\ Aim(thread[t]) \in {"register", "store"} /\ thread[t].id \in Id
      /\ Tidy(thread[t]) /\ PlacedAt(thread[t], storage)
  <2>1. /\ thread[t].pc = "secure" /\ thread[t].pc \in Starting
        /\ thread[t].pc # "idle"
    BY DEF Secure, At, Starting
  <2>2. TypeInv /\ Tidy(thread[t]) /\ PlacedAt(thread[t], storage)
    BY DEF LifeInv, HandInv, Order
  <2>3. o \in Obj /\ thread[t].self = o
    BY <2>1, <2>2, AtWork DEF TypeInv
  <2>4. thread[t].id \in Id
    BY <2>1, <2>2 DEF TypeInv, ThreadOK, RequestOK
  <2>5. LiveOf(o) = {}
    BY <2>1, <2>3 DEF LifeInv, HandInv, Stopped, StoppedAt, Still
  <2>6. QED
    BY <2>1, <2>2, <2>3, <2>4, <2>5 DEF Tidy
<1>2. Within(t) /\ storage' = storage /\ os' = os
  BY <1>1, StartMoving DEF StartMoves, Secure
<1>3. Place' = Place
  BY <1>2, WithinMaker, PlaceSame DEF LifeInv
<1>4. Running' = Running
  <2>1. SameRun
    BY <1>2 DEF SameRun, Alive
  <2>2. QED
    BY <2>1, RunningSame
<1>5. Place[o] # "out"
  <2>1. CASE Aim(thread[t]) = "register"
    BY <1>1, <2>1, PlaceOf DEF PlaceIs, Maker, LifeInv
  <2>2. CASE storage[thread[t].id] = o
    BY <1>1, <2>2, PlaceOf DEF PlaceIs, LifeInv, Named
  <2>3. QED
    BY <1>1, <2>1, <2>2 DEF PlacedAt
<1>6. /\ server'[o].login = server[o].login /\ ~server'[o].restart_required
      /\ \A u \in Obj \ {o} : server'[u] = server[u]
  BY <1>1 DEF Secure, TypeInv, StateOK, ServerRecord
<1> HIDE DEF o
<1>7. CASE server[o].login
  <2>1. Hard' = Hard \cup {o}
    BY <1>1, <1>6, <1>7 DEF Hard
  <2>2. Life!Secure(o)
    BY <1>1, <1>3, <1>4, <1>5, <2>1, RunsIs DEF Life!Secure
  <2>3. QED
    BY <1>1, <2>2 DEF Life!Next, LifeStep
<1>8. CASE ~server[o].login
  <2>1. Hard' = Hard
    BY <1>1, <1>6, <1>8 DEF Hard
  <2>2. QED
    BY <1>3, <1>4, <2>1 DEF LifeStep
<1>9. QED
  BY <1>7, <1>8

\* Popen: the server is registered or in the making, nothing of it runs, and
\* the process gets what the config file says.
LEMMA SpawnLife ==
  ASSUME Named, LifeInv, HandInv', NEW t \in Thread, NEW q \in Pid, Spawn(t, q)
  PROVE  LifeStep
<1> DEFINE o == Self(t)
<1>1. /\ TypeInv /\ o \in Obj /\ thread[t].self = o /\ LiveOf(o) = {}
      /\ Aim(thread[t]) \in {"register", "store"} /\ thread[t].id \in Id
      /\ Tidy(thread[t]) /\ PlacedAt(thread[t], storage)
  <2>1. /\ thread[t].pc = "spawn" /\ thread[t].pc \in Starting
        /\ thread[t].pc # "idle"
    BY DEF Spawn, At, Starting
  <2>2. TypeInv /\ Tidy(thread[t]) /\ PlacedAt(thread[t], storage)
    BY DEF LifeInv, HandInv, Order
  <2>3. o \in Obj /\ thread[t].self = o
    BY <2>1, <2>2, AtWork DEF TypeInv
  <2>4. thread[t].id \in Id
    BY <2>1, <2>2 DEF TypeInv, ThreadOK, RequestOK
  <2>5. LiveOf(o) = {}
    BY <2>1, <2>3 DEF LifeInv, HandInv, Stopped, StoppedAt, Still
  <2>6. QED
    BY <2>1, <2>2, <2>3, <2>4, <2>5 DEF Tidy
<1>2. Within(t) /\ storage' = storage /\ server' = server
  BY <1>1, StartMoving DEF StartMoves, Spawn
<1>3. Place' = Place
  BY <1>2, WithinMaker, PlaceSame DEF LifeInv
<1>4. Hard' = Hard
  BY <1>2 DEF Hard
<1>5. Place[o] # "out"
  <2>1. CASE Aim(thread[t]) = "register"
    BY <1>1, <2>1, PlaceOf DEF PlaceIs, Maker, LifeInv
  <2>2. CASE storage[thread[t].id] = o
    BY <1>1, <2>2, PlaceOf DEF PlaceIs, LifeInv, Named
  <2>3. QED
    BY <1>1, <2>1, <2>2 DEF PlacedAt
<1>6. server[o].auth \in BOOLEAN /\ (o \in Hard => server[o].auth)
  BY <1>1 DEF LifeInv, SecuredConf, Hard, TypeInv, StateOK, ServerRecord
<1>7. ~Alive(q) /\ q # NoPid
      /\ os' = [os EXCEPT ![q] = [obj |-> o, auth |-> server[o].auth,
                                  st |-> "boot"]]
  BY ServersAssumption DEF Spawn, FreshPid, Me
<1> HIDE DEF o
<1>8. Running' = [Running EXCEPT ![q] = [obj |-> o, auth |-> server[o].auth]]
  <2>1. /\ Alive(q)' /\ os'[q].obj = o /\ os'[q].auth = server[o].auth
        /\ \A p \in Pid \ {q} : os'[p] = os[p] /\ (Alive(p)' <=> Alive(p))
    BY <1>1, <1>7 DEF Alive, TypeInv, StateOK
  <2>2. Running = [p \in Pid |-> Running[p]] /\ Running' = [p \in Pid |-> Running'[p]]
    BY DEF Running
  <2>3. /\ Running'[q] = [obj |-> o, auth |-> server[o].auth]
        /\ \A p \in Pid \ {q} : Running'[p] = Running[p]
    BY <2>1 DEF Running
  <2> HIDE DEF Running
  <2>4. QED
    BY <2>2, <2>3
<1>9. Life!Launch(q, o, server[o].auth)
  BY <1>1, <1>3, <1>4, <1>5, <1>6, <1>7, <1>8, RunsIs DEF Life!Launch
<1>10. QED
  BY <1>1, <1>6, <1>9 DEF Life!Next, LifeStep

\* An exception: a create() makes nothing.
LEMMA RaiseLife ==
  ASSUME LifeInv, HandInv', NEW t \in Thread, Raises(t)
  PROVE  LifeStep
<1>1. /\ TypeInv /\ thread[t].self \in Obj /\ Reply(t) /\ UNCHANGED <<storage, server, os>>
      /\ thread' = [thread EXCEPT ![t] = Idle]
  BY RaisesLabel, AtWork DEF LifeInv, HandInv, TypeInv, Raise, Reply
<1> PICK o \in Obj : o = thread[t].self
  BY <1>1
<1>2. /\ thread'[t] = Idle
      /\ \A u \in Thread \ {t} : thread'[u] = thread[u]
  BY <1>1 DEF TypeInv, ThreadOK
<1>3. \A x \in Obj : Maker(x)' <=> \E u \in Thread \ {t} :
        thread[u].self = x /\ Aim(thread[u]) = "register"
  BY <1>2, IdleTidy DEF Maker
<1>4. Running' = Running /\ Hard' = Hard
  <2>1. SameRun /\ SameLogin
    BY <1>1 DEF SameRun, SameLogin, Alive
  <2>2. QED
    BY <2>1, RunningSame, HardSame
<1>5. \A u \in Thread \ {t} : thread[u].self # o
  BY <1>1, ServersAssumption DEF LifeInv, HandInv, Order, Apart
<1>6. CASE Aim(thread[t]) = "register"
  <2>1. Maker(o) /\ ~Maker(o)'
    BY <1>1, <1>3, <1>5, <1>6 DEF Maker
  <2>2. Place[o] = "making" /\ o \notin Registered
    BY <1>1, <2>1, PlaceOf DEF PlaceIs, LifeInv
  <2>3. Place'[o] = "out"
    <3>1. PlaceIs'
      <4>1. HandInv' => PlaceIs'
        BY PlaceOf, PTL
      <4>2. QED
        BY <4>1
    <3>2. o \notin Registered'
      BY <1>1, <2>2 DEF Registered
    <3>3. QED
      BY <1>1, <2>1, <3>1, <3>2 DEF PlaceIs
  <2>4. \A x \in Obj \ {o} : Maker(x)' <=> Maker(x)
    BY <1>3 DEF Maker
  <2>5. Place' = [Place EXCEPT ![o] = "out"]
    BY <1>1, <2>3, <2>4, PlaceMoves DEF LifeInv
  <2>6. QED
    BY <1>1, <1>4, <2>2, <2>5 DEF Life!Abandon, Life!Next, LifeStep
<1>7. CASE Aim(thread[t]) # "register"
  <2>1. \A x \in Obj : Maker(x)' <=> Maker(x)
    BY <1>3, <1>7 DEF Maker
  <2>2. QED
    BY <1>1, <1>4, <2>1, PlaceSame DEF LifeInv, LifeStep
<1>8. QED
  BY <1>6, <1>7

\* A request that would register nothing before or after its step.
LEMMA NoMaker ==
  ASSUME NEW t \in Thread, \A u \in Thread \ {t} : thread'[u] = thread[u],
         thread[t].self = NoObj \/ Aim(thread[t]) # "register",
         thread'[t].self = NoObj \/ Aim(thread'[t]) # "register"
  PROVE  \A o \in Obj : Maker(o)' <=> Maker(o)
BY ServersAssumption DEF Maker

LEMMA SameLife ==
  ASSUME UNCHANGED <<server, os>>
  PROVE  /\ SameRun /\ SameLogin /\ Running' = Running /\ Hard' = Hard
<1>1. SameRun /\ SameLogin
  BY DEF SameRun, SameLogin, Alive
<1>2. QED
  BY <1>1, RunningSame, HardSame

\* A new server: nothing names it and nothing of it runs.
LEMMA ConstructLife ==
  ASSUME LifeInv, HandInv', NEW t \in Thread, NEW o \in Obj,
         NEW a \in BOOLEAN, NEW b \in BOOLEAN, Construct(t, o, a, b)
  PROVE  LifeStep
<1>1. /\ TypeInv /\ LiveOf(o) = {} /\ o \notin Registered /\ o \notin InHand
      /\ UNCHANGED <<storage, os>>
      /\ server' = [server EXCEPT ![o] = NewServer(a)]
      /\ thread[t].self = NoObj
  <2>1. thread[t].pc = "construct" /\ "construct" \notin Working
    BY DEF Construct, At, Working, Starting, Stopping, Last
  <2>2. QED
    BY <2>1 DEF Construct, FreshObj, LifeInv, HandInv, Order, Tidy
<1>2. /\ thread'[t].self = o
      /\ \A u \in Thread \ {t} : thread'[u] = thread[u]
  BY ConstructOrder DEF LifeInv, HandInv
<1>3. Aim(thread'[t]) = "register"
  <2>1. CASE b
    <3>1. thread'[t].stack = <<"register">>
      BY <1>1, <2>1 DEF Construct, TypeInv, ThreadOK, Request
    <3>2. QED
      BY <3>1, ShallowAim DEF Aim
  <2>2. CASE ~b
    <3>1. thread'[t].stack = <<>> /\ thread'[t].pc = "register"
      BY <1>1, <2>2 DEF Construct, TypeInv, ThreadOK, Request
    <3>2. QED
      BY <3>1 DEF Aim
  <2>3. QED
    BY <2>1, <2>2
<1>4. /\ ~Maker(o) /\ Maker(o)'
      /\ \A u \in Obj \ {o} : Maker(u)' <=> Maker(u)
  <2>1. ~Maker(o)
    BY <1>1 DEF Maker, InHand, Self
  <2>2. Maker(o)'
    BY <1>2, <1>3 DEF Maker
  <2>3. \A u \in Obj \ {o} : Maker(u)' <=> Maker(u)
    BY <1>1, <1>2, ServersAssumption DEF Maker
  <2>4. QED
    BY <2>1, <2>2, <2>3
<1>5. PlaceIs /\ PlaceIs'
  <2>1. HandInv' => PlaceIs'
    BY PlaceOf, PTL
  <2>2. QED
    BY <2>1, PlaceOf DEF LifeInv
<1>6. Place[o] = "out" /\ Place'[o] = "making"
  BY <1>1, <1>4, <1>5 DEF PlaceIs
<1>7. Place' = [Place EXCEPT ![o] = "making"]
  BY <1>1, <1>4, <1>6, PlaceMoves DEF LifeInv
<1>8. Running' = Running
  <2>1. SameRun
    BY <1>1 DEF SameRun, Alive
  <2>2. QED
    BY <2>1, RunningSame
<1>9. Hard' = Hard \ {o}
  <2>1. server'[o].login = a /\ server'[o].restart_required = a
    BY <1>1 DEF NewServer, TypeInv, StateOK
  <2>2. \A u \in Obj \ {o} : server'[u] = server[u]
    BY <1>1 DEF TypeInv, StateOK
  <2>3. QED
    BY <2>1, <2>2 DEF Hard
<1>10. Life!Make(o)
  BY <1>1, <1>6, <1>7, <1>8, <1>9, RunsIs DEF Life!Make
<1>11. QED
  BY <1>10 DEF Life!Next, LifeStep

\* create() ends: the id was free and names the new server from now on.
LEMMA RegisterLife ==
  ASSUME Named, LifeInv, HandInv', NEW t \in Thread, Register(t)
  PROVE  LifeStep
<1>1. /\ TypeInv /\ thread[t].pc = "register" /\ thread[t].self \in Obj
      /\ thread[t].id \in Id /\ Tidy(thread[t]) /\ RequestOK(thread[t])
      /\ PlacedAt(thread[t], storage)
  BY DEF Register, At, LifeInv, HandInv, Order, TypeInv, ThreadOK, RequestOK,
         Last
<1> PICK o \in Obj : o = thread[t].self
  BY <1>1
<1> PICK i \in Id : i = thread[t].id
  BY <1>1
<1>2. Aim(thread[t]) = "register" /\ storage[i] = NoObj
  BY <1>1, AimOf DEF Starting, Stopping, PlacedAt
<1>3. /\ thread' = [thread EXCEPT ![t] = Idle] /\ UNCHANGED <<server, os>>
      /\ storage' = [storage EXCEPT ![i] = o]
  BY DEF Register, Reply, Self
<1>4. /\ storage'[i] = o /\ \A j \in Id \ {i} : storage'[j] = storage[j]
      /\ thread'[t] = Idle /\ \A u \in Thread \ {t} : thread'[u] = thread[u]
  BY <1>1, <1>3 DEF TypeInv, StateOK, ThreadOK
<1>5. PlaceIs /\ PlaceIs'
  <2>1. HandInv' => PlaceIs'
    BY PlaceOf, PTL
  <2>2. QED
    BY <2>1, PlaceOf DEF LifeInv
<1>6. Place[o] = "making" /\ Place'[o] = i
  <2>1. Maker(o)
    BY <1>2 DEF Maker
  <2>2. QED
    BY <1>4, <1>5, <2>1 DEF PlaceIs
<1>7. \A u \in Obj : Place[u] # i
  <2>1. ASSUME NEW u \in Obj, NEW j \in Id, storage[j] = u
        PROVE  Place[u] # i
    BY <1>2, <1>5, <2>1, ServersAssumption DEF PlaceIs
  <2>2. ASSUME NEW u \in Obj, u \notin Registered
        PROVE  Place[u] # i
    BY <1>5, <2>2 DEF PlaceIs, Named
  <2>3. QED
    BY <2>1, <2>2 DEF Registered
<1>8. \A u \in Obj \ {o} : /\ \A j \in Id : storage'[j] = u <=> storage[j] = u
                           /\ Maker(u)' <=> Maker(u)
  <2>1. \A u \in Obj \ {o} : Maker(u)' <=> Maker(u)
    BY <1>4, IdleTidy, ServersAssumption DEF Maker
  <2>2. \A u \in Obj \ {o}, j \in Id : storage'[j] = u <=> storage[j] = u
    BY <1>2, <1>4, ServersAssumption
  <2>3. QED
    BY <2>1, <2>2
<1>9. Place' = [Place EXCEPT ![o] = i]
  BY <1>6, <1>8, PlaceMoves DEF LifeInv
<1>10. Life!Enter(o, i)
  BY <1>3, <1>6, <1>7, <1>9, SameLife DEF Life!Enter
<1>11. QED
  BY <1>10 DEF Life!Next, LifeStep

\* remove() pops the server; the request that stops it registers nothing.
LEMMA RemoveLife ==
  ASSUME LifeInv, HandInv', NEW t \in Thread, Remove(t)
  PROVE  LifeStep
<1>1. /\ TypeInv /\ thread[t].pc = "remove" /\ thread[t].self = NoObj
      /\ thread[t].id \in Id /\ UNCHANGED <<server, os>>
  <2>1. thread[t].pc = "remove" /\ "remove" \notin Working
    BY DEF Remove, At, Working, Starting, Stopping, Last
  <2>2. QED
    BY <2>1 DEF Remove, LifeInv, HandInv, Order, Tidy, TypeInv, ThreadOK,
                RequestOK
<1>2. \A u \in Thread \ {t} : thread'[u] = thread[u]
  BY <1>1 DEF Remove, Reply, TypeInv, ThreadOK
<1> PICK i \in Id : i = thread[t].id
  BY <1>1
<1>3. CASE storage[i] = NoObj
  <2>1. thread'[t].self = NoObj /\ storage' = storage
    BY <1>1, <1>3, IdleTidy DEF Remove, Reply, TypeInv, ThreadOK
  <2>2. Place' = Place
    BY <1>1, <1>2, <2>1, NoMaker, PlaceSame DEF LifeInv
  <2>3. QED
    BY <1>1, <2>2, SameLife DEF LifeStep
<1>4. CASE storage[i] # NoObj
  <2>1. storage[i] \in Obj
    BY <1>1, <1>4 DEF TypeInv, StateOK
  <2> PICK o \in Obj : o = storage[i]
    BY <2>1
  <2>2. /\ storage'[i] = NoObj /\ \A j \in Id \ {i} : storage'[j] = storage[j]
    BY <1>1, <1>4 DEF Remove, TypeInv, StateOK
  <2>3. thread'[t].self = o /\ thread'[t].stack = <<"cleanup">>
    BY <1>1, <1>4 DEF Remove, TypeInv, ThreadOK, Request
  <2>4. Aim(thread'[t]) = "cleanup"
    BY <2>3, ShallowAim DEF Aim
  <2>5. \A u \in Obj : Maker(u)' <=> Maker(u)
    BY <1>1, <1>2, <2>4, NoMaker
  <2>6. PlaceIs /\ PlaceIs'
    <3>1. HandInv' => PlaceIs'
      BY PlaceOf, PTL
    <3>2. QED
      BY <3>1, PlaceOf DEF LifeInv
  <2>7. Place[o] = i /\ ~Maker(o)
    BY <2>6 DEF PlaceIs, Registered
  <2>8. o \notin Registered'
    <3>1. \A j \in Id \ {i} : storage[j] # o
      BY <1>4 DEF LifeInv, HandInv, Order, Apart
    <3>2. \A j \in Id : storage'[j] # o
      BY <2>2, <3>1, ServersAssumption
    <3>3. QED
      BY <3>2 DEF Registered
  <2>9. Place'[o] = "out"
    BY <2>5, <2>6, <2>7, <2>8 DEF PlaceIs
  <2>10. \A u \in Obj \ {o}, j \in Id : storage'[j] = u <=> storage[j] = u
    BY <2>2, ServersAssumption
  <2>11. Place' = [Place EXCEPT ![o] = "out"]
    BY <2>5, <2>9, <2>10, PlaceMoves DEF LifeInv
  <2>12. Life!Leave(o)
    BY <1>1, <2>7, <2>11, SameLife DEF Life!Leave
  <2>13. QED
    BY <2>12 DEF Life!Next, LifeStep
<1>5. QED
  BY <1>3, <1>4

\* The other ends and beginnings of a request are not seen.
LEMMA RequestLife ==
  ASSUME LifeInv, HandInv', NEW t \in Thread,
         \/ \E i \in Id, l \in {"create", "command", "remove"} : Receive(t, i, l)
         \/ Create(t) \/ ConstructFails(t)
         \/ \E m \in {"start", "stop", "restart"} : Command(t, m)
  PROVE  LifeStep
<1>1. /\ TypeInv /\ thread[t].self = NoObj /\ UNCHANGED <<storage, server, os>>
  <2>1. /\ thread[t].pc \in {"idle", "create", "construct", "command"}
        /\ UNCHANGED <<storage, server, os>>
    BY DEF Receive, Create, ConstructFails, Command, At
  <2>2. thread[t].pc \notin Working
    BY <2>1 DEF Working, Starting, Stopping, Last
  <2>3. QED
    BY <2>1, <2>2 DEF LifeInv, HandInv, Order, Tidy
<1>2. \A u \in Thread \ {t} : thread'[u] = thread[u]
  BY <1>1 DEF Receive, Create, ConstructFails, Command, Reply, Goto, TypeInv,
              ThreadOK
<1>3. thread'[t].self = NoObj \/ Aim(thread'[t]) # "register"
  <2>1. CASE \/ \E i \in Id, l \in {"create", "command", "remove"} : Receive(t, i, l)
             \/ Create(t) \/ ConstructFails(t)
    BY <1>1, <2>1, IdleTidy
       DEF Receive, Create, ConstructFails, Reply, Goto, TypeInv, ThreadOK,
           Request
  <2>2. ASSUME NEW m \in {"start", "stop", "restart"}, Command(t, m)
        PROVE  thread'[t].self = NoObj \/ Aim(thread'[t]) # "register"
    <3>1. CASE storage[thread[t].id] = NoObj
      BY <1>1, <2>2, <3>1, IdleTidy DEF Command, Reply, TypeInv, ThreadOK
    <3>2. CASE storage[thread[t].id] # NoObj
      <4>1. thread'[t].stack \in {<<"store">>, <<"rewrite", "store">>}
        BY <1>1, <2>2, <3>2 DEF Command, TypeInv, ThreadOK, Request
      <4>2. CASE thread'[t].stack = <<"store">>
        BY <4>2, ShallowAim DEF Aim
      <4>3. CASE thread'[t].stack = <<"rewrite", "store">>
        BY <4>3, DeepAim DEF Aim
      <4>4. QED
        BY <4>1, <4>2, <4>3
    <3>3. QED
      BY <3>1, <3>2
  <2>3. QED
    BY <2>1, <2>2
<1>4. Place' = Place
  BY <1>1, <1>2, <1>3, NoMaker, PlaceSame DEF LifeInv
<1>5. QED
  BY <1>1, <1>4, SameLife DEF LifeStep

\* command() stores the server where it was; cleanup() deletes files.
LEMMA EndLife ==
  ASSUME LifeInv, HandInv', NEW t \in Thread, Store(t) \/ Cleanup(t)
  PROVE  LifeStep
<1>1. /\ TypeInv /\ RequestOK(thread[t]) /\ Tidy(thread[t])
      /\ PlacedAt(thread[t], storage)
      /\ thread[t].pc \in {"store", "cleanup"} /\ thread[t].id \in Id
      /\ thread[t].self \in Obj
  BY DEF Store, Cleanup, At, LifeInv, HandInv, Order, TypeInv, ThreadOK,
         RequestOK, Last
<1>2. Aim(thread[t]) = thread[t].pc
  BY <1>1, AimOf DEF Starting, Stopping
<1>3. thread'[t] = Idle /\ \A u \in Thread \ {t} : thread'[u] = thread[u]
  BY <1>1 DEF Store, Cleanup, Reply, TypeInv, ThreadOK
<1>4. storage' = storage
  <2>1. CASE Store(t)
    <3>1. storage[thread[t].id] = thread[t].self
      BY <1>1, <1>2, <2>1 DEF Store, At, PlacedAt
    <3>2. /\ storage' = [storage EXCEPT ![thread[t].id] = thread[t].self]
          /\ storage = [i \in Id |-> storage[i]]
      BY <1>1, <2>1 DEF Store, Self, TypeInv, StateOK
    <3>3. QED
      BY <3>1, <3>2
  <2>2. QED
    BY <2>1 DEF Cleanup
<1>5. Place' = Place
  BY <1>1, <1>2, <1>3, <1>4, IdleTidy, NoMaker, PlaceSame DEF LifeInv
<1>6. SameLogin /\ os' = os
  <2>1. CASE Store(t)
    BY <2>1 DEF Store, SameLogin
  <2>2. CASE Cleanup(t)
    <3>1. PICK r \in ServerRecord :
            /\ server' = [server EXCEPT ![Self(t)] = r]
            /\ r.login = server[Self(t)].login
            /\ r.restart_required = server[Self(t)].restart_required
      BY <1>1, <2>2, CleanupFields
    <3>2. SameLogin
      BY <1>1, <3>1 DEF SameLogin, TypeInv, StateOK
    <3>3. QED
      BY <2>2, <3>2 DEF Cleanup
  <2>3. QED
    BY <2>1, <2>2
<1>7. SameRun
  BY <1>6 DEF SameRun, Alive
<1>8. QED
  BY <1>5, <1>6, <1>7, LifeStutter

\* A process ends, or goes on booting.
LEMMA MongodLife ==
  ASSUME LifeInv, HandInv', NEW p \in Pid,
         Boot(p) \/ BootFails(p) \/ Exit(p) \/ Crash(p)
  PROVE  LifeStep
<1>1. TypeInv /\ UNCHANGED <<storage, thread>>
  BY DEF LifeInv, HandInv, Boot, BootFails, Exit, Crash
<1>2. Place' = Place
  BY <1>1, PlaceSame DEF LifeInv, Maker
<1>3. SameLogin
  BY <1>1 DEF Boot, BootFails, Exit, Crash, SameLogin, TypeInv, StateOK,
              ServerRecord
<1>4. CASE Boot(p)
  <2>1. SameRun
    BY <1>1, <1>4, LiveType DEF Boot, SameRun, Alive, TypeInv, StateOK, Process
  <2>2. QED
    BY <1>2, <1>3, <2>1, LifeStutter
<1>5. CASE BootFails(p) \/ Exit(p) \/ Crash(p)
  <2>1. os' = [os EXCEPT ![p] = Gone]
    BY <1>5 DEF BootFails, Exit, Crash
  <2>2. ~Alive(p)' /\ \A q \in Pid \ {p} : os'[q] = os[q] /\ (Alive(q)' <=> Alive(q))
    BY <1>1, <2>1 DEF Alive, Gone, TypeInv, StateOK
  <2>3. Running = [q \in Pid |-> Running[q]] /\ Running' = [q \in Pid |-> Running'[q]]
    BY DEF Running
  <2>4. Running'[p] = Gone /\ \A q \in Pid \ {p} : Running'[q] = Running[q]
    BY <2>2 DEF Running
  <2> HIDE DEF Running
  <2>5. Running' = [Running EXCEPT ![p] = Gone]
    BY <2>3, <2>4
  <2>6. Life!End(p)
    BY <1>2, <1>3, <2>5, HardSame DEF Life!End
  <2>7. QED
    BY <2>6 DEF Life!Next, LifeStep
<1>6. QED
  BY <1>4, <1>5

LEMMA NextLife ==
  ASSUME Named, LifeInv, HandInv', [Next]_vars
  PROVE  LifeStep
<1>1. ASSUME NEW t \in Thread, Step(t)
      PROVE  LifeStep
  <2>1. CASE CalmSteps(t) \/ WaitConnects(t)
    BY <2>1, CalmLife, SecureLife
  <2>2. CASE Raises(t)
    BY <2>2, RaiseLife
  <2>3. CASE Requests(t)
    BY <2>3, RequestLife, RemoveLife DEF Requests
  <2>4. ASSUME NEW o \in Obj, NEW a \in BOOLEAN, NEW b \in BOOLEAN,
               Construct(t, o, a, b)
        PROVE  LifeStep
    BY <2>4, ConstructLife
  <2>5. ASSUME NEW p \in Pid, Spawn(t, p)
        PROVE  LifeStep
    BY <2>5, SpawnLife
  <2>6. CASE Register(t) \/ Store(t) \/ Cleanup(t)
    BY <2>6, RegisterLife, EndLife
  <2>7. QED
    BY <1>1, <2>1, <2>2, <2>3, <2>4, <2>5, <2>6, StepKinds
<1>2. ASSUME NEW t \in Thread, NEW i \in Id,
             NEW l \in {"create", "command", "remove"}, Receive(t, i, l)
      PROVE  LifeStep
  BY <1>2, RequestLife
<1>3. ASSUME NEW p \in Pid, Boot(p) \/ BootFails(p) \/ Exit(p) \/ Crash(p)
      PROVE  LifeStep
  BY <1>3, MongodLife
<1>4. CASE UNCHANGED vars
  <2>1. Place' = Place
    BY <1>4, PlaceSame DEF LifeInv, Maker, vars
  <2>2. UNCHANGED <<server, os>>
    BY <1>4 DEF vars
  <2>3. QED
    BY <2>1, <2>2, SameLife DEF LifeStep
<1>5. ASSUME NEW o \in Obj, RepairEnds(o)
      PROVE  LifeStep
  <2>1. UNCHANGED <<storage, os, thread>> /\ SameLogin
    BY <1>5, RepairEndsOK DEF SameLogin, LifeInv, HandInv
  <2>2. Place' = Place
    BY <2>1, PlaceSame DEF LifeInv, Maker
  <2>3. SameRun
    BY <2>1 DEF SameRun, Alive
  <2>4. QED
    BY <2>1, <2>2, <2>3, LifeStutter
<1>6. QED
  BY <1>1, <1>2, <1>3, <1>4, <1>5 DEF Next

\* When clients wait for their replies, the threads, whatever requests,
\* restarts, timeouts and crashes do, implement the life of a server: one
\* process at a time, none of a server that has been removed, and only with
\* authentication once it has been secured (Server.start, stop, restart,
\* Servers.create, command, remove).
THEOREM Refinement ==
  ASSUME Serial, Named
  PROVE  Spec => Lives
<1>1. Init => LifeInv
  BY InitHand, InitSecured DEF LifeInv
<1>2. LifeInv /\ [Next]_vars => LifeInv'
  BY NextHand, KeepsSecuredConf DEF LifeInv, HandInv
<1>3. Init => Life!Init
  <2> SUFFICES ASSUME Init
               PROVE  Life!Init
    OBVIOUS
  <2>1. HandInv
    BY InitHand
  <2>2. \A o \in Obj : o \notin Registered /\ ~Maker(o)
    BY IdleTidy, ServersAssumption DEF Init, Registered, Maker
  <2>3. Place = [o \in Obj |-> "out"]
    BY <2>1, <2>2, PlaceOf DEF PlaceIs, Place
  <2>4. Running = [p \in Pid |-> Gone]
    BY DEF Init, Running, Alive, Gone
  <2>5. Hard = {}
    BY DEF Init, Hard, NewServer
  <2>6. QED
    BY <2>3, <2>4, <2>5 DEF Life!Init
<1>4. LifeInv /\ LifeInv' /\ [Next]_vars => [Life!Next]_<<Place, Running, Hard>>
  BY NextLife DEF LifeInv, LifeStep
<1>5. QED
  BY <1>1, <1>2, <1>3, <1>4, PTL DEF Spec, Lives, Life!Spec
=============================================================================
