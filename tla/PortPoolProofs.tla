--------------------------- MODULE PortPoolProofs ---------------------------
(***************************************************************************)
(* Theorems about PortPool, for every set of servers and of ports and any  *)
(* number of threads.                                                      *)
(*                                                                         *)
(* Typing is proved for all the specifications of the module.  That a port *)
(* is granted once needs a strengthening: what a server holds is not in    *)
(* the pool (GrantInv).  A thread inside __init_range or refresh breaks    *)
(* that for a while; with one thread nobody sees it, and with several the  *)
(* theorem speaks of the time before the first refresh().                  *)
(***************************************************************************)
EXTENDS PortPool, FiniteSetTheorems, TLAPS

-----------------------------------------------------------------------------
(***************************************************************************)
(* Types.                                                                  *)
(***************************************************************************)
\* A server holds a port of the pool from the pop on: what release_port and
\* Close put into the two sets is a port.
HoldersHavePorts == \A s \in Holders : port[s] \in Port

TypeInv == TypeOK /\ HoldersHavePorts

LEMMA InitTypeInv == Init \/ InitBoot => TypeInv
BY DEF Init, InitBoot, InitLocals, TypeInv, TypeOK, Label, HoldersHavePorts,
       Holders

LEMMA StepTypeInv ==
  ASSUME TypeInv, NEW s \in Server, Step(s)
  PROVE  TypeInv'
<1> USE DEF TypeInv, TypeOK, Label, HoldersHavePorts, Holders, poolVars,
            localVars, envVars, history, Goto
<1>1. CASE CheckId(s)
  BY <1>1 DEF CheckId
<1>2. CASE Claim(s)
  BY <1>2 DEF Claim
<1>3. CASE InitPorts(s)
  BY <1>3 DEF InitPorts
<1>4. CASE InitClosed(s)
  BY <1>4 DEF InitClosed
<1>5. CASE Refresh(s)
  BY <1>5 DEF Refresh
<1>6. ASSUME NEW p \in Port, Probe(s, p)
      PROVE  TypeInv'
  <2>1. recycled' \in BOOLEAN
    BY <1>6 DEF Probe, Held
  <2>2. /\ opened' \in [Server -> SUBSET Port]
        /\ todo' \in [Server -> SUBSET Port]
    BY <1>6 DEF Probe
  <2>3. QED
    BY <1>6, <2>1, <2>2 DEF Probe
<1>7. CASE RefreshPorts(s)
  BY <1>7 DEF RefreshPorts
<1>8. CASE RefreshClosed(s)
  BY <1>8 DEF RefreshClosed
<1>9. CASE TestEmpty(s)
  BY <1>9 DEF TestEmpty
<1>10. ASSUME NEW p \in Port, Pop(s, p)
       PROVE  TypeInv'
  BY <1>10 DEF Pop
<1>11. CASE PopFails(s)
  BY <1>11 DEF PopFails
<1>12. CASE CheckFree(s)
  BY <1>12 DEF CheckFree
<1>13. CASE CheckBusy(s)
  BY <1>13 DEF CheckBusy
<1>14. CASE Close(s)
  BY <1>14 DEF Close
<1>15. QED
  BY <1>1, <1>2, <1>3, <1>4, <1>5, <1>6, <1>7, <1>8, <1>9, <1>10, <1>11,
     <1>12, <1>13, <1>14 DEF Step

LEMMA NextTypeInv ==
  ASSUME TypeInv, [NextPublic]_vars
  PROVE  TypeInv'
<1> USE DEF TypeInv, TypeOK, Label, HoldersHavePorts, Holders, poolVars,
            localVars, envVars, history, Goto
<1>1. ASSUME NEW s \in Server, Call(s)
      PROVE  TypeInv'
  BY <1>1 DEF Call
<1>2. ASSUME NEW s \in Server, Step(s)
      PROVE  TypeInv'
  BY <1>2, StepTypeInv
<1>3. ASSUME NEW s \in Server, Start(s) \/ Stop(s) \/ Remove(s)
      PROVE  TypeInv'
  BY <1>3 DEF Start, Stop, Remove
<1>4. ASSUME NEW p \in Port, ForeignBinds(p) \/ ForeignCloses(p)
      PROVE  TypeInv'
  BY <1>4 DEF ForeignBinds, ForeignCloses
<1>5. ASSUME NEW s \in Server, NEW R \in SUBSET Port, ChangeRange(s, R)
      PROVE  TypeInv'
  BY <1>5 DEF ChangeRange
<1>6. CASE RefreshOnlyClosed
  BY <1>6 DEF RefreshOnlyClosed
<1>7. CASE UNCHANGED vars
  BY <1>7 DEF vars
<1>8. QED
  BY <1>1, <1>2, <1>3, <1>4, <1>5, <1>6, <1>7
     DEF NextPublic, Next, Environment

\* Whatever the pool does, its two sets hold ports and the locals of every
\* constructor are what the code puts there.
THEOREM TypeCorrect == Spec \/ SpecBoot \/ SpecPublic => []TypeOK
<1>1. TypeInv /\ [NextPublic]_vars => TypeInv'
  BY NextTypeInv
<1>2. [Next]_vars => [NextPublic]_vars
  BY DEF NextPublic
<1>3. TypeInv => TypeOK
  BY DEF TypeInv
<1>4. QED
  BY InitTypeInv, <1>1, <1>2, <1>3, PTL DEF Spec, SpecBoot, SpecPublic
-----------------------------------------------------------------------------
(***************************************************************************)
(* One thread.                                                             *)
(***************************************************************************)
OneThread == Workers = 1 => \A s, t \in Busy : s = t

LEMMA EnterAlone ==
  ASSUME Workers = 1, Cardinality(Busy) < Workers
  PROVE  Busy = {}
<1>1. Busy \in SUBSET Server
  BY DEF Busy
<1>2. IsFiniteSet(Busy)
  BY <1>1, PoolAssumption, FS_Subset
<1>3. Cardinality(Busy) \in Nat
  BY <1>2, FS_CardinalityType
<1>4. Cardinality(Busy) = 0
  BY <1>3
<1>5. QED
  BY <1>2, <1>4, FS_EmptySet

\* A step of a thread inside the pool lets nobody else in.
LEMMA StepKeepsOthersOut ==
  ASSUME TypeInv, NEW s \in Server, Step(s)
  PROVE  s \in Busy /\ Busy' \subseteq Busy
<1> USE DEF TypeInv, TypeOK, Label, Busy, Goto, localVars
<1>1. CASE CheckId(s)
  BY <1>1 DEF CheckId
<1>2. CASE Claim(s)
  BY <1>2 DEF Claim
<1>3. CASE InitPorts(s)
  BY <1>3 DEF InitPorts
<1>4. CASE InitClosed(s)
  BY <1>4 DEF InitClosed
<1>5. CASE Refresh(s)
  BY <1>5 DEF Refresh
<1>6. CASE RefreshPorts(s)
  BY <1>6 DEF RefreshPorts
<1>7. CASE RefreshClosed(s)
  BY <1>7 DEF RefreshClosed
<1>8. CASE TestEmpty(s)
  BY <1>8 DEF TestEmpty
<1>9. CASE PopFails(s)
  BY <1>9 DEF PopFails
<1>10. CASE CheckFree(s)
  BY <1>10 DEF CheckFree
<1>11. CASE CheckBusy(s)
  BY <1>11 DEF CheckBusy
<1>12. CASE Close(s)
  BY <1>12 DEF Close
<1>13. ASSUME NEW p \in Port, Probe(s, p) \/ Pop(s, p)
       PROVE  s \in Busy /\ Busy' \subseteq Busy
  BY <1>13 DEF Probe, Pop
<1>14. QED
  BY <1>1, <1>2, <1>3, <1>4, <1>5, <1>6, <1>7, <1>8, <1>9, <1>10, <1>11, <1>12, <1>13 DEF Step

LEMMA NextOneThread ==
  ASSUME TypeInv, OneThread, [NextPublic]_vars
  PROVE  OneThread'
<1> SUFFICES ASSUME Workers = 1
             PROVE  \A s, t \in Busy' : s = t
  BY DEF OneThread
<1>1. ASSUME NEW s \in Server,
             Call(s) \/ \E R \in SUBSET Port : ChangeRange(s, R)
      PROVE  \A t, u \in Busy' : t = u
  <2>1. Busy = {}
    BY <1>1, EnterAlone DEF Call, ChangeRange
  <2>2. Busy' \subseteq {s}
    BY <1>1, <2>1 DEF Call, ChangeRange, Busy, Goto, TypeInv, TypeOK
  <2>3. QED
    BY <2>2
<1>2. ASSUME NEW s \in Server, Step(s)
      PROVE  \A t, u \in Busy' : t = u
  BY <1>2, StepKeepsOthersOut DEF OneThread
<1>3. ASSUME Environment \/ RefreshOnlyClosed \/ UNCHANGED vars
      PROVE  \A t, u \in Busy' : t = u
  <2>1. Busy' \subseteq Busy
    BY <1>3 DEF Environment, Start, Stop, Remove, ForeignBinds, ForeignCloses,
                RefreshOnlyClosed, vars, localVars, Busy, Goto, TypeInv, TypeOK
  <2>2. QED
    BY <2>1 DEF OneThread
<1>4. QED
  BY <1>1, <1>2, <1>3 DEF NextPublic, Next

-----------------------------------------------------------------------------
(***************************************************************************)
(* One thread, any number of rescans and of changes of the range: a port   *)
(* is granted once until a refresh() finds a held port unbound.            *)
(***************************************************************************)
Distinct == \A s, t \in Holders : port[s] = port[t] => s = t
OutOf(S) == \A s \in Holders : port[s] \notin S

\* Between InitPorts and RefreshPorts the pool holds ports it must not hand
\* out; what the probes have found open replaces them.
Rebuilding == {s \in Server : pc[s] \in {"init_closed", "refresh", "probe"}}

GrantInv ==
  /\ \A s \in Server : pc[s] = "probe" => rescanned
  /\ recycled => rescanned
  /\ ~recycled =>
       /\ Distinct
       /\ Rebuilding = {} => OutOf(ports)
       /\ \A s \in Server : pc[s] = "probe" => OutOf(opened[s])

LEMMA InitGrantInv == Init \/ InitBoot => OneThread /\ GrantInv
BY DEF Init, InitBoot, InitLocals, OneThread, Busy, GrantInv, Distinct, OutOf,
       Rebuilding, Holders

\* With one thread, whoever moves is the only one inside.
LEMMA StepGrantInv ==
  ASSUME Workers = 1, TypeInv, OneThread, GrantInv, NEW s \in Server, Step(s)
  PROVE  GrantInv'
<1>0. \A t \in Server \ {s} : pc[t] \in {"idle", "owner"}
  BY StepKeepsOthersOut DEF OneThread, Busy
<1> USE <1>0 DEF TypeInv, TypeOK, Label, HoldersHavePorts, GrantInv, Distinct,
                 OutOf, Rebuilding, Holders, poolVars, localVars, envVars,
                 history, Goto
<1>1. CASE CheckId(s)
  BY <1>1 DEF CheckId
<1>2. CASE Claim(s)
  BY <1>2 DEF Claim
<1>3. CASE InitPorts(s)
  BY <1>3 DEF InitPorts
<1>4. CASE InitClosed(s)
  BY <1>4 DEF InitClosed
<1>5. CASE Refresh(s)
  BY <1>5 DEF Refresh
<1>6. CASE RefreshPorts(s)
  BY <1>6 DEF RefreshPorts
<1>7. CASE RefreshClosed(s)
  BY <1>7 DEF RefreshClosed
<1>8. CASE TestEmpty(s)
  BY <1>8 DEF TestEmpty
<1>9. CASE PopFails(s)
  BY <1>9 DEF PopFails
<1>10. CASE CheckFree(s)
  BY <1>10 DEF CheckFree
<1>11. CASE CheckBusy(s)
  BY <1>11 DEF CheckBusy
<1>12. CASE Close(s)
  BY <1>12 DEF Close
<1>13. ASSUME NEW p \in Port, Probe(s, p)
       PROVE  GrantInv'
  BY <1>13 DEF Probe, Held
<1>14. ASSUME NEW p \in Port, Pop(s, p)
       PROVE  GrantInv'
  BY <1>14 DEF Pop
<1>15. QED
  BY <1>1, <1>2, <1>3, <1>4, <1>5, <1>6, <1>7, <1>8, <1>9, <1>10, <1>11,
     <1>12, <1>13, <1>14 DEF Step

LEMMA NextGrantInv ==
  ASSUME Workers = 1, TypeInv, OneThread, GrantInv, [NextPublic]_vars
  PROVE  GrantInv'
<1> USE DEF TypeInv, TypeOK, Label, HoldersHavePorts, GrantInv, Distinct,
            OutOf, Rebuilding, Holders, poolVars, localVars, envVars,
            history, Goto
<1>1. ASSUME NEW s \in Server,
             Call(s) \/ \E R \in SUBSET Port : ChangeRange(s, R)
      PROVE  GrantInv'
  BY <1>1 DEF Call, ChangeRange
<1>2. ASSUME NEW s \in Server, Step(s)
      PROVE  GrantInv'
  BY <1>2, StepGrantInv
<1>3. ASSUME NEW s \in Server, Start(s) \/ Stop(s) \/ Remove(s)
      PROVE  GrantInv'
  BY <1>3 DEF Start, Stop, Remove
<1>4. ASSUME NEW p \in Port, ForeignBinds(p) \/ ForeignCloses(p)
      PROVE  GrantInv'
  BY <1>4 DEF ForeignBinds, ForeignCloses
<1>5. CASE RefreshOnlyClosed \/ UNCHANGED vars
  BY <1>5 DEF RefreshOnlyClosed, vars
<1>6. QED
  BY <1>1, <1>2, <1>3, <1>4, <1>5 DEF NextPublic, Next, Environment

\* A single-threaded server (-s wsgiref) never grants a port twice, also
\* across rescans and changes of the range, unless a refresh() found a port
\* that some server holds unbound.
THEOREM GrantedOnceSequential ==
  ASSUME Workers = 1
  PROVE  Spec \/ SpecBoot \/ SpecPublic => []GrantedOnce
<1> DEFINE IInv == TypeInv /\ OneThread /\ GrantInv
<1>1. Init \/ InitBoot => IInv
  BY InitTypeInv, InitGrantInv
<1>2. IInv /\ [NextPublic]_vars => IInv'
  BY NextTypeInv, NextOneThread, NextGrantInv
<1>3. [Next]_vars => [NextPublic]_vars
  BY DEF NextPublic
<1>4. IInv => GrantedOnce
  BY DEF GrantInv, GrantedOnce, Undisturbed, Distinct
<1>5. QED
  BY <1>1, <1>2, <1>3, <1>4, PTL DEF Spec, SpecBoot, SpecPublic

-----------------------------------------------------------------------------
(***************************************************************************)
(* Any number of threads, before the first refresh() after the pool was    *)
(* built.                                                                  *)
(***************************************************************************)
FreshInv ==
  ~rescanned =>
    /\ id
    /\ \A s \in Server :
         pc[s] \in {"idle", "new", "refresh", "port", "pop"}
                     \cup {"check", "close", "owner"}
    /\ Distinct
    /\ OutOf(ports)

LEMMA InitFreshInv == Init => FreshInv
BY DEF Init, InitLocals, FreshInv, Distinct, OutOf, Holders

LEMMA NextFreshInv ==
  ASSUME TypeInv, FreshInv, [Next]_vars
  PROVE  FreshInv'
<1> USE DEF TypeInv, TypeOK, Label, HoldersHavePorts, FreshInv, Distinct,
            OutOf, Holders, poolVars, localVars, envVars, history, Goto
<1>1. ASSUME NEW s \in Server, Call(s)
      PROVE  FreshInv'
  BY <1>1 DEF Call
<1>2. ASSUME NEW s \in Server,
             CheckId(s) \/ Claim(s) \/ InitPorts(s) \/ InitClosed(s)
      PROVE  FreshInv'
  BY <1>2 DEF CheckId, Claim, InitPorts, InitClosed
<1>3. ASSUME NEW s \in Server,
             Refresh(s) \/ RefreshPorts(s) \/ RefreshClosed(s)
      PROVE  FreshInv'
  BY <1>3 DEF Refresh, RefreshPorts, RefreshClosed
<1>4. ASSUME NEW s \in Server, NEW p \in Port, Probe(s, p)
      PROVE  FreshInv'
  BY <1>4 DEF Probe
<1>5. ASSUME NEW s \in Server, TestEmpty(s) \/ PopFails(s)
      PROVE  FreshInv'
  BY <1>5 DEF TestEmpty, PopFails
<1>6. ASSUME NEW s \in Server, NEW p \in Port, Pop(s, p)
      PROVE  FreshInv'
  BY <1>6 DEF Pop
<1>7. ASSUME NEW s \in Server, CheckFree(s)
      PROVE  FreshInv'
  BY <1>7 DEF CheckFree
<1>8. ASSUME NEW s \in Server, CheckBusy(s)
      PROVE  FreshInv'
  BY <1>8 DEF CheckBusy
<1>9. ASSUME NEW s \in Server, Close(s)
      PROVE  FreshInv'
  BY <1>9 DEF Close
<1>10. ASSUME NEW s \in Server, Start(s) \/ Stop(s) \/ Remove(s)
       PROVE  FreshInv'
  BY <1>10 DEF Start, Stop, Remove
<1>11. ASSUME NEW p \in Port, ForeignBinds(p) \/ ForeignCloses(p)
       PROVE  FreshInv'
  BY <1>11 DEF ForeignBinds, ForeignCloses
<1>12. CASE UNCHANGED vars
  BY <1>12 DEF vars
<1>13. QED
  BY <1>1, <1>2, <1>3, <1>4, <1>5, <1>6, <1>7, <1>8, <1>9, <1>10, <1>11,
     <1>12 DEF Next, Step, Environment

\* Once the pool is built, constructors that interleave in any way get
\* different ports, until the first refresh(); and with one thread ever after,
\* as long as no refresh() finds a held port unbound.
THEOREM GrantedOnceConcurrent == Spec => []GrantedOnce
<1>1. CASE Workers = 1
  BY <1>1, GrantedOnceSequential
<1>2. CASE Workers # 1
  <2> DEFINE IInv == TypeInv /\ FreshInv
  <2>1. Init => IInv
    BY InitTypeInv, InitFreshInv
  <2>2. IInv /\ [Next]_vars => IInv'
    BY NextTypeInv, NextFreshInv DEF NextPublic
  <2>3. IInv => GrantedOnce
    BY <1>2 DEF FreshInv, GrantedOnce, Undisturbed, Distinct
  <2>4. QED
    BY <2>1, <2>2, <2>3, PTL DEF Spec
<1>3. QED
  BY <1>1, <1>2

-----------------------------------------------------------------------------
(***************************************************************************)
(* The pool implements PortAllocator.  A step changes what is given only   *)
(* when it pops, gives back or removes; that the port it pops is free is   *)
(* GrantedOnce of the state it leads to.                                   *)
(***************************************************************************)
DisturbedForGood == ~Undisturbed => ~Undisturbed'

LEMMA StaysDisturbed ==
  ASSUME TypeInv, [Next]_vars
  PROVE  DisturbedForGood
<1> USE DEF DisturbedForGood, Undisturbed, TypeInv, TypeOK, poolVars,
            localVars, envVars, history
<1>1. ASSUME NEW s \in Server, Call(s)
      PROVE  DisturbedForGood
  BY <1>1 DEF Call
<1>2. ASSUME NEW s \in Server,
             \/ CheckId(s) \/ Claim(s) \/ InitPorts(s) \/ InitClosed(s)
             \/ Refresh(s) \/ RefreshPorts(s) \/ RefreshClosed(s)
      PROVE  DisturbedForGood
  BY <1>2 DEF CheckId, Claim, InitPorts, InitClosed, Refresh, RefreshPorts,
              RefreshClosed
<1>3. ASSUME NEW s \in Server, NEW p \in Port, Probe(s, p) \/ Pop(s, p)
      PROVE  DisturbedForGood
  BY <1>3 DEF Probe, Pop
<1>4. ASSUME NEW s \in Server,
             TestEmpty(s) \/ PopFails(s) \/ CheckFree(s) \/ CheckBusy(s)
               \/ Close(s)
      PROVE  DisturbedForGood
  BY <1>4 DEF TestEmpty, PopFails, CheckFree, CheckBusy, Close
<1>5. ASSUME NEW s \in Server, Start(s) \/ Stop(s) \/ Remove(s)
      PROVE  DisturbedForGood
  BY <1>5 DEF Start, Stop, Remove
<1>6. ASSUME NEW p \in Port, ForeignBinds(p) \/ ForeignCloses(p)
      PROVE  DisturbedForGood
  BY <1>6 DEF ForeignBinds, ForeignCloses
<1>7. CASE UNCHANGED vars
  BY <1>7 DEF vars
<1>8. QED
  BY <1>1, <1>2, <1>3, <1>4, <1>5, <1>6, <1>7 DEF Next, Step, Environment

\* The steps after which every server has what it had before.
LEMMA GivenKept ==
  ASSUME TypeInv, NEW s \in Server,
         \/ Call(s) \/ CheckId(s) \/ Claim(s) \/ InitPorts(s) \/ InitClosed(s)
         \/ Refresh(s) \/ (\E p \in Port : Probe(s, p)) \/ RefreshPorts(s)
         \/ RefreshClosed(s) \/ TestEmpty(s) \/ PopFails(s) \/ CheckFree(s)
         \/ Close(s) \/ Start(s) \/ Stop(s)
  PROVE  Given' = Given
<1> USE DEF Given, Holders, TypeInv, TypeOK, Label, Goto, localVars
<1>1. CASE Call(s) \/ CheckId(s) \/ Claim(s) \/ InitPorts(s) \/ InitClosed(s)
  BY <1>1 DEF Call, CheckId, Claim, InitPorts, InitClosed
<1>2. CASE Refresh(s)
  BY <1>2 DEF Refresh
<1>3. CASE \E p \in Port : Probe(s, p)
  BY <1>3 DEF Probe
<1>4. CASE RefreshPorts(s)
  BY <1>4 DEF RefreshPorts
<1>5. CASE RefreshClosed(s) /\ ret[s] \in {"idle", "port", "pop"}
  BY <1>5 DEF RefreshClosed
<1>6. CASE TestEmpty(s) \/ PopFails(s)
  BY <1>6 DEF TestEmpty, PopFails
<1>7. CASE CheckFree(s)
  BY <1>7 DEF CheckFree
<1>8. CASE Close(s)
  BY <1>8 DEF Close
<1>9. CASE Start(s) \/ Stop(s)
  BY <1>9 DEF Start, Stop
<1>10. QED
  BY <1>1, <1>2, <1>3, <1>4, <1>5, <1>6, <1>7, <1>8, <1>9

\* A pop grants a port that is free in the state before it, because the state
\* after it grants it once.
LEMMA PopGrants ==
  ASSUME TypeInv, GrantedOnce', DisturbedForGood,
         NEW s \in Server, NEW p \in Port, Pop(s, p)
  PROVE  Given[s] = NoPort
         /\ Given' = [Given EXCEPT ![s] = p]
         /\ (Undisturbed => \A t \in Server : Given[t] # p)
<1> USE DEF Given, Holders, TypeInv, TypeOK, Label, Goto, Pop
<1>1. Given[s] = NoPort /\ Given' = [Given EXCEPT ![s] = p]
  OBVIOUS
<1>2. ASSUME Undisturbed, NEW t \in Server, Given[t] = p
      PROVE  FALSE
  <2>1. Undisturbed'
    BY <1>2 DEF Undisturbed, history
  <2>2. t # s /\ t \in Holders /\ port[t] = p
    BY <1>2, PoolAssumption
  <2>3. t \in Holders' /\ s \in Holders' /\ port'[t] = port'[s]
    BY <2>2
  <2>4. QED
    BY <2>1, <2>2, <2>3 DEF GrantedOnce
<1>3. QED
  BY <1>1, <1>2

LEMMA StepAllocates ==
  ASSUME TypeInv, GrantedOnce', [Next]_vars
  PROVE  [Allocator!Next]_<<Given, ~Undisturbed>>
<1> USE DEF Allocator!Next, Allocator!Grant, Allocator!Release,
            Allocator!Disturb, Allocator!Free
<1>1. DisturbedForGood
  BY StaysDisturbed
<1>2. (~Undisturbed)' = ~Undisturbed \/ (~Undisturbed)' = TRUE
  BY <1>1 DEF DisturbedForGood
<1>3. CASE Given' = Given
  BY <1>2, <1>3
<1>4. ASSUME NEW s \in Server, NEW p \in Port, Pop(s, p)
      PROVE  Allocator!Next
  <2>1. UNCHANGED Undisturbed
    BY <1>4 DEF Pop, history, Undisturbed
  <2>2. QED
    BY <1>1, <1>4, <2>1, PopGrants
<1>5. ASSUME NEW s \in Server, CheckBusy(s) \/ Remove(s)
      PROVE  Allocator!Next
  <2>1. UNCHANGED Undisturbed
    <3>1. UNCHANGED history
      BY <1>5 DEF CheckBusy, Remove
    <3>2. QED
      BY <3>1 DEF history, Undisturbed
  <2>2. Given' = [Given EXCEPT ![s] = NoPort]
    BY <1>5 DEF CheckBusy, Remove, Given, Holders, TypeInv, TypeOK, Label,
                Goto
  <2>3. QED
    BY <2>1, <2>2
<1>6. ASSUME NEW p \in Port, ForeignBinds(p) \/ ForeignCloses(p)
      PROVE  Given' = Given
  BY <1>6 DEF ForeignBinds, ForeignCloses, Given, Holders, localVars
<1>7. UNCHANGED vars => Given' = Given
  BY DEF vars, Given, Holders
<1>8. QED
  BY <1>3, <1>4, <1>5, <1>6, <1>7, GivenKept DEF Next, Step, Environment

\* However many threads construct servers at once, what they get from the
\* pool is what PortAllocator gives: one port nobody else has, for as long as
\* the server keeps it, up to a disturbing refresh().
THEOREM ImplementsAllocator == Spec => Allocates
<1>1. Init => Allocator!Init
  BY DEF Init, InitLocals, Allocator!Init, Given, Holders, Undisturbed
<1>2. TypeInv /\ GrantedOnce' /\ [Next]_vars
        => [Allocator!Next]_<<Given, ~Undisturbed>>
  BY StepAllocates
<1>3. TypeInv /\ [Next]_vars => TypeInv'
  BY NextTypeInv DEF NextPublic
<1>4. QED
  BY InitTypeInv, GrantedOnceConcurrent, <1>1, <1>2, <1>3, PTL
     DEF Spec, Allocates, Allocator!Spec

-----------------------------------------------------------------------------
(***************************************************************************)
(* No port is lost: between the pop and its end, a port is in the hands of *)
(* the constructor; what refresh() rebuilds the two sets from is the range *)
(* that it found there.                                                    *)
(***************************************************************************)
\* The two sets and the ports in hand make up the range.
Partition(inHand) ==
  /\ ports \cup closed \cup inHand = range \ dropped
  /\ ports \cap closed = {}

InHand == {port[s] : s \in {t \in Server : pc[t] \in {"check", "close"}}}

ConserveFresh == ~rescanned => Partition(InHand)

LEMMA InitConserveFresh == Init => ConserveFresh
BY DEF Init, InitLocals, ConserveFresh, Partition, InHand

\* Constructors that interleave before the first refresh().
LEMMA NextConserveFresh ==
  ASSUME TypeInv, FreshInv, ConserveFresh, [Next]_vars
  PROVE  ConserveFresh'
<1> SUFFICES ASSUME ~rescanned'
             PROVE  Partition(InHand)'
  BY DEF ConserveFresh
<1> USE DEF TypeInv, TypeOK, Label, HoldersHavePorts, FreshInv, OutOf, Holders,
            Partition, InHand, ConserveFresh, poolVars, localVars, envVars, history,
            Goto
<1>1. ASSUME NEW s \in Server, Call(s)
      PROVE  Partition(InHand)'
  BY <1>1 DEF Call
<1>2. ASSUME NEW s \in Server,
             CheckId(s) \/ Claim(s) \/ InitPorts(s) \/ InitClosed(s)
      PROVE  Partition(InHand)'
  BY <1>2 DEF CheckId, Claim, InitPorts, InitClosed
<1>3. ASSUME NEW s \in Server,
             Refresh(s) \/ RefreshPorts(s) \/ RefreshClosed(s)
      PROVE  Partition(InHand)'
  BY <1>3 DEF Refresh, RefreshPorts, RefreshClosed
<1>4. ASSUME NEW s \in Server, NEW p \in Port, Probe(s, p)
      PROVE  Partition(InHand)'
  BY <1>4 DEF Probe
<1>5. ASSUME NEW s \in Server, TestEmpty(s) \/ PopFails(s)
      PROVE  Partition(InHand)'
  BY <1>5 DEF TestEmpty, PopFails
<1>6. ASSUME NEW s \in Server, NEW p \in Port, Pop(s, p)
      PROVE  Partition(InHand)'
  <2>1. InHand' = InHand \cup {p}
    BY <1>6 DEF Pop
  <2>2. QED
    BY <1>6, <2>1 DEF Pop
<1>7. ASSUME NEW s \in Server, CheckFree(s)
      PROVE  Partition(InHand)'
  BY <1>7 DEF CheckFree
<1>8. ASSUME NEW s \in Server, CheckBusy(s)
      PROVE  Partition(InHand)'
  <2>1. InHand = InHand' \cup {port[s]}
    BY <1>8 DEF CheckBusy
  <2>2. QED
    BY <1>8, <2>1 DEF CheckBusy
<1>9. ASSUME NEW s \in Server, Close(s)
      PROVE  Partition(InHand)'
  <2>1. InHand = InHand' \cup {port[s]} /\ port[s] \notin ports
    BY <1>9 DEF Close
  <2>2. QED
    BY <1>9, <2>1 DEF Close
<1>10. ASSUME NEW s \in Server, Start(s) \/ Stop(s) \/ Remove(s)
       PROVE  Partition(InHand)'
  BY <1>10 DEF Start, Stop, Remove
<1>11. ASSUME NEW p \in Port, ForeignBinds(p) \/ ForeignCloses(p)
       PROVE  Partition(InHand)'
  BY <1>11 DEF ForeignBinds, ForeignCloses
<1>12. CASE UNCHANGED vars
  BY <1>12 DEF vars
<1>13. QED
  BY <1>1, <1>2, <1>3, <1>4, <1>5, <1>6, <1>7, <1>8, <1>9, <1>10, <1>11,
     <1>12 DEF Next, Step, Environment

\* One thread: what the sets are at each point of the constructor.
ConserveInv ==
  /\ id /\ (\A s \in Server : pc[s] \in {"idle", "new", "refresh", "port", "pop",
                                         "owner"}) =>
       Partition({})
  /\ \A s \in Server :
       /\ pc[s] = "init_closed" => ports = range /\ dropped = {}
       /\ pc[s] = "probe" => snap[s] = range \ dropped /\ opened[s] \subseteq snap[s]
                               /\ todo[s] \subseteq snap[s]
       /\ pc[s] = "refresh_closed" =>
            snap[s] = range \ dropped /\ ports \subseteq snap[s]
       /\ pc[s] \in {"check", "close"} =>
            Partition({port[s]}) /\ port[s] \notin ports
       /\ pc[s] \notin {"idle", "new", "claim", "owner"} => id

LEMMA InitConserveInv == Init \/ InitBoot => ConserveInv
BY DEF Init, InitBoot, InitLocals, ConserveInv, Partition

LEMMA StepConserveInv ==
  ASSUME TypeInv, Workers = 1, OneThread, ConserveInv, NEW s \in Server, Step(s)
  PROVE  ConserveInv'
<1>0. \A t \in Server \ {s} : pc[t] \in {"idle", "owner"}
  BY StepKeepsOthersOut DEF OneThread, Busy
<1> USE <1>0 DEF TypeInv, TypeOK, Label, ConserveInv, Partition, poolVars, localVars,
                 envVars, history, Goto
<1>1. CASE CheckId(s)
  BY <1>1 DEF CheckId
<1>2. CASE Claim(s)
  BY <1>2 DEF Claim
<1>3. CASE InitPorts(s)
  BY <1>3 DEF InitPorts
<1>4. CASE InitClosed(s)
  BY <1>4 DEF InitClosed
<1>5. CASE Refresh(s)
  BY <1>5 DEF Refresh
<1>6. CASE RefreshPorts(s)
  BY <1>6 DEF RefreshPorts
<1>7. CASE RefreshClosed(s)
  BY <1>7 DEF RefreshClosed
<1>8. CASE TestEmpty(s)
  BY <1>8 DEF TestEmpty
<1>9. CASE PopFails(s)
  BY <1>9 DEF PopFails
<1>10. CASE CheckFree(s)
  BY <1>10 DEF CheckFree
<1>11. CASE CheckBusy(s)
  BY <1>11 DEF CheckBusy
<1>12. CASE Close(s)
  BY <1>12 DEF Close
<1>13. ASSUME NEW p \in Port, Probe(s, p)
       PROVE  ConserveInv'
  BY <1>13 DEF Probe
<1>14. ASSUME NEW p \in Port, Pop(s, p)
       PROVE  ConserveInv'
  BY <1>14 DEF Pop
<1>15. QED
  BY <1>1, <1>2, <1>3, <1>4, <1>5, <1>6, <1>7, <1>8, <1>9, <1>10, <1>11,
     <1>12, <1>13, <1>14 DEF Step

LEMMA NextConserveInv ==
  ASSUME TypeInv, Workers = 1, OneThread, ConserveInv, [NextPublic]_vars
  PROVE  ConserveInv'
<1> USE DEF TypeInv, TypeOK, Label, ConserveInv, Partition, poolVars, localVars,
            envVars, history, Goto
<1>1. ASSUME NEW s \in Server, Call(s)
      PROVE  ConserveInv'
  BY <1>1 DEF Call
<1>2. ASSUME NEW s \in Server, Step(s)
      PROVE  ConserveInv'
  BY <1>2, StepConserveInv
<1>3. ASSUME NEW s \in Server, Start(s) \/ Stop(s) \/ Remove(s)
      PROVE  ConserveInv'
  BY <1>3 DEF Start, Stop, Remove
<1>4. ASSUME NEW p \in Port, ForeignBinds(p) \/ ForeignCloses(p)
      PROVE  ConserveInv'
  BY <1>4 DEF ForeignBinds, ForeignCloses
<1>5. ASSUME NEW s \in Server, NEW R \in SUBSET Port, ChangeRange(s, R)
      PROVE  ConserveInv'
  <2>1. Busy = {}
    BY <1>5, EnterAlone DEF ChangeRange
  <2>2. \A t \in Server : pc[t] \in {"idle", "owner"}
    BY <2>1 DEF Busy
  <2>3. QED
    BY <1>5, <2>2 DEF ChangeRange
<1>6. CASE RefreshOnlyClosed
  <2>1. \A t \in Server : pc[t] \in {"idle", "owner"}
    BY <1>6 DEF RefreshOnlyClosed, Quiet, Busy
  <2>2. QED
    BY <1>6, <2>1 DEF RefreshOnlyClosed
<1>7. CASE UNCHANGED vars
  BY <1>7 DEF vars
<1>8. QED
  BY <1>1, <1>2, <1>3, <1>4, <1>5, <1>6, <1>7
     DEF NextPublic, Next, Environment

\* With one thread, whatever the range is changed to and however often the pool
\* is rescanned, a port is lost only by refresh(only_closed=True): a port that
\* is found taken after its pop is given back, and refresh() puts every port
\* that it has taken from the two sets into one of them.
THEOREM ConservedSequential ==
  ASSUME Workers = 1
  PROVE  Spec \/ SpecBoot \/ SpecPublic => []Conserved
<1> DEFINE IInv == TypeInv /\ OneThread /\ ConserveInv
<1>1. Init \/ InitBoot => IInv
  BY InitTypeInv, InitGrantInv, InitConserveInv
<1>2. IInv /\ [NextPublic]_vars => IInv'
  BY NextTypeInv, NextOneThread, NextConserveInv
<1>3. [Next]_vars => [NextPublic]_vars
  BY DEF NextPublic
<1>4. IInv => Conserved
  BY DEF TypeInv, TypeOK, ConserveInv, Conserved, Partition, Quiet, Busy
<1>5. QED
  BY <1>1, <1>2, <1>3, <1>4, PTL DEF Spec, SpecBoot, SpecPublic

\* Constructors that interleave in any way lose no port of a pool that has been
\* built, up to the first refresh(); with one thread none ever is.
THEOREM ConservedConcurrent == Spec => []Conserved
<1>1. CASE Workers = 1
  BY <1>1, ConservedSequential
<1>2. CASE Workers # 1
  <2> DEFINE IInv == TypeInv /\ FreshInv /\ ConserveFresh
  <2>1. Init => IInv
    BY InitTypeInv, InitFreshInv, InitConserveFresh
  <2>2. IInv /\ [Next]_vars => IInv'
    BY NextTypeInv, NextFreshInv, NextConserveFresh DEF NextPublic
  <2>3. IInv => Conserved
    <3>1. Quiet => InHand = {}
      BY DEF Quiet, Busy, InHand
    <3>2. QED
      BY <1>2, <3>1 DEF ConserveFresh, Conserved, Partition
  <2>4. QED
    BY <2>1, <2>2, <2>3, PTL DEF Spec
<1>3. QED
  BY <1>1, <1>2

\* The last step of a constructor leaves its port alone.
LEMMA CloseKeepsPort ==
  ASSUME TypeInv, NEW s \in Server, pc[s] = "close", [NextPublic]_vars
  PROVE  port'[s] = port[s]
<1> USE DEF TypeInv, TypeOK, localVars
<1>1. ASSUME NEW t \in Server, Call(t) \/ \E R \in SUBSET Port : ChangeRange(t, R)
      PROVE  port'[s] = port[s]
  BY <1>1 DEF Call, ChangeRange
<1>2. ASSUME NEW t \in Server,
             \/ CheckId(t) \/ Claim(t) \/ InitPorts(t) \/ InitClosed(t) \/ Refresh(t)
             \/ RefreshPorts(t) \/ RefreshClosed(t) \/ TestEmpty(t) \/ PopFails(t)
             \/ CheckFree(t) \/ Close(t)
      PROVE  port'[s] = port[s]
  BY <1>2 DEF CheckId, Claim, InitPorts, InitClosed, Refresh, RefreshPorts,
              RefreshClosed, TestEmpty, PopFails, CheckFree, Close
<1>3. ASSUME NEW t \in Server, NEW p \in Port, Probe(t, p) \/ Pop(t, p)
      PROVE  port'[s] = port[s]
  BY <1>3 DEF Probe, Pop
<1>4. ASSUME NEW t \in Server, CheckBusy(t) \/ Start(t) \/ Stop(t) \/ Remove(t)
      PROVE  port'[s] = port[s]
  BY <1>4 DEF CheckBusy, Start, Stop, Remove
<1>5. ASSUME NEW p \in Port, ForeignBinds(p) \/ ForeignCloses(p)
      PROVE  port'[s] = port[s]
  BY <1>5 DEF ForeignBinds, ForeignCloses
<1>6. CASE RefreshOnlyClosed \/ UNCHANGED vars
  BY <1>6 DEF RefreshOnlyClosed, vars
<1>7. QED
  BY <1>1, <1>2, <1>3, <1>4, <1>5, <1>6 DEF NextPublic, Next, Step, Environment

\* With one thread every port that is handed out is one of the range the pool
\* has then, however often change_range() is called while servers hold
\* ports of older ranges: what is in hand at the end of a constructor was
\* in the sets that the last __init_range built.
THEOREM GrantedFromRange ==
  ASSUME Workers = 1
  PROVE  Spec \/ SpecBoot \/ SpecPublic => FromRange
<1> DEFINE IInv == TypeInv /\ OneThread /\ ConserveInv
<1>1. Init \/ InitBoot => IInv
  BY InitTypeInv, InitGrantInv, InitConserveInv
<1>2. IInv /\ [NextPublic]_vars => IInv'
  BY NextTypeInv, NextOneThread, NextConserveInv
<1>3. [Next]_vars => [NextPublic]_vars
  BY DEF NextPublic
<1>4. IInv /\ [NextPublic]_vars =>
        [\A s \in Server :
           pc[s] = "close" /\ pc'[s] = "owner" => port'[s] \in range]_vars
  <2>1. ASSUME IInv, [NextPublic]_vars, NEW s \in Server, pc[s] = "close"
        PROVE  port'[s] \in range
    <3>1. port'[s] = port[s]
      BY <2>1, CloseKeepsPort
    <3>2. port[s] \in range
      BY <2>1 DEF ConserveInv, Partition
    <3>3. QED
      BY <3>1, <3>2
  <2>2. QED
    BY <2>1
<1>5. QED
  BY <1>1, <1>2, <1>3, <1>4, PTL DEF Spec, SpecBoot, SpecPublic, FromRange
=============================================================================
