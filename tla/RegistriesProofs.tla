-------------------------- MODULE RegistriesProofs --------------------------
(***************************************************************************)
(* Theorems about Registries, for any servers, sets and clusters, any      *)
(* number of worker threads, requests and signals.                         *)
(*                                                                         *)
(* That a thing is removed by one actor at a time rests on the story of a  *)
(* thing: it is made once, by one job (MadeOnce); what is registered, held *)
(* by a command or removed has been made (Past); and who removes it has    *)
(* taken it out of its registry, where nobody finds it again (TakenOnce).  *)
(* Most steps do nothing of the kind (Calm), or take one thing (Taken).    *)
(*                                                                         *)
(* That a handler never looks for what it has taken itself rests on what   *)
(* it has in hand (InHand): the jobs of its executors hang together, so    *)
(* that it knows when they have all ended.  That it leaves no server       *)
(* running rests on that too, and on where a running server is known       *)
(* (Covered).                                                              *)
(*                                                                         *)
(* That a handler comes to its end, if it is scheduled, are two facts: it  *)
(* always has a step to take (Ready), and no step takes its work back: who *)
(* waits for parts has begun all of them (Begun), and none begins again.   *)
(***************************************************************************)
EXTENDS Registries, FiniteSetTheorems, TLAPS

-----------------------------------------------------------------------------
(***************************************************************************)
(* Parts.                                                                  *)
(***************************************************************************)
Below(x) == Parts[x] \cup UNION {Parts[y] : y \in Parts[x]}

\* Parts do not contain what they are parts of.
LEMMA BelowTypes ==
  ASSUME NEW x \in Thing
  PROVE  Below(x) \subseteq Thing \ {x} /\ Whole(x) = {x} \cup Below(x)
<1>1. Parts[x] \subseteq Thing
  BY RegistriesAssumption
<1>2. \A y \in Parts[x] : Parts[y] \subseteq Thing
  BY <1>1, RegistriesAssumption
<1>3. x \notin Parts[x]
  BY RegistriesAssumption DEF Thing
<1>4. \A y \in Parts[x] : x \notin Parts[y]
  BY <1>1, RegistriesAssumption DEF Thing
<1>5. QED
  BY <1>1, <1>2, <1>3, <1>4 DEF Below, Whole

\* Clusters, sets and servers are three levels.
LEMMA BelowParts ==
  ASSUME NEW x \in Thing, NEW p \in Parts[x]
  PROVE  /\ p \in Thing
         /\ p \in Below(x)
         /\ Below(p) \subseteq Below(x)
<1>1. p \in Thing /\ p \in Below(x)
  BY RegistriesAssumption DEF Below
<1>2. \A y \in Parts[p] : Parts[y] = {}
  BY <1>1, RegistriesAssumption DEF Thing
<1>3. QED
  BY <1>1, <1>2 DEF Below

\* A thing has one owner.
LEMMA OneOwner ==
  ASSUME NEW x \in Thing, NEW p \in Parts[x], NEW z \in Thing, p \in Below(z)
  PROVE  z = x \/ x \in Below(z)
<1>1. CASE p \in Parts[z]
  BY <1>1, RegistriesAssumption
<1>2. ASSUME NEW y \in Parts[z], p \in Parts[y]
      PROVE  x \in Below(z)
  BY <1>2, RegistriesAssumption DEF Below
<1>3. QED
  BY <1>1, <1>2 DEF Below

\* What clients create is no part.
LEMMA RootsAbove ==
  ASSUME NEW x \in Roots, NEW z \in Thing
  PROVE  x \notin Below(z)
BY RegistriesAssumption DEF Roots, Below

-----------------------------------------------------------------------------
(***************************************************************************)
(* Types.                                                                  *)
(***************************************************************************)
LEMMA InitTypeOK == Init => TypeOK
<1> SUFFICES ASSUME Init
             PROVE  TypeOK
  OBVIOUS
<1> USE RegistriesAssumption
<1>1. PICK S \in SUBSET Roots : created = UNION {Whole(x) : x \in S}
  BY DEF Init
<1>2. created \subseteq Thing
  BY <1>1, BelowTypes DEF Roots
<1>3. ASSUME NEW i \in Ids
      PROVE  registry[i] = Nothing
               \/ (registry[i] \in created /\ Id[registry[i]] = i)
  <2>1. CASE \E x \in created : Id[x] = i
    BY <2>1 DEF Init
  <2>2. CASE ~\E x \in created : Id[x] = i
    BY <2>2 DEF Init
  <2>3. QED
    BY <2>1, <2>2
<1>4. registry \in [Ids -> Thing \cup {Nothing}]
  <2>1. registry = [i \in Ids |-> registry[i]]
    BY DEF Init
  <2>2. QED
    BY <2>1, <1>2, <1>3
<1>5. \A x \in Thing : registry[Id[x]] # Nothing => Id[registry[Id[x]]] = Id[x]
  BY <1>3 DEF Ids
<1>6. job \in [Actor -> [Thing -> Label]]
  BY DEF Init, Idle, Label
<1>7. stack \in Seq(Frame) /\ Len(stack) <= MaxSignals
  BY DEF Init
<1>8. /\ requests \in 0..MaxEvents
      /\ signals \in 0..MaxSignals
      /\ missed \in Missed
  BY DEF Init, NoMiss, Missed
<1>9. QED
  BY <1>2, <1>4, <1>5, <1>6, <1>7, <1>8 DEF Init, TypeOK

\* An id names a thing that has it.
LEMMA Named ==
  ASSUME TypeOK, NEW i \in Ids, registry[i] # Nothing
  PROVE  /\ registry[i] \in Thing
         /\ Id[registry[i]] = i
         /\ Registered(registry[i])
<1>1. PICK z \in Thing : Id[z] = i
  BY DEF Ids
<1>2. QED
  BY <1>1 DEF TypeOK, Registered

\* An id is one of servers, of sets or of clusters.
LEMMA KindOfId ==
  ASSUME NEW x \in Thing, NEW y \in Thing, Id[x] = Id[y]
  PROVE  /\ x \in Server <=> y \in Server
         /\ x \in ReplicaSet <=> y \in ReplicaSet
         /\ x \in Cluster <=> y \in Cluster
         /\ x # y => x \in Roots /\ y \in Roots
BY RegistriesAssumption, KindsAssumption

\* The main thread executes a handler of a level.
LEMMA DepthIsLevel ==
  ASSUME TypeOK, stack # <<>>
  PROVE  /\ Depth \in Level /\ Depth \in Actor
         /\ Top \in Frame
         /\ SubSeq(stack, 1, Depth - 1) \in Seq(Frame)
         /\ Len(SubSeq(stack, 1, Depth - 1)) <= MaxSignals
<1>1. Len(stack) \in Nat /\ Len(stack) > 0 /\ Len(stack) <= MaxSignals
  BY RegistriesAssumption DEF TypeOK
<1>2. QED
  BY <1>1, RegistriesAssumption DEF TypeOK, Depth, Top, Level, Actor

\* A top frame is replaced by a frame.
LEMMA SetTopTyped ==
  ASSUME TypeOK, stack # <<>>, NEW pc \in {"clusters", "sets", "servers"},
         NEW todo \in SUBSET Ids, SetTop(pc, todo)
  PROVE  stack' \in Seq(Frame) /\ Len(stack') <= MaxSignals
<1>1. [pc |-> pc, todo |-> todo] \in Frame
  BY DEF Frame
<1>2. QED
  BY <1>1, DepthIsLevel, RegistriesAssumption DEF TypeOK, SetTop, Depth, Level

\* A job goes on to a label.
LEMMA GotoTyped ==
  ASSUME TypeOK, NEW a \in Actor, NEW x \in Thing, NEW label \in Label,
         Goto(a, x, label)
  PROVE  job' \in [Actor -> [Thing -> Label]]
BY DEF TypeOK, Goto

\* What an id names has that id.
LEMMA RegistryTyped ==
  ASSUME TypeOK, NEW x \in Thing,
         registry' \in {[registry EXCEPT ![Id[x]] = Nothing],
                        [registry EXCEPT ![Id[x]] = x]}
  PROVE  /\ registry' \in [Ids -> Thing \cup {Nothing}]
         /\ \A y \in Thing :
              registry'[Id[y]] # Nothing => Id[registry'[Id[y]]] = Id[y]
<1>1. PICK e \in {Nothing, x} : registry' = [registry EXCEPT ![Id[x]] = e]
  OBVIOUS
<1>2. registry \in [Ids -> Thing \cup {Nothing}]
  BY DEF TypeOK
<1>3. \A y \in Thing : Id[y] \in Ids
  BY DEF Ids
<1>4. registry' \in [Ids -> Thing \cup {Nothing}]
  BY <1>1, <1>2
<1>5. ASSUME NEW y \in Thing, registry'[Id[y]] # Nothing
      PROVE  Id[registry'[Id[y]]] = Id[y]
  <2>1. CASE Id[y] = Id[x]
    BY <1>1, <1>2, <1>3, <1>5, <2>1
  <2>2. CASE Id[y] # Id[x]
    <3>1. registry'[Id[y]] = registry[Id[y]]
      BY <1>1, <1>2, <1>3, <2>2
    <3>2. QED
      BY <1>5, <3>1 DEF TypeOK
  <2>3. QED
    BY <2>1, <2>2
<1>6. QED
  BY <1>4, <1>5

LEMMA PutTyped ==
  ASSUME TypeOK, NEW x \in Thing, Put(x)
  PROVE  /\ registry' \in [Ids -> Thing \cup {Nothing}]
         /\ \A y \in Thing :
              registry'[Id[y]] # Nothing => Id[registry'[Id[y]]] = Id[y]
         /\ lost' \subseteq Server
BY RegistryTyped DEF Put, TypeOK

LEMMA TakeTyped ==
  ASSUME TypeOK, NEW a, NEW x \in Thing, Take(a, x)
  PROVE  /\ registry' \in [Ids -> Thing \cup {Nothing}]
         /\ \A y \in Thing :
              registry'[Id[y]] # Nothing => Id[registry'[Id[y]]] = Id[y]
         /\ popper' \in [Ids -> Level \cup {Nothing}]
<1>1. popper' \in [Ids -> Level \cup {Nothing}]
  BY DEF Take, TypeOK
<1>2. QED
  BY <1>1, RegistryTyped DEF Take

\* There are no more handlers than signals.
Nested == Len(stack) <= signals

TypeInv == TypeOK /\ Nested

LEMMA NextTypeOK ==
  ASSUME TypeInv, [Next]_vars
  PROVE  TypeOK'
<1> USE RegistriesAssumption DEF TypeInv, TypeOK, requestVars, mainVars,
        history
<1>1. ASSUME NEW a \in Actor, NEW x \in Thing, Make(a, x)
      PROVE  TypeOK'
  <2>1. job' \in [Actor -> [Thing -> Label]]
    <3>1. CASE x \in Server
      BY <1>1, <3>1, GotoTyped DEF Make, Label
    <3>2. CASE x \notin Server
      BY <1>1, <3>2 DEF Make, Submit, Label
    <3>3. QED
      BY <3>1, <3>2
  <2>2. running' \subseteq Server /\ touched' \subseteq Server
    BY <1>1 DEF Make, Touch
  <2>3. QED
    BY <1>1, <2>1, <2>2 DEF Make
<1>2. ASSUME NEW a \in Actor, NEW x \in Thing,
             MakeFails(a, x) \/ Made(a, x) \/ Stop(a, x) \/ PartsGone(a, x)
      PROVE  TypeOK'
  <2>1. job' \in [Actor -> [Thing -> Label]]
    <3>1. PICK label \in Label : Goto(a, x, label)
      BY <1>2 DEF MakeFails, Made, Stop, PartsGone, Label
    <3>2. QED
      BY <3>1, GotoTyped
  <2>2. /\ running' \subseteq Server /\ touched' \subseteq Server
        /\ lost' \subseteq Server
    BY <1>2 DEF MakeFails, Made, Stop, PartsGone, Touch
  <2>3. QED
    BY <1>2, <2>1, <2>2 DEF MakeFails, Made, Stop, PartsGone
<1>3. ASSUME NEW a \in Actor, NEW x \in Thing, Store(a, x)
      PROVE  TypeOK'
  <2>1. job' \in [Actor -> [Thing -> Label]]
    BY <1>3 DEF Store, Goto, Label
  <2>2. touched' \subseteq Server
    BY <1>3 DEF Store, Touch
  <2>3. QED
    BY <1>3, <2>1, <2>2, PutTyped DEF Store
<1>4. ASSUME NEW a \in Actor, NEW x \in Thing, Pop(a, x)
      PROVE  TypeOK'
  <2>1. touched' \subseteq Server /\ Id[x] \in Ids
    BY <1>4 DEF Pop, Touch, Ids
  <2>2. CASE registry[Id[x]] = Nothing
    <3>1. job' \in [Actor -> [Thing -> Label]]
      BY <1>4, <2>2, GotoTyped DEF Pop, Label
    <3>2. missed' \in Missed
      BY <1>4, <2>1, <2>2 DEF Pop, Missed, Level
    <3>3. QED
      BY <1>4, <2>1, <2>2, <3>1, <3>2 DEF Pop
  <2>3. CASE registry[Id[x]] # Nothing
    <3> DEFINE y == registry[Id[x]]
               jobs == [job[a] EXCEPT ![x] = "idle"]
               after == IF y \in Server THEN StopNext(jobs, y)
                        ELSE CleanupNext(jobs, y)
    <3>1. y \in Thing /\ Take(a, y)
      BY <1>4, <2>1, <2>3 DEF Pop
    <3>2. job' \in [Actor -> [Thing -> Label]]
      <4>1. job' = [job EXCEPT ![a] = after]
        BY <1>4, <2>3 DEF Pop
      <4>2. jobs \in [Thing -> Label]
        BY DEF Label
      <4>3. after \in [Thing -> Label]
        BY <4>2 DEF StopNext, CleanupNext, Label
      <4>4. QED
        BY <4>1, <4>3
    <3>3. root' \in [Worker -> Thing \cup {Nothing}]
      <4>1. root' = root \/ root' = [root EXCEPT ![a] = y]
        BY <1>4, <2>3 DEF Pop
      <4>2. root \in [Worker -> Thing \cup {Nothing}]
        OBVIOUS
      <4> HIDE DEF y, jobs, after, TypeInv, TypeOK, requestVars, mainVars,
                   history
      <4>3. QED
        BY <3>1, <4>1, <4>2
    <3> HIDE DEF y, jobs, after
    <3>4. QED
      BY <1>4, <2>1, <2>3, <3>1, <3>2, <3>3, TakeTyped DEF Pop
  <2>4. QED
    BY <2>2, <2>3
<1>5. ASSUME NEW w \in Worker, NEW x \in Roots, Create(w, x)
      PROVE  TypeOK'
  <2>1. job' \in [Actor -> [Thing -> Label]]
    BY <1>5 DEF Create, Begin, Idle, Label, Actor
  <2>2. x \in Thing /\ Whole(x) \subseteq Thing
    BY BelowTypes, BelowParts DEF Roots
  <2>3. /\ touched' \subseteq Server
        /\ requests' \in 0..MaxEvents
        /\ root' \in [Worker -> Thing \cup {Nothing}]
    BY <1>5, <2>2 DEF Create, Accept, Touch
  <2>4. QED
    BY <1>5, <2>1, <2>2, <2>3 DEF Create
<1>6. ASSUME NEW w \in Worker, NEW x \in Thing, Command(w, x) \/ Remove(w, x)
      PROVE  TypeOK'
  <2>1. job' \in [Actor -> [Thing -> Label]]
    <3>1. PICK label \in Label : Begin(w, x, label)
      BY <1>6 DEF Command, Remove, Label
    <3>2. QED
      BY <3>1 DEF Begin, Idle, Label, Actor
  <2>2. /\ touched' \subseteq Server
        /\ requests' \in 0..MaxEvents
        /\ root' \in [Worker -> Thing \cup {Nothing}]
    <3>1. touched' \subseteq Server /\ Accept(w, x)
      BY <1>6 DEF Command, Remove, Touch
    <3>2. QED
      BY <3>1 DEF Accept
  <2>3. QED
    BY <1>6, <2>1, <2>2 DEF Command, Remove
<1>7. ASSUME NEW w \in Worker, NEW x \in Thing,
             \/ CommandPart(w, x) \/ CommandRuns(w, x)
             \/ CommandEnds(w, x) \/ CommandFails(w, x)
      PROVE  TypeOK'
  <2>1. job' \in [Actor -> [Thing -> Label]]
    <3>1. \E y \in Thing, label \in Label : Goto(w, y, label)
      <4>1. CASE CommandPart(w, x)
        BY <4>1, BelowParts DEF CommandPart, Label
      <4>2. CASE CommandRuns(w, x) \/ CommandEnds(w, x) \/ CommandFails(w, x)
        BY <4>2 DEF CommandRuns, CommandEnds, CommandFails, Label
      <4>3. QED
        BY <1>7, <4>1, <4>2
    <3>2. QED
      BY <3>1, GotoTyped DEF Actor
  <2>2. touched' \subseteq Server
    BY <1>7 DEF CommandPart, CommandRuns, CommandEnds, CommandFails, Touch
  <2>3. CASE CommandEnds(w, x)
    <3>1. Put(x) /\ restored' \subseteq Thing
      BY <2>3 DEF CommandEnds
    <3>2. QED
      BY <2>1, <2>2, <2>3, <3>1, PutTyped DEF CommandEnds
  <2>4. CASE CommandPart(w, x) \/ CommandRuns(w, x)
    BY <2>1, <2>2, <2>4 DEF CommandPart, CommandRuns
  <2>5. CASE CommandFails(w, x)
    BY <2>1, <2>2, <2>5 DEF CommandFails
  <2>6. QED
    BY <1>7, <2>3, <2>4, <2>5
<1>8. ASSUME NEW i \in Ids, ClusterPop(i) \/ ServerPop(i)
      PROVE  TypeOK'
  <2>1. Depth \in Level /\ Depth \in Actor
    BY <1>8, DepthIsLevel DEF ClusterPop, ServerPop, On
  <2>2. CASE registry[i] # Nothing
    <3>1. /\ registry[i] \in Thing /\ Take(Depth, registry[i])
          /\ \E label \in Label : Goto(Depth, registry[i], label)
      BY <1>8, <2>2 DEF ClusterPop, ServerPop, Label
    <3>2. job' \in [Actor -> [Thing -> Label]]
      BY <2>1, <3>1, GotoTyped
    <3>3. QED
      BY <1>8, <2>2, <3>1, <3>2, TakeTyped DEF ClusterPop, ServerPop
  <2>3. CASE registry[i] = Nothing
    <3>1. Raise(i)
      BY <1>8, <2>3 DEF ClusterPop, ServerPop
    <3>2. missed' \in Missed
      BY <2>1, <3>1 DEF Raise, Missed, Level
    <3>3. QED
      BY <1>8, <3>1, <3>2 DEF ClusterPop, ServerPop, Raise
  <2>4. QED
    BY <2>2, <2>3
<1>10. ASSUME NEW c \in Cluster, ClusterSubmit(c)
       PROVE  TypeOK'
  <2>1. job' \in [Actor -> [Thing -> Label]]
    <3>1. Depth \in Actor /\ c \in Thing /\ Parts[c] \subseteq Thing
      BY <1>10, DepthIsLevel DEF ClusterSubmit, On, Thing
    <3>2. PICK x \in Thing, label \in Label : Goto(Depth, x, label)
      BY <1>10, <3>1 DEF ClusterSubmit, Label
    <3>3. QED
      BY <3>1, <3>2, GotoTyped
  <2>2. QED
    BY <1>10, <2>1 DEF ClusterSubmit
<1>11. ASSUME NEW c \in Cluster, ClusterCollect(c)
       PROVE  TypeOK'
  <2>1. stack # <<>> /\ Depth \in Actor /\ Top.todo \ {Id[c]} \in SUBSET Ids
    BY <1>11, DepthIsLevel DEF ClusterCollect, On, Frame
  <2>2. job' \in [Actor -> [Thing -> Label]]
    BY <1>11, <2>1 DEF ClusterCollect, Idle, Label
  <2>3. stack' \in Seq(Frame) /\ Len(stack') <= MaxSignals
    BY <1>11, <2>1, SetTopTyped DEF ClusterCollect
  <2>4. QED
    BY <1>11, <2>2, <2>3 DEF ClusterCollect
<1>12. ASSUME ClustersEnd
       PROVE  TypeOK'
  <2>1. stack # <<>> /\ Keys(Server) \in SUBSET Ids
    BY <1>12 DEF ClustersEnd, On, Keys, Thing, Ids
  <2>2. stack' \in Seq(Frame) /\ Len(stack') <= MaxSignals
    BY <1>12, <2>1, SetTopTyped DEF ClustersEnd
  <2>3. QED
    BY <1>12, <2>2 DEF ClustersEnd
<1>13. ASSUME NEW s \in Server, ServerStop(s)
       PROVE  TypeOK'
  <2>1. stack # <<>> /\ Depth \in Actor /\ Top \in Frame
    BY <1>13, DepthIsLevel DEF ServerStop, On
  <2>2. job' \in [Actor -> [Thing -> Label]]
    BY <1>13, <2>1 DEF ServerStop, Goto, Label, Thing
  <2>3. /\ Top.todo \ {Id[s]} \in SUBSET Ids
        /\ Top.pc \in {"clusters", "sets", "servers"}
    BY <2>1 DEF Frame
  <2>4. stack' \in Seq(Frame) /\ Len(stack') <= MaxSignals
    BY <1>13, <2>1, <2>3, SetTopTyped DEF ServerStop
  <2>5. QED
    BY <1>13, <2>2, <2>4 DEF ServerStop
<1>14. ASSUME SetsEnd
       PROVE  TypeOK'
  <2>1. stack # <<>> /\ Keys(Server) \in SUBSET Ids
    BY <1>14 DEF SetsEnd, On, Keys, Thing, Ids
  <2>2. stack' \in Seq(Frame) /\ Len(stack') <= MaxSignals
    BY <1>14, <2>1, SetTopTyped DEF SetsEnd
  <2>3. /\ registry' \in [Ids -> Thing \cup {Nothing}]
        /\ \A z \in Thing :
             registry'[Id[z]] # Nothing => Id[registry'[Id[z]]] = Id[z]
    BY <1>14 DEF SetsEnd, Ids
  <2>4. QED
    BY <1>14, <2>2, <2>3 DEF SetsEnd
<1>15. ASSUME ServersEnd \/ Exit
       PROVE  TypeOK'
  BY <1>15 DEF ServersEnd, Exit
<1>16. ASSUME Unwind
       PROVE  TypeOK'
  <2>1. job' \in [Actor -> [Thing -> Label]]
    BY <1>16, DepthIsLevel DEF Unwind, Idle, Label
  <2>2. stack' \in Seq(Frame) /\ Len(stack') <= MaxSignals
    BY <1>16, DepthIsLevel DEF Unwind
  <2>3. QED
    BY <1>16, <2>1, <2>2 DEF Unwind
<1>17. ASSUME Signal
       PROVE  TypeOK'
  <2>1. [pc |-> "clusters", todo |-> Keys(Cluster)] \in Frame
    BY DEF Frame, Keys, Thing, Ids
  <2>2. stack' \in Seq(Frame) /\ Len(stack') <= MaxSignals
    BY <1>17, <2>1 DEF Signal, Nested
  <2>3. /\ touched' \subseteq Server
        /\ popper' \in [Ids -> Level \cup {Nothing}]
        /\ missed' \in Missed
        /\ signals' \in 0..MaxSignals
    BY <1>17 DEF Signal, Missed, NoMiss
  <2>4. QED
    BY <1>17, <2>2, <2>3 DEF Signal
<1>18. CASE UNCHANGED vars
  BY <1>18 DEF vars
<1>19. QED
  BY <1>1, <1>2, <1>3, <1>4, <1>5, <1>6, <1>7, <1>8, <1>10, <1>11, <1>12,
     <1>13, <1>14, <1>15, <1>16, <1>17, <1>18
     DEF Next, Job, Request, Handler

LEMMA NextNested ==
  ASSUME TypeOK, Nested, [Next]_vars
  PROVE  Nested'
<1>1. /\ Len(stack) \in Nat /\ signals \in Nat
      /\ stack # <<>> => Len(stack) > 0
  BY RegistriesAssumption DEF TypeOK
<1>2. CASE Signal
  BY <1>1, <1>2 DEF Signal, Nested, TypeOK
<1>3. ASSUME stack # <<>>, NEW pc, NEW todo, SetTop(pc, todo)
      PROVE  Len(stack') = Len(stack)
  BY <1>1, <1>3 DEF SetTop, Depth, TypeOK
<1>4. CASE Unwind
  BY <1>1, <1>4 DEF Unwind, Depth, Nested, TypeOK
<1>5. CASE Handler /\ ~Unwind
  BY <1>1, <1>3, <1>5
     DEF Handler, ClusterPop, ClusterSubmit, ClusterCollect, ClustersEnd,
         ServerPop, ServerStop, SetsEnd, ServersEnd, Raise, On, mainVars,
         Nested
<1>6. ASSUME NEW a \in Actor, NEW x \in Thing, Job(a, x)
      PROVE  Nested'
  BY <1>6 DEF Job, Make, MakeFails, Made, Store, Pop, Stop, PartsGone,
              mainVars, Nested
<1>7. CASE (\E w \in Worker : Request(w)) \/ Exit \/ UNCHANGED vars
  BY <1>7 DEF Request, Create, Command, CommandPart, CommandRuns, CommandEnds,
              CommandFails, Remove, Exit, mainVars, vars, Nested
<1>8. QED
  BY <1>2, <1>4, <1>5, <1>6, <1>7 DEF Next

LEMMA InitTypeInv == Init => TypeInv
<1>1. Init => Nested
  BY DEF Init, Nested
<1>2. QED
  BY <1>1, InitTypeOK DEF TypeInv

LEMMA NextTypeInv == TypeInv /\ [Next]_vars => TypeInv'
BY NextTypeOK, NextNested DEF TypeInv

\* Whatever workers, executors and nested handlers do at a time, an id names a
\* thing of that id, and no bound is exceeded.
THEOREM TypeCorrect == Spec => []TypeOK
<1>1. TypeInv => TypeOK
  BY DEF TypeInv
<1>2. QED
  BY InitTypeInv, NextTypeInv, <1>1, PTL DEF Spec

-----------------------------------------------------------------------------
(***************************************************************************)
(* Made once, taken once.                                                  *)
(***************************************************************************)
Making(a, x) == job[a][x] \in {"make", "making", "store"}

\* x is not among the parts that somebody has still to begin with.
Reached(x) ==
  \A a \in Actor, z \in Thing : job[a][z] = "make" => x \notin Below(z)

\* A thing is created with its parts.
Closed == \A x \in Thing : \A y \in Parts[x] : y \in created <=> x \in created

\* One job makes a thing.
MadeOnce ==
  \A a \in Actor, x \in Thing :
    Making(a, x) =>
      /\ x \in created /\ Reached(x)
      /\ \A b \in Actor : Making(b, x) => b = a

\* Nobody makes x any more, or will.
Past(x) == x \in created /\ Reached(x) /\ \A a \in Actor : ~Making(a, x)

\* Somebody has x in hand that has been made.
Used(x) ==
  Registered(x)
    \/ \E a \in Actor : Removing(a, x) \/ job[a][x] \in {"hold", "ran"}

UsedPast == \A x \in Thing : Used(x) => Past(x)

\* Who removes a thing has taken it out of its registry.
TakenOnce ==
  \A x \in Thing \ restored, a \in Actor :
    Removing(a, x) =>
      ~Registered(x) /\ \A b \in Actor : Removing(b, x) => b = a

Story == Closed /\ MadeOnce /\ UsedPast /\ TakenOnce

\* What b does to y is nothing new, unless it removes x.
Modest(x, b, y) ==
  /\ job'[b][y] \in {"make", "making", "store"} => Making(b, y)
  /\ job'[b][y] = "make" => job[b][y] = "make"
  /\ job'[b][y] \in {"hold", "ran"} => job[b][y] \in {"hold", "ran"}
  /\ y # x /\ job'[b][y] \in {"parts", "stop", "submit", "collect",
                               "stop_main"}
       => Removing(b, y)

\* A step that makes, registers, holds and takes nothing.
Calm ==
  /\ created' = created
  /\ restored \subseteq restored'
  /\ \A x \in Thing : registry'[Id[x]] = x => Registered(x)
  /\ \A b \in Actor, y \in Thing : Modest(Nothing, b, y)

\* A step of a that takes x out of its registry.
Taken(a, x) ==
  /\ Registered(x)
  /\ created' = created
  /\ restored' = restored
  /\ registry' = [registry EXCEPT ![Id[x]] = Nothing]
  /\ \A b \in Actor, y \in Thing : Modest(IF b = a THEN x ELSE Nothing, b, y)

LEMMA InitStory == Init => Story
<1> SUFFICES ASSUME Init
             PROVE  Story
  OBVIOUS
<1>1. PICK S \in SUBSET Roots : created = UNION {Whole(x) : x \in S}
  BY DEF Init
<1>2. S \subseteq Thing
  BY DEF Roots
<1>3. Closed
  <2> SUFFICES ASSUME NEW x \in Thing, NEW y \in Parts[x]
               PROVE  y \in created <=> x \in created
    BY DEF Closed
  <2>1. ASSUME x \in created
        PROVE  y \in created
    <3>1. PICK r \in S : x \in Whole(r)
      BY <1>1, <2>1
    <3>2. CASE x = r
      BY <1>1, <3>2 DEF Whole
    <3>3. CASE x \in Parts[r]
      BY <1>1, <3>3 DEF Whole
    <3>4. ASSUME NEW p \in Parts[r], x \in Parts[p]
          PROVE  FALSE
      BY <1>2, <3>4, RegistriesAssumption DEF Thing
    <3>5. QED
      BY <3>1, <3>2, <3>3, <3>4 DEF Whole
  <2>2. ASSUME y \in created
        PROVE  x \in created
    <3>1. PICK r \in S : y \in Whole(r)
      BY <1>1, <2>2
    <3>2. r \in Thing /\ y # r
      BY <1>2 DEF Roots
    <3>3. y \in Below(r)
      BY <3>1, <3>2, BelowTypes
    <3>4. x = r \/ x \in Below(r)
      BY <3>2, <3>3, OneOwner
    <3>5. QED
      BY <1>1, <3>2, <3>4, BelowTypes
  <2>3. QED
    BY <2>1, <2>2
<1>4. \A a \in Actor, x \in Thing : job[a][x] = "idle"
  BY DEF Init, Idle
<1>5. ASSUME NEW x \in Thing, Registered(x)
      PROVE  x \in created
  <2>1. registry[Id[x]] = x /\ Id[x] \in Ids
    BY <1>5 DEF Registered, Ids
  <2>2. CASE \E y \in created : Id[y] = Id[x]
    BY <2>1, <2>2 DEF Init
  <2>3. CASE ~\E y \in created : Id[y] = Id[x]
    BY <2>1, <2>3, RegistriesAssumption DEF Init
  <2>4. QED
    BY <2>2, <2>3
<1>6. QED
  BY <1>3, <1>4, <1>5
     DEF Story, MadeOnce, UsedPast, TakenOnce, Used, Past, Reached, Making,
         Removing

LEMMA CalmKeeps ==
  ASSUME TypeInv, Story, Calm
  PROVE  Story'
<1> USE DEF Calm, Modest
<1>1. Closed'
  BY DEF Story, Closed
<1>2. \A x \in Thing : Reached(x) => Reached(x)'
  BY DEF Reached
<1>3. \A a \in Actor, x \in Thing : Making(a, x)' => Making(a, x)
  BY DEF Making
<1>4. Nothing \notin Thing
  BY RegistriesAssumption
<1>5. \A a \in Actor, x \in Thing : Removing(a, x)' => Removing(a, x)
  BY <1>4 DEF Removing
<1>6. \A x \in Thing : Registered(x)' => Registered(x)
  BY DEF Registered
<1> HIDE DEF Modest
<1>7. MadeOnce'
  BY <1>2, <1>3 DEF Story, MadeOnce
<1>8. UsedPast'
  <2>1. \A x \in Thing : Used(x)' => Used(x)
    BY <1>5, <1>6 DEF Used, Modest
  <2>2. \A x \in Thing : Past(x) => Past(x)'
    BY <1>2, <1>3 DEF Past
  <2>3. QED
    BY <2>1, <2>2 DEF Story, UsedPast
<1>9. TakenOnce'
  BY <1>5, <1>6 DEF Story, TakenOnce
<1>10. QED
  BY <1>1, <1>7, <1>8, <1>9 DEF Story

LEMMA TakenKeeps ==
  ASSUME TypeInv, Story, NEW a \in Actor, NEW x \in Thing, Taken(a, x)
  PROVE  Story'
<1> USE DEF Taken, Modest
<1>1. Closed'
  BY DEF Story, Closed
<1>2. \A y \in Thing : Reached(y) => Reached(y)'
  BY DEF Reached
<1>3. \A b \in Actor, y \in Thing : Making(b, y)' => Making(b, y)
  BY DEF Making
<1>4. Nothing \notin Thing
  BY RegistriesAssumption
<1>5. \A b \in Actor, y \in Thing :
        Removing(b, y)' => Removing(b, y) \/ (b = a /\ y = x)
  BY <1>4 DEF Removing
<1>6. /\ ~Registered(x)'
      /\ \A y \in Thing : Registered(y)' => Registered(y)
  BY <1>4 DEF Registered, TypeInv, TypeOK, Ids
<1>7. \A b \in Actor, y \in Thing :
        job'[b][y] \in {"hold", "ran"} => job[b][y] \in {"hold", "ran"}
  OBVIOUS
<1> HIDE DEF Modest
<1>8. MadeOnce'
  BY <1>2, <1>3 DEF Story, MadeOnce
<1>9. UsedPast'
  <2>1. \A y \in Thing : Used(y)' => Used(y)
    BY <1>5, <1>6, <1>7 DEF Used
  <2>2. \A y \in Thing : Past(y) => Past(y)'
    BY <1>2, <1>3 DEF Past
  <2>3. QED
    BY <2>1, <2>2 DEF Story, UsedPast
<1>10. TakenOnce'
  BY <1>5, <1>6 DEF Story, TakenOnce
<1>11. QED
  BY <1>1, <1>8, <1>9, <1>10 DEF Story

\* A request sets the worker's jobs to one.
LEMMA BeginModest ==
  ASSUME TypeInv, NEW w \in Worker, NEW x \in Thing, NEW label \in Label,
         Begin(w, x, label)
  PROVE  \A b \in Actor, y \in Thing :
           job'[b][y] = job[b][y] \/ job'[b][y] = "idle"
             \/ (b = w /\ y = x /\ job'[b][y] = label)
BY DEF TypeInv, TypeOK, Begin, Idle, Actor

LEMMA GotoModest ==
  ASSUME TypeInv, NEW a \in Actor, NEW x \in Thing, NEW label \in Label,
         Goto(a, x, label)
  PROVE  \A b \in Actor, y \in Thing :
           IF b = a /\ y = x THEN job'[b][y] = label
           ELSE job'[b][y] = job[b][y]
BY DEF TypeInv, TypeOK, Goto

\* What is created has not been begun, nor has any part of it.
LEMMA CreateKeeps ==
  ASSUME TypeInv, Story, NEW w \in Worker, NEW x \in Roots, Create(w, x)
  PROVE  Story'
<1>1. x \in Thing /\ w \in Actor
  BY DEF Roots, Actor
<1>2. x \notin created /\ created' = created \cup Whole(x)
  BY DEF Create
<1>3. registry' = registry /\ restored' = restored
  BY DEF Create
<1>4. \A b \in Actor, y \in Thing :
        job'[b][y] = job[b][y] \/ job'[b][y] = "idle"
          \/ (b = w /\ y = x /\ job'[b][y] = "make")
  BY <1>1, BeginModest DEF Create, Label
<1>5. \A y \in Below(x) : y \notin created
  <2>1. \A y \in Parts[x] : y \notin created
    BY <1>1, <1>2 DEF Story, Closed
  <2>2. \A y \in Parts[x] : y \in Thing
    BY <1>1, BelowParts
  <2>3. \A y \in Parts[x] : \A z \in Parts[y] : z \notin created
    BY <2>1, <2>2 DEF Story, Closed
  <2>4. QED
    BY <2>1, <2>3 DEF Below
<1>6. Closed'
  <2> SUFFICES ASSUME NEW z \in Thing, NEW y \in Parts[z]
               PROVE  y \in created' <=> z \in created'
    BY DEF Closed
  <2>1. y \in Thing /\ (y \in created <=> z \in created)
    BY BelowParts DEF Story, Closed
  <2>2. ASSUME z \in Whole(x)
        PROVE  y \in Whole(x)
    <3>1. CASE z = x
      BY <3>1 DEF Whole
    <3>2. CASE z \in Parts[x]
      BY <3>2 DEF Whole
    <3>3. ASSUME NEW p \in Parts[x], z \in Parts[p]
          PROVE  FALSE
      BY <1>1, <3>3, RegistriesAssumption DEF Thing
    <3>4. QED
      BY <2>2, <3>1, <3>2, <3>3 DEF Whole
  <2>3. ASSUME y \in Whole(x)
        PROVE  z \in Whole(x)
    <3>1. y # x
      BY <1>1, RegistriesAssumption DEF Roots
    <3>2. y \in Below(x)
      BY <1>1, <2>3, <3>1, BelowTypes
    <3>3. QED
      BY <1>1, <3>2, OneOwner, BelowTypes
  <2>4. QED
    BY <1>2, <2>1, <2>2, <2>3
<1>7. \A y \in Thing : Reached(y) /\ y \notin Below(x) => Reached(y)'
  BY <1>4 DEF Reached
<1>8. \A y \in created : y \in Thing => y \notin Below(x) /\ y # x
  BY <1>2, <1>5
<1>9. \A a \in Actor, y \in Thing :
        Making(a, y)' => Making(a, y) \/ (a = w /\ y = x)
  BY <1>4 DEF Making
<1>10. ~\E a \in Actor : Making(a, x)
  BY <1>1, <1>2 DEF Story, MadeOnce
<1>11. Reached(x)'
  <2>1. \A z \in Thing : x \notin Below(z)
    BY RootsAbove
  <2>2. QED
    BY <2>1 DEF Reached
<1>12. MadeOnce'
  <2> SUFFICES ASSUME NEW a \in Actor, NEW y \in Thing, Making(a, y)'
               PROVE  /\ y \in created' /\ Reached(y)'
                      /\ \A b \in Actor : Making(b, y)' => b = a
    BY DEF MadeOnce
  <2>1. CASE y = x
    <3>1. x \in created'
      BY <1>2 DEF Whole
    <3>2. QED
      BY <1>9, <1>10, <1>11, <2>1, <3>1
  <2>2. CASE y # x
    BY <1>2, <1>7, <1>8, <1>9, <2>2 DEF Story, MadeOnce
  <2>3. QED
    BY <2>1, <2>2
<1>13. \A a \in Actor, y \in Thing : Removing(a, y)' => Removing(a, y)
  BY <1>4 DEF Removing
<1>14. \A y \in Thing : Registered(y)' = Registered(y)
  BY <1>3 DEF Registered
<1>15. UsedPast'
  <2>1. \A y \in Thing : Used(y)' => Used(y)
    BY <1>4, <1>13, <1>14 DEF Used
  <2>2. \A y \in Thing : Past(y) => Past(y)'
    BY <1>2, <1>7, <1>8, <1>9 DEF Past
  <2>3. QED
    BY <2>1, <2>2 DEF Story, UsedPast
<1>16. TakenOnce'
  BY <1>3, <1>13, <1>14 DEF Story, TakenOnce
<1>17. QED
  BY <1>6, <1>12, <1>15, <1>16 DEF Story

\* A constructor begins with its parts, which nobody has begun with.
LEMMA MakeKeeps ==
  ASSUME TypeInv, Story, NEW a \in Actor, NEW x \in Thing, Make(a, x)
  PROVE  Story'
<1>1. CASE x \in Server
  <2>1. Goto(a, x, "store") /\ "store" \in Label
    BY <1>1 DEF Make, Label
  <2>2. job[a][x] = "make"
    BY DEF Make
  <2>3. Calm
    BY <2>1, <2>2, GotoModest
       DEF Make, Calm, Modest, Making, Removing, requestVars, Registered
  <2>4. QED
    BY <2>3, CalmKeeps
<1>2. CASE x \notin Server
  <2>1. /\ job[a][x] = "make" /\ Submit(a, x, "making", "make")
        /\ created' = created /\ registry' = registry /\ restored' = restored
    BY <1>2 DEF Make, requestVars
  <2>2. \A b \in Actor, y \in Thing :
          \/ b = a /\ y = x /\ job'[b][y] = "making"
          \/ b = a /\ y \in Parts[x] /\ job'[b][y] = "make"
          \/ (b # a \/ y # x) /\ job'[b][y] = job[b][y]
    BY <2>1 DEF Submit, TypeInv, TypeOK
  <2>3. /\ x \in created /\ Reached(x)
        /\ \A b \in Actor : Making(b, x) => b = a
    BY <2>1 DEF Story, MadeOnce, Making
  <2>4. \A p \in Parts[x] :
          p \in Thing /\ p \in Below(x) /\ Below(p) \subseteq Below(x)
    BY BelowParts
  <2>5. \A y \in Thing : Reached(y) => Reached(y)'
    BY <2>1, <2>2, <2>4 DEF Reached
  <2>6. \A p \in Parts[x], b \in Actor : ~Making(b, p)
    BY <2>1, <2>4 DEF Story, MadeOnce, Reached
  <2>7. \A b \in Actor, y \in Thing :
          Making(b, y)' => Making(b, y) \/ (b = a /\ y \in Parts[x])
    BY <2>1, <2>2 DEF Making
  <2>8. ASSUME NEW p \in Parts[x]
        PROVE  Reached(p)'
    <3> SUFFICES ASSUME NEW b \in Actor, NEW z \in Thing, job'[b][z] = "make"
                 PROVE  p \notin Below(z)
      BY DEF Reached
    <3>1. z # x
      BY <2>1, <2>2, <2>3, <2>4, BelowTypes DEF Making
    <3>2. x \notin Below(z)
      <4>1. CASE job[b][z] = "make"
        BY <2>3, <4>1 DEF Reached
      <4>2. CASE z \in Parts[x]
        BY <2>4, <4>2, BelowTypes
      <4>3. QED
        BY <2>2, <4>1, <4>2
    <3>3. QED
      BY <3>1, <3>2, OneOwner
  <2>9. \A p \in Parts[x] : p \in created
    BY <2>3 DEF Story, Closed
  <2>10. MadeOnce'
    BY <2>1, <2>5, <2>6, <2>7, <2>8, <2>9 DEF Story, MadeOnce
  <2>11. \A b \in Actor, y \in Thing : Removing(b, y)' => Removing(b, y)
    BY <2>2 DEF Removing
  <2>12. \A y \in Thing : Registered(y)' = Registered(y)
    BY <2>1 DEF Registered
  <2>13. UsedPast'
    <3>1. \A y \in Thing : Used(y)' => Used(y)
      BY <2>2, <2>11, <2>12 DEF Used
    <3>2. \A y \in Thing : Past(y) => y \notin Parts[x]
      BY <2>1, <2>4 DEF Past, Reached
    <3>3. \A y \in Thing : Past(y) => Past(y)'
      BY <2>1, <2>5, <2>7, <3>2 DEF Past
    <3>4. QED
      BY <3>1, <3>3 DEF Story, UsedPast
  <2>14. TakenOnce'
    BY <2>1, <2>11, <2>12 DEF Story, TakenOnce
  <2>15. Closed'
    BY <2>1 DEF Story, Closed
  <2>16. QED
    BY <2>10, <2>13, <2>14, <2>15 DEF Story
<1>3. QED
  BY <1>1, <1>2

\* Storing a thing ends its making.
LEMMA StoreKeeps ==
  ASSUME TypeInv, Story, NEW a \in Actor, NEW x \in Thing, Store(a, x)
  PROVE  Story'
<1>1. /\ job[a][x] = "store" /\ Goto(a, x, "done") /\ "done" \in Label
      /\ created' = created /\ restored' = restored
      /\ registry' = [registry EXCEPT ![Id[x]] = x]
  BY DEF Store, Put, requestVars, Label
<1>2. \A b \in Actor, y \in Thing :
        IF b = a /\ y = x THEN job'[b][y] = "done"
        ELSE job'[b][y] = job[b][y]
  BY <1>1, GotoModest
<1>3. /\ x \in created /\ Reached(x)
      /\ \A b \in Actor : Making(b, x) => b = a
  BY <1>1 DEF Story, MadeOnce, Making
<1>4. \A b \in Actor : ~Removing(b, x)
  <2>1. ~Past(x)
    BY <1>1 DEF Past, Making
  <2>2. QED
    BY <2>1 DEF Story, UsedPast, Used
<1>5. \A y \in Thing : Reached(y) => Reached(y)'
  BY <1>2 DEF Reached
<1>6. \A b \in Actor, y \in Thing :
        Making(b, y)' => Making(b, y) /\ ~(b = a /\ y = x)
  BY <1>2 DEF Making
<1>7. \A b \in Actor, y \in Thing : Removing(b, y)' => Removing(b, y)
  BY <1>2 DEF Removing
<1>8. \A y \in Thing : Registered(y)' => Registered(y) \/ y = x
  BY <1>1 DEF Registered, TypeInv, TypeOK, Ids
<1>9. MadeOnce'
  BY <1>1, <1>5, <1>6 DEF Story, MadeOnce
<1>10. UsedPast'
  <2>1. \A y \in Thing : Used(y)' => Used(y) \/ y = x
    BY <1>2, <1>7, <1>8 DEF Used
  <2>2. Past(x)'
    BY <1>1, <1>3, <1>5, <1>6 DEF Past
  <2>3. \A y \in Thing : Past(y) => Past(y)'
    BY <1>1, <1>5, <1>6 DEF Past
  <2>4. QED
    BY <2>1, <2>2, <2>3 DEF Story, UsedPast
<1>11. TakenOnce'
  BY <1>1, <1>4, <1>7, <1>8 DEF Story, TakenOnce
<1>12. Closed'
  BY <1>1 DEF Story, Closed
<1>13. QED
  BY <1>9, <1>10, <1>11, <1>12 DEF Story

\* A command has a registered thing in hand, ...
LEMMA HoldKeeps ==
  ASSUME TypeInv, Story, NEW w \in Worker, NEW x \in Thing,
         Registered(x), Begin(w, x, "hold") \/ Goto(w, x, "hold"),
         created' = created, restored' = restored, registry' = registry
  PROVE  Story'
<1>1. w \in Actor /\ "hold" \in Label
  BY DEF Actor, Label
<1>2. \A b \in Actor, y \in Thing :
        job'[b][y] = job[b][y] \/ job'[b][y] = "idle"
          \/ (b = w /\ y = x /\ job'[b][y] = "hold")
  BY <1>1, BeginModest, GotoModest
<1>3. \A y \in Thing : Reached(y) => Reached(y)'
  BY <1>2 DEF Reached
<1>4. \A b \in Actor, y \in Thing : Making(b, y)' => Making(b, y)
  BY <1>2 DEF Making
<1>5. \A b \in Actor, y \in Thing : Removing(b, y)' => Removing(b, y)
  BY <1>2 DEF Removing
<1>6. \A y \in Thing : Registered(y)' = Registered(y)
  BY DEF Registered
<1>7. MadeOnce'
  BY <1>3, <1>4 DEF Story, MadeOnce
<1>8. UsedPast'
  <2>1. \A y \in Thing : Used(y)' => Used(y)
    BY <1>2, <1>5, <1>6 DEF Used
  <2>2. \A y \in Thing : Past(y) => Past(y)'
    BY <1>3, <1>4 DEF Past
  <2>3. QED
    BY <2>1, <2>2 DEF Story, UsedPast
<1>9. TakenOnce' /\ Closed'
  BY <1>5, <1>6 DEF Story, TakenOnce, Closed
<1>10. QED
  BY <1>7, <1>8, <1>9 DEF Story

\* ... and remembers it when it stores it after its removal.
LEMMA CommandEndsKeeps ==
  ASSUME TypeInv, Story, NEW w \in Worker, NEW x \in Thing, CommandEnds(w, x)
  PROVE  Story'
<1>1. /\ job[w][x] \in {"hold", "ran"}
      /\ Goto(w, x, "done") /\ "done" \in Label
      /\ w \in Actor
      /\ created' = created
      /\ restored' = IF Registered(x) THEN restored ELSE restored \cup {x}
      /\ registry' = [registry EXCEPT ![Id[x]] = x]
  BY DEF CommandEnds, Commanding, Put, requestVars, Label, Actor
<1>2. \A b \in Actor, y \in Thing :
        IF b = w /\ y = x THEN job'[b][y] = "done"
        ELSE job'[b][y] = job[b][y]
  BY <1>1, GotoModest
<1>3. Used(x)
  BY <1>1 DEF Used
<1>4. \A y \in Thing : Reached(y) => Reached(y)'
  BY <1>2 DEF Reached
<1>5. \A b \in Actor, y \in Thing : Making(b, y)' => Making(b, y)
  BY <1>2 DEF Making
<1>6. \A b \in Actor, y \in Thing : Removing(b, y)' => Removing(b, y)
  BY <1>2 DEF Removing
<1>7. \A y \in Thing : Registered(y)' => Registered(y) \/ y = x
  BY <1>1 DEF Registered, TypeInv, TypeOK, Ids
<1>8. MadeOnce'
  BY <1>1, <1>4, <1>5 DEF Story, MadeOnce
<1>9. UsedPast'
  <2>1. \A y \in Thing : Used(y)' => Used(y)
    BY <1>2, <1>3, <1>6, <1>7 DEF Used
  <2>2. \A y \in Thing : Past(y) => Past(y)'
    BY <1>1, <1>4, <1>5 DEF Past
  <2>3. QED
    BY <2>1, <2>2 DEF Story, UsedPast
<1>10. TakenOnce'
  <2>1. \A y \in Thing \ restored' :
          y \notin restored /\ (Registered(y)' => Registered(y))
    BY <1>1, <1>7
  <2>2. QED
    BY <1>6, <2>1 DEF Story, TakenOnce
<1>11. Closed'
  BY <1>1 DEF Story, Closed
<1>12. QED
  BY <1>8, <1>9, <1>10, <1>11 DEF Story

\* Jobs that go on to a label that brings up nothing new.
LEMMA GotoCalm ==
  ASSUME TypeInv, NEW a \in Actor, NEW x \in Thing, NEW label \in Label,
         Goto(a, x, label),
         label \in {"make", "making", "store"} => Making(a, x),
         label = "make" => job[a][x] = "make",
         label \in {"hold", "ran"} => job[a][x] \in {"hold", "ran"},
         label \in {"parts", "stop", "submit", "collect", "stop_main"} =>
           Removing(a, x),
         created' = created, restored' = restored, registry' = registry
  PROVE  Calm
<1>1. \A b \in Actor, y \in Thing :
        IF b = a /\ y = x THEN job'[b][y] = label
        ELSE job'[b][y] = job[b][y]
  BY GotoModest
<1>2. \A b \in Actor, y \in Thing : Modest(Nothing, b, y)
  BY <1>1 DEF Modest, Making, Removing
<1>3. QED
  BY <1>2 DEF Calm, Registered

LEMMA JobKeeps ==
  ASSUME TypeInv, Story, NEW a \in Actor, NEW x \in Thing, Job(a, x)
  PROVE  Story'
<1>1. CASE MakeFails(a, x) \/ Made(a, x) \/ Stop(a, x) \/ PartsGone(a, x)
  <2>1. PICK label \in {"raised", "store", "done"} :
          Goto(a, x, label) /\ (label = "store" => Making(a, x))
    BY <1>1 DEF MakeFails, Made, Stop, PartsGone, Making
  <2>2. created' = created /\ restored' = restored /\ registry' = registry
    BY <1>1 DEF MakeFails, Made, Stop, PartsGone, requestVars, history
  <2>3. Calm
    BY <2>1, <2>2, GotoCalm DEF Label
  <2>4. QED
    BY <2>3, CalmKeeps
<1>2. CASE Pop(a, x)
  <2>1. created' = created /\ restored' = restored
    BY <1>2 DEF Pop
  <2>2. CASE registry[Id[x]] = Nothing
    <3>1. Goto(a, x, "raised") /\ registry' = registry
      BY <1>2, <2>2 DEF Pop
    <3>2. Calm
      BY <2>1, <3>1, GotoCalm DEF Label
    <3>3. QED
      BY <3>2, CalmKeeps
  <2>3. CASE registry[Id[x]] # Nothing
    <3> DEFINE y == registry[Id[x]]
    <3>1. y \in Thing /\ Registered(y)
      BY <2>3 DEF TypeInv, TypeOK, Ids, Registered
    <3>2. registry' = [registry EXCEPT ![Id[y]] = Nothing]
      BY <1>2, <2>3 DEF Pop, Take
    <3>3. \A b \in Actor, z \in Thing :
            \/ job'[b][z] = job[b][z]
            \/ b = a /\ z = y /\ job'[b][z] \in {"stop", "parts"}
            \/ job'[b][z] \in {"pop", "idle"}
      <4> DEFINE jobs  == [job[a] EXCEPT ![x] = "idle"]
                 after == IF y \in Server THEN StopNext(jobs, y)
                          ELSE CleanupNext(jobs, y)
      <4>1. job' = [job EXCEPT ![a] = after]
        BY <1>2, <2>3 DEF Pop
      <4>2. \A b \in Actor : b # a => job'[b] = job[b]
        BY <4>1 DEF TypeInv, TypeOK
      <4>3. job'[a] = after
        BY <4>1 DEF TypeInv, TypeOK
      <4>4. \A z \in Thing :
              \/ after[z] = job[a][z]
              \/ z = y /\ after[z] \in {"stop", "parts"}
              \/ after[z] \in {"pop", "idle"}
        BY DEF TypeInv, TypeOK, StopNext, CleanupNext
      <4>5. QED
        BY <4>2, <4>3, <4>4
    <3>4. Taken(a, y)
      <4>1. \A b \in Actor, z \in Thing :
              Modest(IF b = a THEN y ELSE Nothing, b, z)
        BY <3>1, <3>3, RegistriesAssumption DEF Modest, Making, Removing
      <4>2. QED
        BY <2>1, <3>1, <3>2, <4>1 DEF Taken
    <3>5. QED
      BY <3>1, <3>4, TakenKeeps
  <2>4. QED
    BY <2>2, <2>3
<1>3. QED
  BY <1>1, <1>2, MakeKeeps, StoreKeeps DEF Job

LEMMA HandlerKeeps ==
  ASSUME TypeInv, Story, Handler
  PROVE  Story'
<1>1. stack # <<>>
  BY DEF Handler, ClusterPop, ClusterSubmit, ClusterCollect, ClustersEnd,
         ServerPop, ServerStop, SetsEnd, ServersEnd, Unwind, On
<1>2. Depth \in Actor
  BY <1>1, DepthIsLevel DEF TypeInv
<1>3. created' = created /\ restored' = restored
  BY DEF Handler, ClusterPop, ClusterSubmit, ClusterCollect, ClustersEnd,
         ServerPop, ServerStop, SetsEnd, ServersEnd, Unwind, Raise,
         requestVars, history
<1>4. ASSUME NEW x \in Thing, NEW label \in {"submit", "stop_main"},
             Registered(x), Take(Depth, x), Goto(Depth, x, label)
      PROVE  Story'
  <2>1. \A b \in Actor, y \in Thing :
          IF b = Depth /\ y = x THEN job'[b][y] = label
          ELSE job'[b][y] = job[b][y]
    BY <1>2, <1>4, GotoModest DEF Label
  <2>2. \A b \in Actor, y \in Thing :
          Modest(IF b = Depth THEN x ELSE Nothing, b, y)
    BY <2>1 DEF Modest, Making, Removing
  <2>3. Taken(Depth, x)
    BY <1>3, <1>4, <2>2 DEF Taken, Take
  <2>4. QED
    BY <1>2, <2>3, TakenKeeps
<1>5. ASSUME job' = job \/ job' = [job EXCEPT ![Depth] = Idle],
             \A x \in Thing : registry'[Id[x]] = x => Registered(x)
      PROVE  Story'
  <2>1. \A b \in Actor, y \in Thing :
          job'[b][y] = job[b][y] \/ job'[b][y] = "idle"
    BY <1>2, <1>5 DEF Idle, TypeInv, TypeOK
  <2>2. \A b \in Actor, y \in Thing : Modest(Nothing, b, y)
    BY <2>1 DEF Modest, Making, Removing
  <2>3. Calm
    BY <1>3, <1>5, <2>2 DEF Calm
  <2>4. QED
    BY <2>3, CalmKeeps
<1>6. ASSUME NEW i \in Ids, ClusterPop(i) \/ ServerPop(i)
      PROVE  Story'
  <2>1. CASE registry[i] = Nothing
    BY <1>5, <1>6, <2>1 DEF ClusterPop, ServerPop, Raise, Registered
  <2>2. CASE registry[i] # Nothing
    <3>1. registry[i] \in Thing /\ Registered(registry[i])
      BY <2>2, Named DEF TypeInv
    <3>2. \E label \in {"submit", "stop_main"} :
            Take(Depth, registry[i]) /\ Goto(Depth, registry[i], label)
      BY <1>6, <2>2 DEF ClusterPop, ServerPop
    <3>3. QED
      BY <1>4, <3>1, <3>2
  <2>3. QED
    BY <2>1, <2>2
<1>8. ASSUME NEW c \in Cluster, ClusterSubmit(c)
      PROVE  Story'
  <2>1. c \in Thing /\ Parts[c] \subseteq Thing
    BY RegistriesAssumption DEF Thing
  <2>2. registry' = registry /\ job[Depth][c] = "submit"
    BY <1>8 DEF ClusterSubmit
  <2>3. CASE Goto(Depth, c, "collect")
    <3>1. Calm
      BY <1>2, <1>3, <2>1, <2>2, <2>3, GotoCalm DEF Label, Removing
    <3>2. QED
      BY <3>1, CalmKeeps
  <2>4. ASSUME NEW x \in Parts[c], Goto(Depth, x, "pop")
        PROVE  Story'
    <3>1. Calm
      BY <1>2, <1>3, <2>1, <2>2, <2>4, GotoCalm DEF Label
    <3>2. QED
      BY <3>1, CalmKeeps
  <2>5. QED
    BY <1>8, <2>3, <2>4 DEF ClusterSubmit
<1>9. ASSUME NEW s \in Server, ServerStop(s)
      PROVE  Story'
  <2>1. s \in Thing /\ registry' = registry /\ Goto(Depth, s, "idle")
    BY <1>9 DEF ServerStop, Thing
  <2>2. Calm
    BY <1>2, <1>3, <2>1, GotoCalm DEF Label
  <2>3. QED
    BY <2>2, CalmKeeps
<1>10. CASE SetsEnd
  <2>1. \A x \in Thing : registry'[Id[x]] = x => Registered(x)
    BY <1>10, RegistriesAssumption DEF SetsEnd, Registered, Ids
  <2>2. QED
    BY <1>5, <1>10, <2>1 DEF SetsEnd
<1>11. CASE \/ ClustersEnd \/ ServersEnd \/ Unwind
            \/ \E c \in Cluster : ClusterCollect(c)
  BY <1>5, <1>11
     DEF ClustersEnd, ServersEnd, Unwind, ClusterCollect, Registered
<1>12. QED
  BY <1>6, <1>8, <1>9, <1>10, <1>11 DEF Handler

LEMMA NextStory ==
  ASSUME TypeInv, Story, [Next]_vars
  PROVE  Story'
<1>1. ASSUME NEW w \in Worker, NEW x \in Thing, Remove(w, x)
      PROVE  Story'
  <2>1. \A b \in Actor, y \in Thing :
          job'[b][y] = job[b][y] \/ job'[b][y] \in {"idle", "pop"}
    BY <1>1, BeginModest DEF Remove, Label
  <2>2. \A b \in Actor, y \in Thing : Modest(Nothing, b, y)
    BY <2>1 DEF Modest, Making, Removing
  <2>3. Calm
    BY <1>1, <2>2 DEF Remove, Calm, Registered
  <2>4. QED
    BY <2>3, CalmKeeps
<1>2. CASE Signal \/ Exit \/ UNCHANGED vars
  <2>1. /\ job' = job /\ registry' = registry
        /\ created' = created /\ restored' = restored
    BY <1>2 DEF Signal, Exit, vars, requestVars, history
  <2>2. Calm
    BY <2>1 DEF Calm, Modest, Making, Removing, Registered
  <2>3. QED
    BY <2>2, CalmKeeps
<1>3. ASSUME NEW w \in Worker, NEW x \in Thing,
             Command(w, x) \/ CommandPart(w, x)
      PROVE  Story'
  <2>1. CASE Command(w, x)
    BY <2>1, HoldKeeps DEF Command
  <2>2. CASE CommandPart(w, x)
    <3>1. PICK p \in Parts[x] : Registered(p) /\ Goto(w, p, "hold")
      BY <2>2 DEF CommandPart
    <3>2. p \in Thing
      BY BelowParts
    <3>3. QED
      BY <2>2, <3>1, <3>2, HoldKeeps DEF CommandPart, requestVars
  <2>3. QED
    BY <1>3, <2>1, <2>2
<1>4. ASSUME NEW w \in Worker, NEW x \in Thing,
             CommandRuns(w, x) \/ CommandFails(w, x)
      PROVE  Story'
  <2>1. PICK label \in {"ran", "raised"} : Goto(w, x, label)
    BY <1>4 DEF CommandRuns, CommandFails
  <2>2. /\ job[w][x] \in {"hold", "ran"}
        /\ created' = created /\ restored' = restored /\ registry' = registry
    BY <1>4 DEF CommandRuns, CommandFails, Commanding, requestVars
  <2>3. Calm
    BY <2>1, <2>2, GotoCalm DEF Label, Actor
  <2>4. QED
    BY <2>3, CalmKeeps
<1>5. ASSUME NEW w \in Worker, Request(w)
      PROVE  Story'
  BY <1>1, <1>3, <1>4, <1>5, CreateKeeps, CommandEndsKeeps DEF Request
<1>6. QED
  BY <1>2, <1>5, JobKeeps, HandlerKeeps DEF Next

\* No two actors, be they requests, removals of what a thing is a part of, or
\* handlers one on top of the other, ever remove one thing, unless a command
\* has stored it again: for any number of them.
THEOREM RemovedByOne == Spec => []OneRemover
<1> DEFINE IInv == TypeInv /\ Story
<1>1. Init => IInv
  BY InitTypeInv, InitStory
<1>2. IInv /\ [Next]_vars => IInv'
  BY NextTypeInv, NextStory
<1>3. IInv => OneRemover
  <2> SUFFICES ASSUME TakenOnce, NEW x \in Thing \ restored
               PROVE  Cardinality({a \in Actor : Removing(a, x)}) <= 1
    BY DEF Story, OneRemover
  <2> DEFINE R == {a \in Actor : Removing(a, x)}
  <2>1. \A a, b \in R : a = b
    BY DEF TakenOnce
  <2>2. CASE R = {}
    BY <2>2, FS_EmptySet
  <2>3. CASE R # {}
    <3>1. PICK a \in R : TRUE
      BY <2>3
    <3>2. R = {a}
      BY <2>1, <3>1
    <3>3. Cardinality({a}) = 1
      BY FS_Singleton
    <3>4. QED
      BY <3>2, <3>3
  <2>4. QED
    BY <2>2, <2>3
<1>4. QED
  BY <1>1, <1>2, <1>3, PTL DEF Spec

-----------------------------------------------------------------------------
(***************************************************************************)
(* What a handler has in hand.                                             *)
(*                                                                         *)
(* The jobs of a handler and of its executors are a row: the labels of the *)
(* things.  It holds one cluster, which waits for the jobs of its parts,   *)
(* which wait for theirs, or one server.                                   *)
(***************************************************************************)
LevelLabel(x) ==
  CASE x \in Server  -> {"idle", "pop", "stop", "stop_main", "done", "raised"}
    [] x \in Cluster -> {"idle", "submit", "collect"}
    [] OTHER         -> {"idle", "pop", "parts", "done", "raised"}

\* x is removed as a part of something.
Inner(r, x) == r[x] \notin {"idle", "submit", "collect", "stop_main"}

\* o waits for x, or has waited and has passed its exception on.
Accounts(r, o, x) ==
  \/ r[o] \in {"submit", "collect", "parts"}
  \/ /\ {r[o], r[x]} \subseteq {"done", "raised"}
     /\ r[x] = "raised" => r[o] = "raised"

Tree(r) ==
  \A x \in Thing : Inner(r, x) =>
    \E o \in Thing : x \in Parts[o] /\ Accounts(r, o, x)

Row(r) ==
  /\ \A x \in Thing : r[x] \in LevelLabel(x)
  /\ Tree(r)
  /\ \A c, d \in Cluster : r[c] # "idle" /\ r[d] # "idle" => c = d

\* Servers, sets and clusters have the labels of their class.
LEMMA RowLabels ==
  ASSUME NEW r, Row(r), NEW x \in Thing
  PROVE  /\ r[x] \in {"submit", "collect"} => x \in Cluster
         /\ r[x] \in {"stop", "stop_main"} => x \in Server
         /\ r[x] = "parts" => x \in ReplicaSet
         /\ r[x] = "pop" => x \notin Cluster
         /\ Inner(r, x) => r[x] \in {"pop", "stop", "parts", "done", "raised"}
BY RegistriesAssumption DEF Row, LevelLabel, Thing, Inner

\* The one owner of a part accounts for it.
LEMMA RowOwner ==
  ASSUME NEW r, Tree(r), NEW o \in Thing, NEW x \in Parts[o], Inner(r, x)
  PROVE  Accounts(r, o, x)
<1>1. x \in Thing
  BY BelowParts
<1>2. PICK p \in Thing : x \in Parts[p] /\ Accounts(r, p, x)
  BY <1>1 DEF Tree
<1>3. p = o
  BY <1>2, RegistriesAssumption
<1>4. QED
  BY <1>2, <1>3

\* A part of a set is a server, which has no parts.
LEMMA SetParts ==
  ASSUME NEW x \in Thing \ Cluster, NEW p \in Parts[x]
  PROVE  x \in ReplicaSet /\ p \in Server /\ Parts[p] = {}
BY RegistriesAssumption DEF Thing

\* What has parts, and is a part, is a set, and a part of a cluster.
LEMMA OwnerOfSet ==
  ASSUME NEW o \in Thing, NEW x \in Parts[o], Parts[x] # {}
  PROVE  o \in Cluster /\ x \in ReplicaSet
<1>1. x \in Thing
  BY BelowParts
<1>2. o \in Cluster
  BY <1>1, SetParts
<1>3. x \notin Cluster /\ x \notin Server
  BY <1>1, <1>2, RegistriesAssumption
<1>4. QED
  BY <1>1, <1>2, <1>3 DEF Thing

\* While something below a cluster is at work, so is the cluster.
LEMMA RowUp ==
  ASSUME NEW r, Row(r), NEW c \in Cluster, NEW x \in Below(c), Inner(r, x)
  PROVE  /\ r[c] # "idle"
         /\ x \notin Parts[c] => \E y \in Parts[c] :
              x \in Parts[y] /\ Inner(r, y) /\ Accounts(r, y, x)
<1> USE DEF Row
<1>1. c \in Thing
  BY DEF Thing
<1>2. CASE x \in Parts[c]
  <2>1. Accounts(r, c, x)
    BY <1>1, <1>2, RowOwner
  <2>2. QED
    BY <1>2, <2>1 DEF Accounts
<1>3. ASSUME NEW y \in Parts[c], x \in Parts[y]
      PROVE  r[c] # "idle" /\ Inner(r, y) /\ Accounts(r, y, x)
  <2>1. y \in Thing
    BY <1>1, BelowParts
  <2>2. Accounts(r, y, x)
    BY <1>3, <2>1, RowOwner
  <2>3. y \in ReplicaSet
    BY <1>1, <1>3, OwnerOfSet
  <2>4. r[y] \notin {"submit", "collect", "stop_main"}
    BY <2>1, <2>3, RowLabels, KindsAssumption
  <2>5. Inner(r, y)
    BY <2>2, <2>4 DEF Inner, Accounts
  <2>6. Accounts(r, c, y)
    BY <1>1, <2>5, RowOwner
  <2>7. QED
    BY <2>2, <2>5, <2>6 DEF Accounts
<1>4. QED
  BY <1>1, <1>2, <1>3 DEF Below

\* All that is removed as a part is below a cluster.
LEMMA RowTop ==
  ASSUME NEW r, Row(r), NEW x \in Thing, Inner(r, x)
  PROVE  \E c \in Cluster : x \in Below(c)
<1> USE DEF Row
<1>1. PICK o \in Thing : x \in Parts[o] /\ Accounts(r, o, x)
  BY DEF Tree
<1>2. CASE o \in Cluster
  BY <1>1, <1>2, BelowParts
<1>3. CASE o \notin Cluster
  <2>1. o \in ReplicaSet
    BY <1>1, <1>3, SetParts
  <2>2. Inner(r, o)
    BY <1>1, <1>3, <2>1, RowLabels, RegistriesAssumption DEF Inner, Accounts
  <2>3. PICK c \in Thing : o \in Parts[c] /\ Accounts(r, c, o)
    BY <2>2 DEF Tree
  <2>4. c \in Cluster
    BY <1>1, <2>3, OwnerOfSet
  <2>5. x \in Below(c)
    BY <1>1, <2>3 DEF Below
  <2>6. QED
    BY <2>4, <2>5
<1>4. QED
  BY <1>2, <1>3

\* Without a cluster in hand there are no jobs of parts.
LEMMA RowIdle ==
  ASSUME NEW r, Row(r), \A c \in Cluster : r[c] = "idle",
         NEW x \in Thing
  PROVE  r[x] \in {"idle", "stop_main"}
<1>1. ~Inner(r, x)
  <2> SUFFICES ASSUME Inner(r, x)
               PROVE  FALSE
    OBVIOUS
  <2>1. PICK c \in Cluster : x \in Below(c)
    BY RowTop
  <2>2. QED
    BY <2>1, RowUp
<1>2. r[x] \notin {"submit", "collect"}
  BY RowLabels
<1>3. QED
  BY <1>1, <1>2 DEF Inner

\* When the results of a cluster's parts are there, its executors have nothing
\* left, and who raised has told the cluster.
LEMMA RowCollect ==
  ASSUME NEW r, Row(r), NEW c \in Cluster, r[c] # "idle",
         \A p \in Parts[c] : r[p] \in {"done", "raised"},
         NEW x \in Thing
  PROVE  /\ r[x] \notin {"pop", "stop", "parts"}
         /\ r[x] = "raised" => \E p \in Parts[c] : r[p] = "raised"
<1> SUFFICES ASSUME Inner(r, x)
             PROVE  /\ r[x] \notin {"pop", "stop", "parts"}
                    /\ r[x] = "raised" => \E p \in Parts[c] : r[p] = "raised"
  BY DEF Inner
<1>1. PICK d \in Cluster : x \in Below(d)
  BY RowTop
<1>2. d = c
  BY <1>1, RowUp DEF Row
<1>3. CASE x \in Parts[c]
  BY <1>3
<1>4. CASE x \notin Parts[c]
  <2>1. PICK y \in Parts[c] : x \in Parts[y] /\ Inner(r, y) /\ Accounts(r, y, x)
    BY <1>1, <1>2, <1>4, RowUp
  <2>2. QED
    BY <2>1 DEF Accounts
<1>5. QED
  BY <1>3, <1>4

\* What is about to be popped is a part, and its own parts are not begun.
LEMMA RowPop ==
  ASSUME NEW r, Row(r), NEW x \in Thing, r[x] = "pop"
  PROVE  /\ x \notin Roots /\ x \notin Cluster
         /\ \A p \in Parts[x] : ~Inner(r, p)
<1>1. Inner(r, x)
  BY DEF Inner
<1>2. x \notin Roots
  BY <1>1 DEF Row, Tree, Roots
<1>3. x \notin Cluster
  BY RowLabels
<1>4. \A p \in Parts[x] : ~Inner(r, p)
  <2> SUFFICES ASSUME NEW p \in Parts[x], Inner(r, p)
               PROVE  FALSE
    OBVIOUS
  <2>1. Accounts(r, x, p)
    BY RowOwner DEF Row
  <2>2. QED
    BY <2>1 DEF Accounts
<1>5. QED
  BY <1>2, <1>3, <1>4

LEMMA RowOfIdle == Row(Idle)
BY RegistriesAssumption DEF Row, Idle, LevelLabel, Tree, Inner, Thing

\* One job of a row goes on.
LEMMA RowGoto ==
  ASSUME NEW r \in [Thing -> Label], Row(r), NEW x \in Thing,
         NEW l \in LevelLabel(x), NEW q, q = [r EXCEPT ![x] = l],
         x \in Cluster => \A d \in Cluster \ {x} : r[d] = "idle",
         Inner(q, x) => \E o \in Thing : x \in Parts[o] /\ Accounts(q, o, x),
         \A p \in Parts[x] : Inner(r, p) => Accounts(q, x, p)
  PROVE  Row(q)
<1>1. /\ q[x] = l
      /\ \A z \in Thing : z # x => q[z] = r[z]
  OBVIOUS
<1>2. \A z \in Thing : q[z] \in LevelLabel(z)
  BY <1>1 DEF Row
<1>3. Tree(q)
  <2> SUFFICES ASSUME NEW z \in Thing, Inner(q, z)
               PROVE  \E o \in Thing : z \in Parts[o] /\ Accounts(q, o, z)
    BY DEF Tree
  <2>1. CASE z = x
    BY <2>1
  <2>2. CASE z # x
    <3>1. Inner(r, z)
      BY <1>1, <2>2 DEF Inner
    <3>2. PICK o \in Thing : z \in Parts[o] /\ Accounts(r, o, z)
      BY <3>1 DEF Row, Tree
    <3>3. CASE o = x
      BY <3>1, <3>2, <3>3
    <3>4. CASE o # x
      BY <1>1, <2>2, <3>2, <3>4 DEF Accounts
    <3>5. QED
      BY <3>3, <3>4
  <2>3. QED
    BY <2>1, <2>2
<1>4. \A c, d \in Cluster : q[c] # "idle" /\ q[d] # "idle" => c = d
  <2>1. Cluster \subseteq Thing
    BY DEF Thing
  <2>2. QED
    BY <1>1, <2>1 DEF Row
<1>5. QED
  BY <1>2, <1>3, <1>4 DEF Row

\* A removal ends when the removals it waits for have ended.
LEMMA RowEnds ==
  ASSUME NEW r \in [Thing -> Label], Row(r), NEW x \in Thing,
         NEW l \in {"done", "raised"}, NEW q, q = [r EXCEPT ![x] = l],
         r[x] \in {"pop", "stop", "parts"},
         \A p \in Parts[x] : Inner(r, p) =>
           r[p] \in {"done", "raised"} /\ (r[p] = "raised" => l = "raised")
  PROVE  Row(q)
<1>1. x \notin Cluster /\ Inner(r, x)
  <2>1. x \notin Cluster
    BY RegistriesAssumption DEF Row, LevelLabel
  <2>2. QED
    BY <2>1 DEF Inner
<1>2. l \in LevelLabel(x)
  BY <1>1, RegistriesAssumption DEF LevelLabel
<1>3. PICK o \in Thing : x \in Parts[o] /\ Accounts(r, o, x)
  BY <1>1 DEF Row, Tree
<1>4. o # x
  BY <1>3, BelowParts, BelowTypes
<1>5. Accounts(q, o, x)
  BY <1>3, <1>4 DEF Accounts
<1>6. \A p \in Parts[x] : p \in Thing /\ p # x
  BY BelowParts, BelowTypes
<1>7. \A p \in Parts[x] : Inner(r, p) => Accounts(q, x, p)
  BY <1>6 DEF Accounts
<1>8. QED
  BY <1>1, <1>2, <1>3, <1>5, <1>7, RowGoto

\* A removal that has found x waits for the removals of its parts.
LEMMA RowPopped ==
  ASSUME NEW r \in [Thing -> Label], Row(r), NEW x \in Thing, r[x] = "pop",
         NEW q, q = [z \in Thing |->
               CASE z = x -> IF x \in Server THEN "stop" ELSE "parts"
                 [] z \in Parts[x] -> "pop"
                 [] OTHER -> r[z]]
  PROVE  Row(q)
<1>1. x \notin Cluster /\ Inner(r, x)
  <2>1. x \notin Cluster
    BY RegistriesAssumption DEF Row, LevelLabel
  <2>2. QED
    BY <2>1 DEF Inner
<1>2. \A p \in Parts[x] : /\ x \notin Server /\ p \in Server
                          /\ Parts[p] = {} /\ p # x
  BY <1>1, SetParts, RegistriesAssumption
<1>3. /\ q[x] = IF x \in Server THEN "stop" ELSE "parts"
      /\ \A p \in Parts[x] : q[p] = "pop"
      /\ \A z \in Thing : z # x /\ z \notin Parts[x] => q[z] = r[z]
  BY <1>2, BelowParts
<1>4. \A z \in Thing : q[z] \in LevelLabel(z)
  BY <1>1, <1>2, <1>3, KindsAssumption DEF Row, LevelLabel
<1>5. PICK o \in Thing : x \in Parts[o] /\ Accounts(r, o, x)
  BY <1>1 DEF Row, Tree
<1>6. o # x /\ o \notin Parts[x]
  BY <1>2, <1>5, BelowParts, BelowTypes
<1>7. r[o] \in {"submit", "collect", "parts"}
  BY <1>5 DEF Accounts
<1>8. Tree(q)
  <2> SUFFICES ASSUME NEW z \in Thing, Inner(q, z)
               PROVE  \E u \in Thing : z \in Parts[u] /\ Accounts(q, u, z)
    BY DEF Tree
  <2>1. CASE z = x
    BY <1>3, <1>5, <1>6, <1>7, <2>1 DEF Accounts
  <2>2. CASE z \in Parts[x]
    BY <1>2, <1>3, <2>2 DEF Accounts
  <2>3. CASE z # x /\ z \notin Parts[x]
    <3>1. Inner(r, z) /\ q[z] = r[z]
      BY <1>3, <2>3 DEF Inner
    <3>2. PICK u \in Thing : z \in Parts[u] /\ Accounts(r, u, z)
      BY <3>1 DEF Row, Tree
    <3>3. u # x /\ u \notin Parts[x]
      BY <1>2, <2>3, <3>2
    <3>4. QED
      BY <1>3, <3>1, <3>2, <3>3 DEF Accounts
  <2>4. QED
    BY <2>1, <2>2, <2>3
<1>9. \A c \in Cluster : q[c] = r[c]
  BY <1>1, <1>2, <1>3, KindsAssumption DEF Thing
<1>10. QED
  BY <1>4, <1>8, <1>9 DEF Row

Rows == \A k \in Level : Row(job[k])

\* How far the innermost handler is; there are no others above.
Phase ==
  /\ \A k \in Level, x \in Thing : k > Depth => job[k][x] = "idle"
  /\ On("clusters") =>
       /\ Top.todo \subseteq {Id[c] : c \in Cluster}
       /\ \A x \in Thing :
            /\ job[Depth][x] # "stop_main"
            /\ x \in Cluster /\ job[Depth][x] # "idle" => Id[x] \in Top.todo
  /\ On("sets") \/ On("servers") =>
       /\ Top.todo \subseteq {Id[s] : s \in Server}
       /\ \A x \in Thing : job[Depth][x] # "idle" =>
            job[Depth][x] = "stop_main" /\ Id[x] \in Top.todo
       /\ \A x, y \in Thing :
            job[Depth][x] # "idle" /\ job[Depth][y] # "idle" => x = y

\* What a handler is about to take, it has not taken yet: in its executors, ...
AheadParts ==
  \A k \in Level, y \in Thing : job[k][y] = "pop" =>
    \A x \in {y} \cup Parts[y] : popper[Id[x]] # k

\* ... among the clusters, ...
AheadClusters ==
  On("clusters") =>
    /\ \A i \in Top.todo : popper[i] = Depth =>
         \E c \in Cluster : Id[c] = i /\ job[Depth][c] # "idle"
    /\ \A c \in Cluster : Id[c] \in Top.todo =>
         /\ job[Depth][c] = "idle" =>
              \A x \in Below(c) : popper[Id[x]] # Depth
         /\ job[Depth][c] = "submit" =>
              \A p \in Parts[c] : job[Depth][p] = "idle" =>
                \A x \in {p} \cup Parts[p] : popper[Id[x]] # Depth

\* ... and among the servers, unless a command has stored one again.
AheadServers ==
  On("sets") \/ On("servers") => \A i \in Top.todo :
    /\ popper[i] = Depth
    /\ \A s \in Server : Id[s] = i => job[Depth][s] = "idle"
    => registry[i] # Nothing

\* What a handler missed it has not taken, and it does not try again.
Missing ==
  missed.level > 0 =>
    /\ missed.id \in Ids
    /\ popper[missed.id] # missed.level
    /\ missed.level <= Depth =>
         \/ \E x \in Thing :
              Id[x] = missed.id /\ job[missed.level][x] = "raised"
         \/ leaving # "no" /\ \A x \in Thing : job[missed.level][x] = "idle"

InHand ==
  Rows /\ Phase /\ AheadParts /\ AheadClusters /\ AheadServers /\ Missing

LEMMA InitInHand == Init => InHand
<1> SUFFICES ASSUME Init
             PROVE  InHand
  OBVIOUS
<1>1. \A k \in Level : job[k] = Idle
  BY DEF Init, Actor
<1>2. \A k \in Level, x \in Thing : job[k][x] = "idle"
  BY <1>1 DEF Idle
<1>3. stack = <<>> /\ missed.level = 0
  BY DEF Init, NoMiss
<1>4. QED
  BY <1>1, <1>2, <1>3, RowOfIdle
     DEF InHand, Rows, Phase, AheadParts, AheadClusters, AheadServers, Missing,
         On

LEMMA Types ==
  ASSUME TypeInv
  PROVE  /\ \A a \in Actor : job[a] \in [Thing -> Label]
         /\ Level \subseteq Actor /\ Level \subseteq Nat \ {0}
         /\ Level \cap Worker = {} /\ Nothing \notin Level
         /\ missed.level \in Nat /\ missed.level \in 0..MaxSignals
         /\ Depth \in Nat
BY RegistriesAssumption, KindsAssumption
   DEF TypeInv, TypeOK, Missed, Actor, Level, Depth

\* A thing that is no root has its id for itself.
LEMMA OwnId ==
  ASSUME NEW x \in Thing \ Roots, NEW y \in Thing, Id[x] = Id[y]
  PROVE  x = y
BY RegistriesAssumption

LEMMA BelowOwn ==
  ASSUME NEW c \in Thing, NEW x \in Below(c)
  PROVE  x \in Thing \ Roots /\ Id[x] \in Ids
BY BelowTypes, RootsAbove DEF Ids

LEMMA IdTyped ==
  ASSUME NEW x \in Thing
  PROVE  /\ Id[x] \in Ids
         /\ \A p \in Parts[x] : p \in Thing \ Roots /\ Id[p] \in Ids
BY BelowParts, RootsAbove DEF Ids

\* What the innermost handler does next is one thing.
LEMMA OnOne ==
  /\ On("clusters") => ~On("sets") /\ ~On("servers")
  /\ On("sets") => ~On("servers")
BY DEF On

-----------------------------------------------------------------------------
\* A worker may take what a handler looks for, and does no more to it.
Aside ==
  /\ \A k \in Level : job'[k] = job[k]
  /\ UNCHANGED <<stack, leaving>>
  /\ missed' = missed
  /\ \A i \in Ids :
       /\ popper'[i] \in {popper[i], Nothing}
       /\ registry[i] # Nothing => registry'[i] # Nothing \/ popper'[i] = Nothing

LEMMA AsideKeeps ==
  ASSUME TypeInv, InHand, Aside
  PROVE  InHand'
<1> USE DEF Aside
<1>1. /\ Depth' = Depth /\ Top' = Top
      /\ \A pc \in {"clusters", "sets", "servers"} : On(pc)' = On(pc)
  BY DEF Depth, Top, On
<1>2. On("clusters")' = On("clusters") /\ On("sets")' = On("sets")
        /\ On("servers")' = On("servers")
  BY <1>1
<1>3. stack # <<>> => Depth \in Level /\ Top.todo \subseteq Ids
  BY DepthIsLevel DEF TypeInv, Frame
<1>4. \A i \in Ids, k \in Level : popper'[i] = k => popper[i] = k
  BY Types
<1>5. Rows'
  BY DEF InHand, Rows
<1>6. Phase'
  BY <1>1, <1>2, <1>3 DEF InHand, Phase, On
<1>7. AheadParts'
  BY <1>4, IdTyped DEF InHand, AheadParts
<1>8. AheadClusters'
  <2> SUFFICES ASSUME On("clusters")
               PROVE  AheadClusters'
    BY <1>2 DEF AheadClusters
  <2>1. Depth \in Level
    BY <1>3 DEF On
  <2>2. \A i \in Top.todo : popper'[i] = Depth => popper[i] = Depth
    BY <1>3, <1>4, <2>1 DEF On
  <2>3. \A c \in Cluster : \A x \in Below(c) :
          popper[Id[x]] # Depth => popper'[Id[x]] # Depth
    BY <1>4, <2>1, BelowOwn DEF Thing
  <2>4. \A c \in Cluster : \A p \in Parts[c] : \A x \in {p} \cup Parts[p] :
          x \in Below(c)
    BY DEF Below
  <2>5. QED
    BY <1>1, <1>2, <2>1, <2>2, <2>3, <2>4 DEF InHand, AheadClusters
<1>9. AheadServers'
  <2> SUFFICES ASSUME On("sets") \/ On("servers"), NEW i \in Top.todo,
                      popper'[i] = Depth,
                      \A s \in Server : Id[s] = i => job'[Depth][s] = "idle"
               PROVE  registry'[i] # Nothing
    BY <1>1, <1>2, <1>3 DEF AheadServers, On
  <2>1. i \in Ids /\ Depth \in Level
    BY <1>3 DEF On
  <2>2. registry[i] # Nothing
    BY <1>4, <2>1 DEF InHand, AheadServers
  <2>3. QED
    BY <2>1, <2>2, Types
<1>10. Missing'
  <2> SUFFICES ASSUME missed.level > 0
               PROVE  Missing'
    BY DEF Missing
  <2>1. missed.level \in Level
    BY Types DEF Level
  <2>2. QED
    BY <1>1, <1>4, <2>1 DEF InHand, Missing
<1>11. QED
  BY <1>5, <1>6, <1>7, <1>8, <1>9, <1>10 DEF InHand

LEMMA WorkerAside ==
  ASSUME TypeInv, NEW w \in Worker,
         Request(w) \/ \E x \in Thing : Job(w, x)
  PROVE  Aside
<1>1. w \in Actor /\ w \notin Level
  BY Types DEF Actor
<1>2. \A k \in Level : job'[k] = job[k]
  <2>1. \A x, l : Goto(w, x, l) \/ Begin(w, x, l) =>
          \A k \in Level : job'[k] = job[k]
    BY <1>1 DEF Goto, Begin, TypeInv, TypeOK, Actor
  <2>2. \A x, l, m : Submit(w, x, l, m) => \A k \in Level : job'[k] = job[k]
    BY <1>1 DEF Submit, TypeInv, TypeOK, Actor
  <2>3. CASE Request(w)
    BY <2>1, <2>3
       DEF Request, Create, Command, CommandPart, CommandRuns, CommandEnds,
           CommandFails, Remove
  <2>4. ASSUME NEW x \in Thing, Job(w, x), ~Pop(w, x)
        PROVE  \A k \in Level : job'[k] = job[k]
    BY <2>1, <2>2, <2>4
       DEF Job, Make, MakeFails, Made, Store, Stop, PartsGone
  <2>5. ASSUME NEW x \in Thing, Pop(w, x)
        PROVE  \A k \in Level : job'[k] = job[k]
    <3>1. CASE registry[Id[x]] = Nothing
      BY <2>1, <2>5, <3>1 DEF Pop
    <3>2. CASE registry[Id[x]] # Nothing
      BY <1>1, <2>5, <3>2 DEF Pop, TypeInv, TypeOK, Actor
    <3>3. QED
      BY <3>1, <3>2
  <2>6. QED
    BY <2>3, <2>4, <2>5
<1>3. UNCHANGED <<stack, leaving>>
  BY DEF mainVars, Request, Create, Command, CommandPart, CommandRuns,
         CommandEnds, CommandFails, Remove, Job, Make, MakeFails, Made, Store,
         Pop, Stop, PartsGone
<1>4. missed' = missed
  BY <1>1, Types
     DEF Request, Create, Command, CommandPart, CommandRuns, CommandEnds,
         CommandFails, Remove, Job, Make, MakeFails, Made, Store, Pop, Stop,
         PartsGone, history
<1>5. ASSUME NEW i \in Ids, registry[i] # Nothing
      PROVE  registry'[i] # Nothing \/ popper'[i] = Nothing
  <2>1. CASE registry' = registry
    BY <1>5, <2>1
  <2>2. ASSUME NEW x \in Thing, registry' = [registry EXCEPT ![Id[x]] = x]
        PROVE  registry'[i] # Nothing
    BY <1>5, <2>2, RegistriesAssumption DEF TypeInv, TypeOK
  <2>3. ASSUME NEW x \in Thing, Pop(w, x), registry[Id[x]] # Nothing
        PROVE  registry'[i] # Nothing \/ popper'[i] = Nothing
    <3>1. PICK y \in Thing : Take(w, y)
      BY <2>3 DEF Pop, TypeInv, TypeOK, Ids
    <3>2. CASE i = Id[y]
      BY <1>1, <3>1, <3>2 DEF Take, TypeInv, TypeOK
    <3>3. CASE i # Id[y]
      BY <1>5, <3>1, <3>3 DEF Take, TypeInv, TypeOK
    <3>4. QED
      BY <3>2, <3>3
  <2>4. ASSUME NEW x \in Thing, Job(w, x)
        PROVE  registry'[i] # Nothing \/ popper'[i] = Nothing
    <3>1. CASE Pop(w, x)
      BY <2>1, <2>3, <3>1 DEF Pop
    <3>2. CASE ~Pop(w, x)
      BY <2>1, <2>2, <2>4, <3>2
         DEF Job, Make, MakeFails, Made, Store, Put, Stop, PartsGone
    <3>3. QED
      BY <3>1, <3>2
  <2>5. CASE Request(w)
    BY <2>1, <2>2, <2>5
       DEF Request, Create, Command, CommandPart, CommandRuns, CommandEnds, Put,
           CommandFails, Remove
  <2>6. QED
    BY <2>4, <2>5
<1>6. ASSUME NEW i \in Ids
      PROVE  popper'[i] \in {popper[i], Nothing}
  <2>1. ASSUME NEW x \in Thing, Pop(w, x)
        PROVE  popper'[i] \in {popper[i], Nothing}
    BY <1>1, <2>1 DEF Pop, Take, TypeInv, TypeOK
  <2>2. CASE popper' = popper
    BY <2>2
  <2>3. QED
    BY <2>1, <2>2
       DEF Request, Create, Command, CommandPart, CommandRuns, CommandEnds,
           CommandFails, Remove, Job, Make, MakeFails, Made, Store, Stop,
           PartsGone, history
<1>7. QED
  BY <1>2, <1>3, <1>4, <1>5, <1>6 DEF Aside

-----------------------------------------------------------------------------
\* An executor of a handler finds nothing where it looks, ...
LevelMiss(k, x) ==
  /\ job[k][x] = "pop"
  /\ Goto(k, x, "raised")
  /\ missed' = [level |-> k, id |-> Id[x]]
  /\ UNCHANGED <<registry, popper, running>>

\* ... takes what it finds, ...
Popped(r, x) ==
  [z \in Thing |-> CASE z = x -> IF x \in Server THEN "stop" ELSE "parts"
                     [] z \in Parts[x] -> "pop"
                     [] OTHER -> r[z]]

LevelTake(k, x) ==
  /\ job[k][x] = "pop"
  /\ Take(k, x)
  /\ job' = [job EXCEPT ![k] = Popped(job[k], x)]
  /\ UNCHANGED <<missed, running>>

\* ... and comes to an end with it.
LevelEnd(k, x, label) ==
  /\ job[k][x] \in {"stop", "parts"}
  /\ Goto(k, x, label)
  /\ \A p \in Parts[x] : Inner(job[k], p) =>
       /\ job[k][p] \in {"done", "raised"}
       /\ job[k][p] = "raised" => label = "raised"
  /\ running' = IF job[k][x] = "stop" THEN running \ {x} ELSE running
  /\ UNCHANGED <<registry, popper, missed>>

LevelStep(k, x) ==
  /\ UNCHANGED <<mainVars, touched, lost>>
  /\ \/ LevelMiss(k, x)
     \/ LevelTake(k, x)
     \/ \E label \in {"done", "raised"} : LevelEnd(k, x, label)

LEMMA LevelJob ==
  ASSUME TypeInv, Rows, NEW k \in Level, NEW x \in Thing, Job(k, x)
  PROVE  LevelStep(k, x)
<1>1. k \in Actor /\ k \notin Worker
  BY Types
<1>2. Row(job[k])
  BY DEF Rows
<1>3. job[k][x] \notin {"make", "making", "store"}
  BY <1>2 DEF Row, LevelLabel
<1>4. Touch(k, x) => touched' = touched
  BY <1>1 DEF Touch
<1>5. ASSUME Pop(k, x)
      PROVE  LevelStep(k, x)
  <2>1. CASE registry[Id[x]] = Nothing
    BY <1>4, <1>5, <2>1 DEF Pop, LevelStep, LevelMiss
  <2>2. CASE registry[Id[x]] # Nothing
    <3>1. x \in Thing \ Roots
      BY <1>2, <1>5, RowPop DEF Pop
    <3>2. registry[Id[x]] = x
      BY <2>2, <3>1, OwnId DEF TypeInv, TypeOK, Ids
    <3>3. job' = [job EXCEPT ![k] = Popped(job[k], x)]
      <4> DEFINE jobs  == [job[k] EXCEPT ![x] = "idle"]
                 after == IF x \in Server THEN StopNext(jobs, x)
                          ELSE CleanupNext(jobs, x)
      <4>1. job' = [job EXCEPT ![k] = after]
        BY <1>5, <2>2, <3>2 DEF Pop
      <4>2. job[k] \in [Thing -> Label] /\ x \notin Parts[x]
        BY <1>1, Types, BelowParts, BelowTypes
      <4>3. x \in Server => Parts[x] = {}
        BY RegistriesAssumption
      <4>4. after = Popped(job[k], x)
        BY <4>2, <4>3 DEF StopNext, CleanupNext, Popped
      <4>5. QED
        BY <4>1, <4>4
    <3>4. QED
      BY <1>4, <1>5, <2>2, <3>2, <3>3 DEF Pop, LevelStep, LevelTake
  <2>3. QED
    BY <2>1, <2>2
<1>6. ASSUME Stop(k, x)
      PROVE  LevelStep(k, x)
  <2>1. x \in Server
    BY <1>2, <1>6, RowLabels DEF Stop
  <2>2. Parts[x] = {}
    BY <2>1, RegistriesAssumption
  <2>3. LevelEnd(k, x, "done")
    BY <1>6, <2>2 DEF Stop, LevelEnd
  <2>4. QED
    BY <1>4, <1>6, <2>3 DEF Stop, LevelStep
<1>7. ASSUME PartsGone(k, x)
      PROVE  LevelStep(k, x)
  <2>1. PICK label \in {"done", "raised"} :
          Goto(k, x, label) /\ (PartsRaised(k, x) => label = "raised")
    BY <1>7 DEF PartsGone
  <2>2. LevelEnd(k, x, label)
    BY <1>7, <2>1 DEF PartsGone, LevelEnd, PartsEnded, PartsRaised, Ended,
                      history
  <2>3. QED
    BY <1>7, <2>1, <2>2 DEF PartsGone, LevelStep, history
<1>8. QED
  BY <1>3, <1>5, <1>6, <1>7 DEF Job, Make, MakeFails, Made, Store

\* The rows of an executor's step.
LEMMA LevelRows ==
  ASSUME TypeInv, Rows, NEW k \in Level, NEW x \in Thing, LevelStep(k, x)
  PROVE  /\ Rows'
         /\ \A j \in Level : j # k => job'[j] = job[j]
         /\ x \notin Roots /\ x \notin Cluster
         /\ \A z \in Thing :
              z # x /\ z \notin Parts[x] => job'[k][z] = job[k][z]
         /\ \A c \in Cluster : job'[k][c] = job[k][c]
         /\ \A z \in Thing : job'[k][z] = "pop" => job[k][z] = "pop"
              \/ (z \in Parts[x] /\ LevelTake(k, x))
         /\ \A z \in Thing : job'[k][z] # "stop_main"
              \/ job[k][z] = "stop_main"
         /\ \A z \in Thing : job[k][z] = "raised" => job'[k][z] = "raised"
         /\ Inner(job[k], x)
         /\ \A z \in Thing : job'[k][z] = "idle" => job[k][z] = "idle"
<1> DEFINE r == job[k]
           q == job'[k]
<1>1. /\ r \in [Thing -> Label] /\ Row(r) /\ k \in Actor
      /\ job \in [Actor -> [Thing -> Label]]
  BY Types DEF Rows, TypeInv, TypeOK
<1>2. /\ r[x] \in {"pop", "stop", "parts"}
      /\ Inner(r, x)
  BY DEF LevelStep, LevelMiss, LevelTake, LevelEnd, Inner
<1>3. x \notin Cluster /\ x \notin Roots
  <2>1. x \notin Cluster
    BY <1>1, <1>2, RegistriesAssumption DEF Row, LevelLabel
  <2>2. x \notin Roots
    BY <1>1, <1>2 DEF Row, Tree, Roots
  <2>3. QED
    BY <2>1, <2>2
<1>4. \A p \in Parts[x] : /\ p \in Server /\ p \notin Cluster
                          /\ p # x /\ p \in Thing
  BY <1>3, SetParts, BelowParts, BelowTypes, KindsAssumption
<1>5. r[x] = "pop" => \A p \in Parts[x] : ~Inner(r, p)
  BY <1>1, RowPop
<1>6. CASE LevelTake(k, x)
  <2>1. q = Popped(r, x) /\ \A j \in Level : j # k => job'[j] = job[j]
    BY <1>1, <1>6, Types DEF LevelTake
  <2>2. Row(q)
    BY <1>1, <1>6, <2>1, RowPopped DEF LevelTake, Popped
  <2>3. /\ q[x] \in {"stop", "parts"}
        /\ \A p \in Parts[x] : q[p] = "pop"
        /\ \A z \in Thing : z # x /\ z \notin Parts[x] => q[z] = r[z]
    BY <1>4, <2>1 DEF Popped
  <2>4. \A p \in Parts[x] : r[p] # "raised"
    BY <1>5, <1>6 DEF LevelTake, Inner
  <2>5. \A c \in Cluster : q[c] = r[c]
    BY <1>3, <1>4, <2>3 DEF Thing
  <2>6. QED
    BY <1>2, <1>3, <1>6, <2>1, <2>2, <2>3, <2>4, <2>5 DEF Rows
<1>7. ASSUME NEW label \in {"done", "raised"},
             (LevelMiss(k, x) /\ label = "raised") \/ LevelEnd(k, x, label)
      PROVE  Rows' /\ (\A j \in Level : j # k => job'[j] = job[j])
               /\ q = [r EXCEPT ![x] = label]
  <2>1. Goto(k, x, label)
    BY <1>7 DEF LevelMiss, LevelEnd
  <2>2. /\ q = [r EXCEPT ![x] = label]
        /\ \A j \in Level : j # k => job'[j] = job[j]
    BY <1>1, <2>1, Types DEF Goto
  <2>3. \A p \in Parts[x] : Inner(r, p) =>
          r[p] \in {"done", "raised"} /\ (r[p] = "raised" => label = "raised")
    BY <1>5, <1>7 DEF LevelMiss, LevelEnd
  <2>4. Row(q)
    BY <1>1, <1>2, <2>2, <2>3, RowEnds
  <2>5. QED
    BY <2>2, <2>4 DEF Rows
<1>8. ASSUME NEW label \in {"done", "raised"},
             (LevelMiss(k, x) /\ label = "raised") \/ LevelEnd(k, x, label)
      PROVE  /\ \A z \in Thing : z # x => q[z] = r[z]
             /\ q[x] = label
             /\ \A c \in Cluster : q[c] = r[c]
  BY <1>1, <1>3, <1>7, <1>8 DEF Thing
<1>9. CASE ~LevelTake(k, x)
  <2>1. PICK label \in {"done", "raised"} :
             (LevelMiss(k, x) /\ label = "raised") \/ LevelEnd(k, x, label)
    BY <1>9 DEF LevelStep
  <2>2. QED
    BY <1>2, <1>3, <1>7, <1>8, <2>1
<1>10. QED
  BY <1>6, <1>9

\* An executor takes what was ahead of it, and misses what it has not taken.
LEMMA LevelKeeps ==
  ASSUME TypeInv, InHand, NEW k \in Level, NEW x \in Thing, LevelStep(k, x)
  PROVE  InHand'
<1> DEFINE r == job[k]
           q == job'[k]
<1>1. /\ Rows' /\ Rows /\ Row(r)
      /\ \A j \in Level : j # k => job'[j] = job[j]
      /\ x \notin Cluster
      /\ \A z \in Thing : z # x /\ z \notin Parts[x] => q[z] = r[z]
      /\ \A c \in Cluster : q[c] = r[c]
  BY LevelRows DEF InHand, Rows
<1>2. /\ \A z \in Thing : q[z] = "pop" => r[z] = "pop"
              \/ (z \in Parts[x] /\ LevelTake(k, x))
      /\ \A z \in Thing : q[z] # "stop_main" \/ r[z] = "stop_main"
      /\ \A z \in Thing : r[z] = "raised" => q[z] = "raised"
      /\ Inner(r, x)
      /\ \A z \in Thing : q[z] = "idle" => r[z] = "idle"
  BY LevelRows DEF InHand
<1>3. /\ stack' = stack /\ leaving' = leaving
      /\ Depth' = Depth /\ Top' = Top
      /\ On("clusters")' = On("clusters") /\ On("sets")' = On("sets")
      /\ On("servers")' = On("servers")
  BY DEF LevelStep, mainVars, Depth, Top, On
<1>4. stack # <<>> => Depth \in Level /\ Top.todo \subseteq Ids
  BY DepthIsLevel DEF TypeInv, Frame
<1>5. k <= Depth /\ ~(k = Depth /\ (On("sets") \/ On("servers")))
  BY <1>2, Types DEF InHand, Phase, Inner, Level
<1>6. Phase'
  <2>1. \A j \in Level, z \in Thing : j > Depth => job'[j][z] = "idle"
    <3> SUFFICES ASSUME NEW j \in Level, NEW z \in Thing, j > Depth
                 PROVE  job'[j][z] = "idle"
      OBVIOUS
    <3>1. j # k
      BY <1>5, Types
    <3>2. QED
      BY <1>1, <3>1 DEF InHand, Phase
  <2>2. On("clusters") => \A z \in Thing :
            /\ job'[Depth][z] # "stop_main"
            /\ z \in Cluster /\ job'[Depth][z] # "idle" => Id[z] \in Top.todo
    BY <1>1, <1>2, <1>4 DEF InHand, Phase, On
  <2>3. On("sets") \/ On("servers") => job'[Depth] = job[Depth]
    BY <1>1, <1>4, <1>5 DEF On
  <2>4. QED
    BY <1>3, <2>1, <2>2, <2>3 DEF InHand, Phase
<1>7. \A i \in Ids, j \in Level : popper'[i] = j =>
        popper[i] = j \/ (j = k /\ i = Id[x] /\ LevelTake(k, x))
  BY DEF LevelStep, LevelMiss, LevelTake, LevelEnd, Take, TypeInv, TypeOK
<1>8. AheadParts'
  <2> SUFFICES ASSUME NEW j \in Level, NEW y \in Thing, job'[j][y] = "pop",
                      NEW z \in {y} \cup Parts[y], popper'[Id[z]] = j
               PROVE  FALSE
    BY DEF AheadParts
  <2>1. z \in Thing /\ Id[z] \in Ids /\ (Id[z] = Id[x] => z = x)
    <3>1. x \notin Roots
      BY LevelRows DEF InHand
    <3>2. QED
      BY <3>1, IdTyped, OwnId
  <2>2. CASE job[j][y] = "pop"
    <3>1. j = k /\ z = x /\ LevelTake(k, x)
      BY <1>7, <2>1, <2>2 DEF InHand, AheadParts
    <3>2. y # x
      <4>1. k \in Actor /\ job \in [Actor -> [Thing -> Label]]
        BY Types DEF TypeInv, TypeOK
      <4>2. q = Popped(r, x)
        BY <3>1, <4>1 DEF LevelTake
      <4>3. q[x] \in {"stop", "parts"}
        BY <4>2, BelowParts, BelowTypes DEF Popped
      <4>4. QED
        BY <2>2, <3>1, <4>3
    <3>3. x \in Parts[y]
      BY <3>1, <3>2
    <3>4. QED
      BY <1>1, <1>2, <2>2, <3>1, <3>3, RowPop
  <2>3. CASE job[j][y] # "pop"
    <3>1. j = k /\ y \in Parts[x] /\ LevelTake(k, x)
      BY <1>1, <1>2, <2>3
    <3>2. Parts[y] = {} /\ y # x
      BY <1>1, <3>1, SetParts, BelowTypes, BelowParts
    <3>3. popper[Id[y]] = k
      BY <1>7, <2>1, <3>1, <3>2
    <3>4. QED
      BY <3>1, <3>3 DEF InHand, AheadParts, LevelTake
  <2>4. QED
    BY <2>2, <2>3
<1>9. ASSUME On("clusters"), NEW c \in Cluster, NEW z \in Below(c),
             popper'[Id[z]] = Depth, popper[Id[z]] # Depth
      PROVE  r = job[Depth] /\ z = x /\ r[c] # "idle"
  <2>1. c \in Thing /\ z \in Thing \ Roots /\ Id[z] \in Ids
    BY BelowOwn DEF Thing
  <2>2. z = x /\ k = Depth
    BY <1>4, <1>7, <1>9, <2>1, OwnId DEF On
  <2>3. QED
    BY <1>1, <1>2, <1>9, <2>2, RowUp
<1>10. AheadClusters'
  <2> SUFFICES ASSUME On("clusters")
               PROVE  AheadClusters'
    BY <1>3 DEF AheadClusters
  <2>1. ASSUME NEW i \in Top.todo, popper'[i] = Depth
        PROVE  \E c \in Cluster : Id[c] = i /\ job'[Depth][c] # "idle"
    <3>1. PICK d \in Cluster : Id[d] = i
      BY DEF InHand, Phase
    <3>2. d \in Thing /\ i \in Ids /\ Depth \in Level
      BY <1>4, <3>1 DEF On, Thing
    <3>3. i # Id[x]
      BY <1>1, <3>1, <3>2, KindOfId
    <3>4. popper[i] = Depth
      BY <1>7, <2>1, <3>2, <3>3
    <3>5. PICK c \in Cluster : Id[c] = i /\ job[Depth][c] # "idle"
      BY <3>4 DEF InHand, AheadClusters
    <3>6. QED
      BY <1>1, <3>2, <3>5
  <2>2. ASSUME NEW c \in Cluster, Id[c] \in Top.todo
        PROVE  /\ job'[Depth][c] = "idle" =>
                    \A z \in Below(c) : popper'[Id[z]] # Depth
               /\ job'[Depth][c] = "submit" =>
                    \A p \in Parts[c] : job'[Depth][p] = "idle" =>
                      \A z \in {p} \cup Parts[p] : popper'[Id[z]] # Depth
    <3>1. c \in Thing /\ Depth \in Level
      BY <1>4 DEF On, Thing
    <3>2. job'[Depth][c] = job[Depth][c]
      BY <1>1, <3>1
    <3>3. ASSUME job[Depth][c] = "idle", NEW z \in Below(c)
          PROVE  popper'[Id[z]] # Depth
      <4>1. popper[Id[z]] # Depth
        BY <2>2, <3>3 DEF InHand, AheadClusters
      <4>2. QED
        BY <1>9, <3>3, <4>1
    <3>4. ASSUME job[Depth][c] = "submit", NEW p \in Parts[c],
                 job'[Depth][p] = "idle", NEW z \in {p} \cup Parts[p]
          PROVE  popper'[Id[z]] # Depth
      <4>1. p \in Thing /\ job[Depth][p] = "idle"
        BY <1>1, <1>2, <3>1, <3>4, BelowParts
      <4>2. z \in Below(c) /\ popper[Id[z]] # Depth
        BY <2>2, <3>4, <4>1 DEF InHand, AheadClusters, Below
      <4>3. CASE z = p
        BY <1>2, <1>9, <4>1, <4>2, <4>3 DEF Inner
      <4>4. CASE z \in Parts[p]
        <5> SUFFICES ASSUME popper'[Id[z]] = Depth
                     PROVE  FALSE
          OBVIOUS
        <5>1. r = job[Depth] /\ z = x
          BY <1>9, <4>2
        <5>2. Accounts(r, p, z)
          BY <1>1, <1>2, <4>1, <4>4, <5>1, RowOwner DEF Row
        <5>3. QED
          BY <4>1, <5>1, <5>2 DEF Accounts
      <4>5. QED
        BY <3>4, <4>3, <4>4
    <3>5. QED
      BY <3>2, <3>3, <3>4
  <2>3. QED
    BY <1>3, <2>1, <2>2 DEF AheadClusters
<1>11. AheadServers'
  <2> SUFFICES ASSUME On("sets") \/ On("servers"), NEW i \in Top.todo,
                      popper'[i] = Depth,
                      \A s \in Server : Id[s] = i => job'[Depth][s] = "idle"
               PROVE  registry'[i] # Nothing
    BY <1>3 DEF AheadServers
  <2>1. i \in Ids /\ Depth \in Level /\ Depth # k
    BY <1>4, <1>5 DEF On
  <2>2. popper[i] = Depth /\ job'[Depth] = job[Depth]
    BY <1>1, <1>7, <2>1
  <2>3. registry[i] # Nothing
    BY <2>2 DEF InHand, AheadServers
  <2>4. CASE LevelTake(k, x)
    <3>1. i # Id[x]
      BY <2>1, <2>2, <2>4 DEF LevelTake, Take, TypeInv, TypeOK
    <3>2. QED
      BY <2>1, <2>3, <2>4, <3>1 DEF LevelTake, Take, TypeInv, TypeOK
  <2>5. CASE ~LevelTake(k, x)
    BY <2>3, <2>5 DEF LevelStep, LevelMiss, LevelEnd
  <2>6. QED
    BY <2>4, <2>5
<1>12. Missing'
  <2>1. CASE LevelMiss(k, x)
    <3>1. missed' = [level |-> k, id |-> Id[x]] /\ popper' = popper
      BY <2>1 DEF LevelMiss
    <3>2. popper[Id[x]] # k /\ Id[x] \in Ids
      BY <2>1, IdTyped DEF LevelMiss, InHand, AheadParts
    <3>3. q[x] = "raised"
      BY <2>1, Types, GotoModest DEF LevelMiss, Label
    <3>4. QED
      BY <3>1, <3>2, <3>3 DEF Missing
  <2>2. CASE ~LevelMiss(k, x)
    <3>1. missed' = missed
      BY <2>2 DEF LevelStep, LevelTake, LevelEnd
    <3> SUFFICES ASSUME missed.level > 0
                 PROVE  /\ missed.id \in Ids
                        /\ popper'[missed.id] # missed.level
                        /\ missed.level <= Depth =>
                             \/ \E z \in Thing :
                                  /\ Id[z] = missed.id
                                  /\ job'[missed.level][z] = "raised"
                             \/ /\ leaving # "no"
                                /\ \A z \in Thing :
                                     job'[missed.level][z] = "idle"
      BY <1>3, <3>1 DEF Missing
    <3>2. missed.level \in Level /\ missed.id \in Ids
      BY Types DEF Level, InHand, Missing
    <3>3. CASE missed.level = k
      <4>1. PICK z \in Thing : Id[z] = missed.id /\ r[z] = "raised"
        BY <1>2, <1>5, <3>3 DEF InHand, Missing, Inner
      <4>2. LevelTake(k, x) => missed.id # Id[x]
        <5>1. x \notin Roots
          BY LevelRows DEF InHand
        <5>2. QED
          BY <4>1, <5>1, OwnId DEF LevelTake
      <4>3. q[z] = "raised"
        BY <1>2, <4>1
      <4>4. popper[missed.id] # missed.level
        BY DEF InHand, Missing
      <4>5. popper'[missed.id] # missed.level
        BY <1>7, <3>2, <3>3, <4>2, <4>4
      <4>6. QED
        BY <3>2, <3>3, <4>1, <4>3, <4>5
    <3>4. CASE missed.level # k
      BY <1>1, <1>7, <3>2, <3>4 DEF InHand, Missing
    <3>5. QED
      BY <3>3, <3>4
  <2>3. QED
    BY <2>1, <2>2
<1>13. QED
  BY <1>1, <1>6, <1>8, <1>10, <1>11, <1>12 DEF InHand

-----------------------------------------------------------------------------
LEMMA AtWork ==
  ASSUME TypeInv, Rows, stack # <<>>
  PROVE  /\ Depth \in Level /\ Depth \in Nat
         /\ Row(job[Depth]) /\ job[Depth] \in [Thing -> Label]
         /\ Top.todo \subseteq Ids
BY DepthIsLevel, Types DEF TypeInv, Rows, Frame, Level

LEMMA GotoRow ==
  ASSUME TypeInv, NEW k \in Level, NEW x \in Thing, NEW l, Goto(k, x, l)
  PROVE  /\ job'[k] = [job[k] EXCEPT ![x] = l]
         /\ job'[k][x] = l
         /\ \A z \in Thing : z # x => job'[k][z] = job[k][z]
         /\ \A j \in Level : j # k => job'[j] = job[j]
<1>1. /\ k \in Actor /\ Level \subseteq Actor
      /\ job \in [Actor -> [Thing -> Label]]
  BY Types DEF TypeInv, TypeOK
<1>2. QED
  BY <1>1 DEF Goto

\* A thing that is taken is the only one whose taker changes.
LEMMA TakePopper ==
  ASSUME TypeInv, NEW k \in Level, NEW x \in Thing, Take(k, x)
  PROVE  /\ popper'[Id[x]] = k
         /\ \A i \in Ids : i # Id[x] => popper'[i] = popper[i]
BY IdTyped DEF Take, TypeInv, TypeOK

LEMMA TopSet ==
  ASSUME TypeInv, stack # <<>>, NEW pc, NEW todo, SetTop(pc, todo)
  PROVE  /\ Depth' = Depth /\ Top' = [pc |-> pc, todo |-> todo] /\ stack' # <<>>
<1>1. stack \in Seq(Frame) /\ Len(stack) \in Nat /\ Len(stack) > 0
  BY DEF TypeInv, TypeOK
<1>2. Len(stack') = Len(stack) /\ stack' # <<>>
  BY <1>1 DEF SetTop, Depth
<1>3. stack'[Len(stack)] = [pc |-> pc, todo |-> todo]
  BY <1>1 DEF SetTop, Depth
<1>4. QED
  BY <1>2, <1>3 DEF Depth, Top

\* The next frame is known.
LEMMA SameTop ==
  ASSUME stack' = stack, leaving' = leaving
  PROVE  /\ Depth' = Depth /\ Top' = Top
         /\ On("clusters")' = On("clusters") /\ On("sets")' = On("sets")
         /\ On("servers")' = On("servers")
BY DEF Depth, Top, On

\* An exception keeps the innermost handler from going on.
LEMMA LeavingKeeps ==
  ASSUME TypeInv, InHand, stack' = stack, leaving' # "no",
         job' = job, popper' = popper, missed' = missed, leaving = "no"
  PROVE  InHand'
<1>1. /\ Depth' = Depth
      /\ ~On("clusters")' /\ ~On("sets")' /\ ~On("servers")'
  BY DEF Depth, On
<1>2. Rows' /\ Phase' /\ AheadParts'
  BY <1>1 DEF InHand, Rows, Phase, AheadParts
<1>3. AheadClusters' /\ AheadServers'
  BY <1>1 DEF AheadClusters, AheadServers
<1>4. Missing'
  BY <1>1 DEF InHand, Missing
<1>5. QED
  BY <1>2, <1>3, <1>4 DEF InHand

\* What the handler itself misses ends it; it has nothing else in hand.
LEMMA RaiseKeeps ==
  ASSUME TypeInv, InHand, stack # <<>>, leaving = "no",
         NEW i \in Ids, Raise(i), popper[i] # Depth,
         \A z \in Thing : job[Depth][z] = "idle"
  PROVE  InHand'
<1>1. /\ Depth' = Depth /\ Depth \in Level
      /\ ~On("clusters")' /\ ~On("sets")' /\ ~On("servers")'
  BY AtWork DEF Raise, Depth, On, InHand
<1>2. Rows' /\ Phase' /\ AheadParts'
  BY <1>1 DEF Raise, InHand, Rows, Phase, AheadParts
<1>3. AheadClusters' /\ AheadServers'
  BY <1>1 DEF AheadClusters, AheadServers
<1>4. Missing'
  BY <1>1 DEF Raise, Missing
<1>5. QED
  BY <1>2, <1>3, <1>4 DEF InHand

\* No cluster is in a handler's hands, nor a server.
LEMMA HandsFree ==
  ASSUME TypeInv, InHand, On("clusters"),
         \A c \in Cluster : job[Depth][c] = "idle"
  PROVE  \A x \in Thing : job[Depth][x] = "idle"
<1>1. Row(job[Depth])
  BY AtWork DEF InHand, On
<1>2. \A x \in Thing : job[Depth][x] \in {"idle", "stop_main"}
  BY <1>1, RowIdle
<1>3. QED
  BY <1>2 DEF InHand, Phase

LEMMA ClusterPopKeeps ==
  ASSUME TypeInv, InHand, NEW i \in Ids, ClusterPop(i)
  PROVE  InHand'
<1> DEFINE r == job[Depth]
           q == job'[Depth]
           c == registry[i]
<1>1. /\ On("clusters") /\ stack # <<>> /\ leaving = "no"
      /\ i \in Top.todo
      /\ Depth \in Level /\ Row(r) /\ r \in [Thing -> Label]
  BY AtWork DEF ClusterPop, On, InHand
<1>2. \A x \in Thing : r[x] = "idle"
  BY HandsFree DEF ClusterPop
<1>3. popper[i] # Depth
  BY <1>1, <1>2 DEF InHand, AheadClusters, Thing
<1>4. CASE registry[i] = Nothing
  BY <1>1, <1>2, <1>3, <1>4, RaiseKeeps DEF ClusterPop
<1>5. CASE registry[i] # Nothing
  <2>0. c \in Cluster /\ c \in Thing /\ Id[c] = i
    <3>1. c \in Thing /\ Id[c] = i
      BY <1>5, Named DEF TypeInv
    <3>2. PICK d \in Cluster : Id[d] = i
      BY <1>1 DEF InHand, Phase
    <3>3. QED
      BY <3>1, <3>2, KindOfId DEF Thing
  <2>1. /\ Take(Depth, c) /\ Goto(Depth, c, "submit")
        /\ stack' = stack /\ leaving' = leaving /\ missed' = missed
    BY <1>5 DEF ClusterPop
  <2> HIDE DEF c
  <2>2. /\ Depth' = Depth /\ Top' = Top
        /\ On("clusters")' /\ ~On("sets")' /\ ~On("servers")'
    BY <1>1, <2>1, SameTop, OnOne
  <2>3. /\ q = [r EXCEPT ![c] = "submit"] /\ q[c] = "submit"
        /\ \A z \in Thing : z # c => q[z] = r[z]
        /\ \A j \in Level : j # Depth => job'[j] = job[j]
    BY <1>1, <2>0, <2>1, GotoRow
  <2>4. \A n \in Ids : n # i => popper'[n] = popper[n]
    BY <1>1, <2>0, <2>1, TakePopper
  <2>5. Rows'
    <3>1. "submit" \in LevelLabel(c) /\ ~Inner(q, c)
      BY <2>0, <2>3, RegistriesAssumption DEF LevelLabel, Inner
    <3>2. \A p \in Parts[c] : p \in Thing /\ ~Inner(r, p)
      BY <1>2, <2>0, BelowParts DEF Inner
    <3>3. \A d \in Cluster : r[d] = "idle"
      BY <1>2 DEF Thing
    <3>4. Row(q)
      BY <1>1, <2>0, <2>3, <3>1, <3>2, <3>3, RowGoto
    <3>5. QED
      BY <2>3, <3>4 DEF InHand, Rows
  <2>6. Phase'
    BY <1>1, <1>2, <2>0, <2>2, <2>3, Types DEF InHand, Phase
  <2>7. AheadParts'
    <3> SUFFICES ASSUME NEW j \in Level, NEW y \in Thing, job'[j][y] = "pop",
                        NEW z \in {y} \cup Parts[y], popper'[Id[z]] = j
                 PROVE  FALSE
      BY DEF AheadParts
    <3>1. j # Depth /\ popper'[i] = Depth
      BY <1>1, <1>2, <2>0, <2>1, <2>3, TakePopper
    <3>2. Id[z] \in Ids /\ popper[Id[z]] = j
      BY <2>4, <3>1, IdTyped
    <3>3. QED
      BY <2>3, <3>1, <3>2 DEF InHand, AheadParts
  <2>8. AheadClusters'
    <3>1. ASSUME NEW n \in Top.todo, popper'[n] = Depth
          PROVE  n = i
      <4> SUFFICES ASSUME n # i
                   PROVE  FALSE
        OBVIOUS
      <4>1. popper[n] = Depth
        BY <1>1, <2>4, <3>1, AtWork DEF InHand
      <4>2. QED
        BY <1>1, <1>2, <4>1 DEF InHand, AheadClusters, Thing
    <3>2. ASSUME NEW d \in Cluster, Id[d] \in Top.todo, NEW z \in Below(d)
          PROVE  popper'[Id[z]] # Depth
      <4>1. d \in Thing /\ r[d] = "idle"
        BY <1>2 DEF Thing
      <4>2. popper[Id[z]] # Depth
        BY <1>1, <3>2, <4>1 DEF InHand, AheadClusters
      <4>3. z \in Thing \ Roots /\ Id[z] \in Ids
        BY <4>1, BelowOwn
      <4>4. z # c
        BY <2>0, <4>1, <4>3, RegistriesAssumption, KindsAssumption
           DEF Below, Thing
      <4>5. Id[z] # i
        BY <2>0, <4>3, <4>4, OwnId
      <4>6. QED
        BY <2>4, <4>2, <4>3, <4>5
    <3>3. \A d \in Cluster : \A p \in Parts[d] : \A z \in {p} \cup Parts[p] :
            z \in Below(d)
      BY DEF Below
    <3>4. QED
      BY <2>0, <2>2, <2>3, <3>1, <3>2, <3>3 DEF AheadClusters
  <2>9. Missing'
    <3> SUFFICES ASSUME missed.level > 0
                 PROVE  Missing'
      BY <2>1 DEF Missing
    <3>1. missed.level \in Level /\ missed.id \in Ids
      BY Types DEF Level, InHand, Missing
    <3>2. missed.level # Depth
      BY <1>1, <1>2, <3>1 DEF InHand, Missing, Level
    <3>3. popper'[missed.id] # missed.level
      <4>1. popper'[i] = Depth
        BY <1>1, <2>0, <2>1, TakePopper
      <4>2. QED
        BY <2>4, <3>1, <3>2, <4>1 DEF InHand, Missing
    <3>4. QED
      BY <2>1, <2>2, <2>3, <3>1, <3>2, <3>3 DEF InHand, Missing
  <2>10. AheadServers'
    BY <2>2 DEF AheadServers
  <2>11. QED
    BY <2>5, <2>6, <2>7, <2>8, <2>9, <2>10 DEF InHand
<1>6. QED
  BY <1>4, <1>5

LEMMA ClusterSubmitKeeps ==
  ASSUME TypeInv, InHand, NEW c \in Cluster, ClusterSubmit(c)
  PROVE  InHand'
<1> DEFINE r == job[Depth]
           q == job'[Depth]
<1>1. /\ On("clusters") /\ stack # <<>> /\ leaving = "no"
      /\ r[c] = "submit" /\ c \in Thing
      /\ Depth \in Level /\ Row(r) /\ r \in [Thing -> Label]
      /\ stack' = stack /\ leaving' = leaving /\ missed' = missed
      /\ popper' = popper
  BY AtWork DEF ClusterSubmit, On, InHand, Thing, mainVars, history
<1>2. /\ Depth' = Depth /\ Top' = Top
      /\ On("clusters")' /\ ~On("sets")' /\ ~On("servers")'
  BY <1>1, SameTop, OnOne
<1>3. \A d \in Cluster \ {c} : r[d] = "idle"
  BY <1>1 DEF Row
<1>4. Id[c] \in Top.todo
  BY <1>1 DEF InHand, Phase
<1>5. ASSUME NEW x \in Thing, NEW l \in {"pop", "collect"}, Goto(Depth, x, l),
             Row(q), r[x] \in {"idle", "submit"},
             l = "pop" => r[x] = "idle" /\ x \in Parts[c] /\ x \notin Cluster,
             l = "collect" => x = c
      PROVE  InHand'
  <2>1. /\ q[x] = l /\ \A z \in Thing : z # x => q[z] = r[z]
        /\ \A j \in Level : j # Depth => job'[j] = job[j]
    BY <1>1, <1>5, GotoRow
  <2>2. Rows'
    BY <1>5, <2>1 DEF InHand, Rows
  <2>3. Phase'
    <3>1. \A z \in Thing :
            /\ q[z] # "stop_main"
            /\ z \in Cluster /\ q[z] # "idle" => Id[z] \in Top.todo
      BY <1>1, <1>4, <1>5, <2>1 DEF InHand, Phase
    <3>2. QED
      BY <1>1, <1>2, <2>1, <3>1, Types DEF InHand, Phase
  <2>4. AheadParts'
    <3> SUFFICES ASSUME NEW j \in Level, NEW y \in Thing, job'[j][y] = "pop",
                        NEW z \in {y} \cup Parts[y]
                 PROVE  popper[Id[z]] # j
      BY <1>1 DEF AheadParts
    <3>1. CASE job[j][y] = "pop"
      BY <3>1 DEF InHand, AheadParts
    <3>2. CASE job[j][y] # "pop"
      <4>1. j = Depth /\ y = x /\ l = "pop"
        BY <1>5, <2>1, <3>2
      <4>2. QED
        BY <1>1, <1>4, <1>5, <4>1 DEF InHand, AheadClusters
    <3>3. QED
      BY <3>1, <3>2
  <2>5. AheadClusters'
    <3>1. \A z \in Thing : q[z] = "idle" => r[z] = "idle"
      BY <1>5, <2>1
    <3>2. \A d \in Cluster :
            /\ d \in Thing
            /\ Parts[d] \subseteq Thing
            /\ q[d] = "submit" => r[d] = "submit"
      BY <1>5, <2>1, BelowParts DEF Thing
    <3>3. \A d \in Cluster : r[d] # "idle" => q[d] # "idle"
      BY <1>5, <2>1 DEF Thing
    <3>4. \A i \in Top.todo : popper[i] = Depth =>
            \E d \in Cluster : Id[d] = i /\ q[d] # "idle"
      BY <1>1, <3>3 DEF InHand, AheadClusters
    <3>5. ASSUME NEW d \in Cluster, Id[d] \in Top.todo
          PROVE  /\ q[d] = "idle" => \A z \in Below(d) : popper[Id[z]] # Depth
                 /\ q[d] = "submit" =>
                      \A p \in Parts[d] : q[p] = "idle" =>
                        \A z \in {p} \cup Parts[p] : popper[Id[z]] # Depth
      <4>1. /\ r[d] = "idle" => \A z \in Below(d) : popper[Id[z]] # Depth
            /\ r[d] = "submit" =>
                 \A p \in Parts[d] : r[p] = "idle" =>
                   \A z \in {p} \cup Parts[p] : popper[Id[z]] # Depth
        BY <1>1, <3>5 DEF InHand, AheadClusters
      <4> HIDE DEF r, q
      <4>2. QED
        BY <3>1, <3>2, <4>1
    <3>6. popper' = popper /\ Depth' = Depth /\ Top' = Top
      BY <1>1, <1>2
    <3>7. QED
      BY <3>4, <3>5, <3>6 DEF AheadClusters
  <2>6. Missing'
    <3> SUFFICES ASSUME missed.level > 0
                 PROVE  Missing'
      BY <1>1 DEF Missing
    <3>1. missed.level \in Level
      BY Types DEF Level
    <3>2. \A k \in Level, z \in Thing :
            job[k][z] = "raised" => job'[k][z] = "raised"
      BY <1>5, <2>1
    <3>3. QED
      BY <1>1, <1>2, <3>1, <3>2 DEF InHand, Missing
  <2>7. AheadServers'
    BY <1>2 DEF AheadServers
  <2>8. QED
    BY <2>2, <2>3, <2>4, <2>5, <2>6, <2>7 DEF InHand
<1>6. ASSUME NEW x \in Parts[c], r[x] = "idle", Goto(Depth, x, "pop")
      PROVE  InHand'
  <2>1. x \in Thing /\ x \notin Cluster /\ x # c
    BY <1>1, BelowParts, RegistriesAssumption
  <2>2. q = [r EXCEPT ![x] = "pop"]
    BY <1>1, <1>6, <2>1, GotoRow
  <2>3. "pop" \in LevelLabel(x)
    BY <2>1, RegistriesAssumption DEF LevelLabel
  <2>4. Accounts(q, c, x)
    BY <1>1, <2>1, <2>2 DEF Accounts
  <2>5. \A p \in Parts[x] : ~Inner(r, p)
    <3> SUFFICES ASSUME NEW p \in Parts[x], Inner(r, p)
                 PROVE  FALSE
      OBVIOUS
    <3>1. Accounts(r, x, p)
      BY <1>1, <2>1, RowOwner DEF Row
    <3>2. QED
      BY <1>6, <3>1 DEF Accounts
  <2>6. Row(q)
    BY <1>1, <2>1, <2>2, <2>3, <2>4, <2>5, RowGoto
  <2>7. QED
    BY <1>5, <1>6, <2>1, <2>6
<1>7. ASSUME Goto(Depth, c, "collect")
      PROVE  InHand'
  <2>1. q = [r EXCEPT ![c] = "collect"]
    BY <1>1, <1>7, GotoRow
  <2>2. "collect" \in LevelLabel(c) /\ ~Inner(q, c)
    BY <1>1, <2>1, RegistriesAssumption DEF LevelLabel, Inner
  <2>3. \A p \in Parts[c] : Accounts(q, c, p)
    BY <1>1, <2>1 DEF Accounts
  <2>4. Row(q)
    BY <1>1, <1>3, <2>1, <2>2, <2>3, RowGoto
  <2>5. QED
    BY <1>1, <1>5, <1>7, <2>4
<1>8. QED
  BY <1>6, <1>7 DEF ClusterSubmit

\* A row is put away.
LEMMA IdleRow ==
  ASSUME TypeInv, NEW k \in Level, job' = [job EXCEPT ![k] = Idle]
  PROVE  /\ job'[k] = Idle
         /\ \A z \in Thing : job'[k][z] = "idle"
         /\ \A j \in Level : j # k => job'[j] = job[j]
<1>1. /\ k \in Actor /\ Level \subseteq Actor
      /\ job \in [Actor -> [Thing -> Label]]
  BY Types DEF TypeInv, TypeOK
<1>2. job'[k] = Idle /\ \A j \in Level : j # k => job'[j] = job[j]
  BY <1>1
<1>3. QED
  BY <1>2 DEF Idle

LEMMA ClusterCollectKeeps ==
  ASSUME TypeInv, InHand, NEW c \in Cluster, ClusterCollect(c)
  PROVE  InHand'
<1> DEFINE r == job[Depth]
           q == job'[Depth]
<1>1. /\ On("clusters") /\ stack # <<>> /\ leaving = "no"
      /\ r[c] = "collect" /\ c \in Thing
      /\ Depth \in Level /\ Depth \in Nat /\ Row(r) /\ r \in [Thing -> Label]
      /\ missed' = missed /\ popper' = popper
  BY AtWork DEF ClusterCollect, On, InHand, Thing, history
<1>2. CASE PartsRaised(Depth, c)
  <2>1. leaving' = "error" /\ job' = job /\ stack' = stack
    BY <1>2 DEF ClusterCollect
  <2>2. QED
    BY <1>1, <2>1, LeavingKeeps
<1>3. CASE ~PartsRaised(Depth, c)
  <2>1. /\ job' = [job EXCEPT ![Depth] = Idle]
        /\ SetTop("clusters", Top.todo \ {Id[c]}) /\ leaving' = leaving
    BY <1>3 DEF ClusterCollect
  <2>2. /\ Depth' = Depth /\ stack' # <<>>
        /\ Top' = [pc |-> "clusters", todo |-> Top.todo \ {Id[c]}]
    BY <1>1, <2>1, TopSet
  <2>3. On("clusters")' /\ ~On("sets")' /\ ~On("servers")'
    BY <1>1, <2>1, <2>2 DEF On
  <2>4. /\ q = Idle /\ \A z \in Thing : q[z] = "idle"
        /\ \A j \in Level : j # Depth => job'[j] = job[j]
    BY <1>1, <2>1, IdleRow
  <2>5. \A z \in Thing : r[z] # "raised"
    <3>1. \A p \in Parts[c] : r[p] \in {"done", "raised"} /\ r[p] # "raised"
      BY <1>3 DEF ClusterCollect, PartsEnded, PartsRaised, Ended
    <3>2. QED
      BY <1>1, <3>1, RowCollect
  <2>6. Rows'
    BY <2>4, RowOfIdle DEF InHand, Rows
  <2>7. Phase'
    BY <1>1, <2>2, <2>3, <2>4, Types DEF InHand, Phase
  <2>8. AheadParts'
    BY <1>1, <2>4 DEF InHand, AheadParts
  <2>9. AheadClusters'
    <3>1. ASSUME NEW n \in Top.todo \ {Id[c]}
          PROVE  popper[n] # Depth
      <4> SUFFICES ASSUME popper[n] = Depth
                   PROVE  FALSE
        OBVIOUS
      <4>1. PICK d \in Cluster : Id[d] = n /\ r[d] # "idle"
        BY <1>1 DEF InHand, AheadClusters
      <4>2. d = c
        BY <1>1, <4>1 DEF Row
      <4>3. QED
        BY <4>1, <4>2
    <3>2. ASSUME NEW d \in Cluster, Id[d] \in Top.todo \ {Id[c]},
                 NEW z \in Below(d)
          PROVE  popper[Id[z]] # Depth
      <4>1. r[d] = "idle"
        BY <1>1, <3>2 DEF Row
      <4>2. QED
        BY <1>1, <3>2, <4>1 DEF InHand, AheadClusters
    <3>3. \A d \in Cluster : q[d] = "idle"
      BY <2>4 DEF Thing
    <3>4. QED
      BY <1>1, <2>2, <3>1, <3>2, <3>3 DEF AheadClusters
  <2>10. Missing'
    <3> SUFFICES ASSUME missed.level > 0
                 PROVE  Missing'
      BY <1>1 DEF Missing
    <3>1. missed.level \in Level /\ missed.id \in Ids
      BY Types DEF Level, InHand, Missing
    <3>2. missed.level # Depth
      BY <1>1, <2>5, <3>1 DEF InHand, Missing
    <3>3. QED
      BY <1>1, <2>1, <2>2, <2>4, <3>1, <3>2 DEF InHand, Missing
  <2>11. AheadServers'
    BY <2>3 DEF AheadServers
  <2>12. QED
    BY <2>6, <2>7, <2>8, <2>9, <2>10, <2>11 DEF InHand
<1>4. QED
  BY <1>2, <1>3

\* With all of a phase done the handler goes on to the servers there are.
LEMMA PhaseKeeps ==
  ASSUME TypeInv, InHand, stack # <<>>, leaving = "no", leaving' = leaving,
         NEW pc \in {"sets", "servers"}, SetTop(pc, Keys(Server)),
         \A x \in Thing : job[Depth][x] = "idle",
         job' = job, popper' = popper, missed' = missed,
         \A s \in Server : Registered(s) => Registered(s)'
  PROVE  InHand'
<1>1. /\ Depth' = Depth /\ Top' = [pc |-> pc, todo |-> Keys(Server)]
      /\ stack' # <<>> /\ ~On("clusters")'
  BY TopSet DEF On
<1>2. Phase'
  BY <1>1 DEF InHand, Phase, Keys
<1>3. AheadServers'
  <2>1. \A s \in Server : s \in Thing /\ s # Nothing
    BY RegistriesAssumption DEF Thing
  <2>2. QED
    BY <1>1, <2>1 DEF AheadServers, Keys, Registered
<1>4. AheadClusters'
  BY <1>1 DEF AheadClusters
<1>5. Rows' /\ AheadParts' /\ Missing'
  BY <1>1 DEF InHand, Rows, AheadParts, Missing
<1>6. QED
  BY <1>2, <1>3, <1>4, <1>5 DEF InHand

LEMMA ClustersEndKeeps ==
  ASSUME TypeInv, InHand, ClustersEnd
  PROVE  InHand'
<1>1. \A c \in Cluster : job[Depth][c] = "idle"
  BY DEF ClustersEnd, InHand, Phase, Thing
<1>2. \A x \in Thing : job[Depth][x] = "idle"
  BY <1>1, HandsFree DEF ClustersEnd
<1>3. QED
  BY <1>2, PhaseKeeps DEF ClustersEnd, On, history, Registered

LEMMA SetsEndKeeps ==
  ASSUME TypeInv, InHand, SetsEnd
  PROVE  InHand'
<1>1. \A x \in Thing : job[Depth][x] = "idle"
  BY DEF SetsEnd, InHand, Phase
<1>2. \A s \in Server : Registered(s) => Registered(s)'
  BY KindsAssumption DEF SetsEnd, Registered, Ids, Thing
<1>3. QED
  BY <1>1, <1>2, PhaseKeeps DEF SetsEnd, On, history

LEMMA ServersEndKeeps ==
  ASSUME TypeInv, InHand, ServersEnd
  PROVE  InHand'
BY LeavingKeeps DEF ServersEnd, On, history

\* Among the servers the handler has one in hand at most, and it stops it.
LEMMA ServerPopKeeps ==
  ASSUME TypeInv, InHand, NEW i \in Ids, ServerPop(i)
  PROVE  InHand'
<1> DEFINE r == job[Depth]
           q == job'[Depth]
           s == registry[i]
<1>1. /\ On("sets") \/ On("servers")
      /\ stack # <<>> /\ leaving = "no" /\ ~On("clusters")
      /\ i \in Top.todo
      /\ Depth \in Level /\ Depth \in Nat /\ Row(r) /\ r \in [Thing -> Label]
  BY AtWork DEF ServerPop, On, InHand
<1>2. \A x \in Thing : r[x] = "idle"
  <2>1. \A x \in Thing : r[x] = "stop_main" => x \in Server
    BY <1>1, RowLabels
  <2>2. QED
    BY <1>1, <2>1 DEF ServerPop, InHand, Phase
<1>3. CASE registry[i] = Nothing
  <2>1. popper[i] # Depth
    BY <1>1, <1>2, <1>3 DEF InHand, AheadServers, Thing
  <2>2. QED
    BY <1>1, <1>2, <1>3, <2>1, RaiseKeeps DEF ServerPop
<1>4. CASE registry[i] # Nothing
  <2>0. s \in Server /\ s \in Thing /\ Id[s] = i
    <3>1. s \in Thing /\ Id[s] = i
      BY <1>4, Named DEF TypeInv
    <3>2. PICK d \in Server : Id[d] = i
      BY <1>1 DEF InHand, Phase
    <3>3. QED
      BY <3>1, <3>2, KindOfId DEF Thing
  <2>1. /\ Take(Depth, s) /\ Goto(Depth, s, "stop_main")
        /\ stack' = stack /\ leaving' = leaving /\ missed' = missed
    BY <1>4 DEF ServerPop
  <2> HIDE DEF s
  <2>2. /\ Depth' = Depth /\ Top' = Top /\ ~On("clusters")'
        /\ On("sets")' = On("sets") /\ On("servers")' = On("servers")
    BY <1>1, <2>1, SameTop
  <2>3. /\ q = [r EXCEPT ![s] = "stop_main"] /\ q[s] = "stop_main"
        /\ \A z \in Thing : z # s => q[z] = r[z]
        /\ \A j \in Level : j # Depth => job'[j] = job[j]
    BY <1>1, <2>0, <2>1, GotoRow
  <2>4. /\ popper'[i] = Depth
        /\ \A n \in Ids : n # i => popper'[n] = popper[n]
    BY <1>1, <2>0, <2>1, TakePopper
  <2>5. Rows'
    <3>1. s \notin Cluster /\ "stop_main" \in LevelLabel(s) /\ ~Inner(q, s)
      BY <2>0, <2>3, KindsAssumption DEF LevelLabel, Inner
    <3>2. Parts[s] = {}
      BY <2>0, RegistriesAssumption
    <3>3. Row(q)
      BY <1>1, <2>0, <2>3, <3>1, <3>2, RowGoto
    <3>4. QED
      BY <2>3, <3>3 DEF InHand, Rows
  <2>6. Phase'
    BY <1>1, <1>2, <2>0, <2>2, <2>3, Types DEF InHand, Phase
  <2>7. AheadParts'
    <3> SUFFICES ASSUME NEW j \in Level, NEW y \in Thing, job'[j][y] = "pop",
                        NEW z \in {y} \cup Parts[y], popper'[Id[z]] = j
                 PROVE  FALSE
      BY DEF AheadParts
    <3>1. j # Depth
      BY <1>2, <2>0, <2>3
    <3>2. Id[z] \in Ids /\ popper[Id[z]] = j
      BY <2>4, <3>1, IdTyped
    <3>3. QED
      BY <2>3, <3>1, <3>2 DEF InHand, AheadParts
  <2>8. AheadServers'
    <3> SUFFICES ASSUME NEW n \in Top.todo, popper'[n] = Depth,
                        \A u \in Server : Id[u] = n => q[u] = "idle"
                 PROVE  registry'[n] # Nothing
      BY <2>2 DEF AheadServers
    <3>1. n \in Ids
      BY <1>1, AtWork DEF InHand
    <3>2. n # i /\ popper[n] = Depth
      BY <2>0, <2>3, <2>4, <3>1
    <3>3. registry[n] # Nothing
      BY <1>1, <1>2, <3>2 DEF InHand, AheadServers, Thing
    <3>4. QED
      BY <2>0, <2>1, <3>1, <3>2, <3>3 DEF Take, TypeInv, TypeOK
  <2>9. Missing'
    <3> SUFFICES ASSUME missed.level > 0
                 PROVE  Missing'
      BY <2>1 DEF Missing
    <3>1. missed.level \in Level /\ missed.id \in Ids
      BY Types DEF Level, InHand, Missing
    <3>2. missed.level # Depth
      BY <1>1, <1>2, <3>1 DEF InHand, Missing, Level
    <3>3. popper'[missed.id] # missed.level
      BY <2>4, <3>1, <3>2 DEF InHand, Missing
    <3>4. QED
      BY <2>1, <2>2, <2>3, <3>1, <3>2, <3>3 DEF InHand, Missing
  <2>10. AheadClusters'
    BY <2>2 DEF AheadClusters
  <2>11. QED
    BY <2>5, <2>6, <2>7, <2>8, <2>9, <2>10 DEF InHand
<1>5. QED
  BY <1>3, <1>4

LEMMA ServerStopKeeps ==
  ASSUME TypeInv, InHand, NEW s \in Server, ServerStop(s)
  PROVE  InHand'
<1> DEFINE r == job[Depth]
           q == job'[Depth]
<1>1. /\ On("sets") \/ On("servers")
      /\ stack # <<>> /\ leaving = "no" /\ ~On("clusters")
      /\ s \in Thing /\ r[s] = "stop_main"
      /\ Depth \in Level /\ Depth \in Nat /\ Row(r) /\ r \in [Thing -> Label]
      /\ Goto(Depth, s, "idle") /\ SetTop(Top.pc, Top.todo \ {Id[s]})
      /\ leaving' = leaving /\ missed' = missed /\ popper' = popper
      /\ registry' = registry
  BY AtWork DEF ServerStop, On, InHand, Thing, history
<1>2. /\ Depth' = Depth /\ stack' # <<>>
      /\ Top' = [pc |-> Top.pc, todo |-> Top.todo \ {Id[s]}]
  BY <1>1, TopSet
<1>3. /\ ~On("clusters")'
      /\ On("sets")' = On("sets") /\ On("servers")' = On("servers")
  BY <1>1, <1>2 DEF On
<1>4. /\ q = [r EXCEPT ![s] = "idle"] /\ q[s] = "idle"
      /\ \A z \in Thing : z # s => q[z] = r[z]
      /\ \A j \in Level : j # Depth => job'[j] = job[j]
  BY <1>1, GotoRow
<1>5. Rows'
  <2>1. s \notin Cluster /\ "idle" \in LevelLabel(s) /\ ~Inner(q, s)
    BY <1>4, KindsAssumption DEF LevelLabel, Inner
  <2>2. Parts[s] = {}
    BY <1>1, RegistriesAssumption
  <2>3. Row(q)
    BY <1>1, <1>4, <2>1, <2>2, RowGoto
  <2>4. QED
    BY <1>4, <2>3 DEF InHand, Rows
<1>6. Phase'
  <2>1. \A z \in Thing : q[z] = "idle"
    BY <1>1, <1>4 DEF InHand, Phase
  <2>2. QED
    BY <1>1, <1>2, <1>3, <1>4, <2>1, Types DEF InHand, Phase
<1>7. AheadParts'
  <2>1. \A j \in Level, y \in Thing : job'[j][y] = "pop" => job[j][y] = "pop"
    BY <1>1, <1>4
  <2>2. QED
    BY <1>1, <2>1 DEF InHand, AheadParts
<1>8. AheadServers'
  <2> SUFFICES ASSUME NEW i \in Top.todo \ {Id[s]}, popper[i] = Depth,
                      \A u \in Server : Id[u] = i => q[u] = "idle"
               PROVE  registry[i] # Nothing
    BY <1>1, <1>2 DEF AheadServers
  <2>1. \A u \in Server : Id[u] = i => r[u] = "idle"
    BY <1>4 DEF Thing
  <2>2. QED
    BY <1>1, <2>1 DEF InHand, AheadServers
<1>9. Missing'
  <2> SUFFICES ASSUME missed.level > 0
               PROVE  Missing'
    BY <1>1 DEF Missing
  <2>1. missed.level \in Level /\ missed.id \in Ids
    BY Types DEF Level, InHand, Missing
  <2>2. missed.level # Depth
    BY <1>1, <2>1 DEF InHand, Missing, Phase
  <2>3. QED
    BY <1>1, <1>2, <1>4, <2>1, <2>2 DEF InHand, Missing
<1>10. AheadClusters'
  BY <1>3 DEF AheadClusters
<1>11. QED
  BY <1>5, <1>6, <1>7, <1>8, <1>9, <1>10 DEF InHand

\* A handler that has been left goes on no more, nor do those below.
LEMMA UnwindKeeps ==
  ASSUME TypeInv, InHand, Unwind
  PROVE  InHand'
<1>1. /\ stack # <<>> /\ leaving # "no"
      /\ Depth \in Level /\ Depth \in Nat
      /\ job' = [job EXCEPT ![Depth] = Idle]
      /\ missed' = missed /\ popper' = popper
  BY AtWork DEF Unwind, InHand, history
<1>2. /\ \A z \in Thing : job'[Depth][z] = "idle"
      /\ job'[Depth] = Idle
      /\ \A j \in Level : j # Depth => job'[j] = job[j]
  BY <1>1, IdleRow
<1>3. Depth' = Depth - 1 /\ (Depth = 1 => stack' = <<>>)
  <2>1. stack \in Seq(Frame) /\ Len(stack) = Depth /\ Depth >= 1
    BY <1>1 DEF Depth, Level, TypeInv, TypeOK
  <2>2. stack' = SubSeq(stack, 1, Depth - 1)
    BY DEF Unwind
  <2>3. stack' \in Seq(Frame) /\ Len(stack') = Depth - 1
    BY <1>1, <2>1, <2>2
  <2>4. QED
    BY <2>3 DEF Depth
<1>4. ~On("clusters")' /\ ~On("sets")' /\ ~On("servers")'
  BY <1>1, <1>3 DEF Unwind, On
<1>5. Rows'
  BY <1>2, RowOfIdle DEF InHand, Rows
<1>6. Phase'
  <2> SUFFICES ASSUME NEW k \in Level, NEW x \in Thing, k > Depth - 1
               PROVE  job'[k][x] = "idle"
    BY <1>3, <1>4 DEF Phase
  <2>1. k = Depth \/ k > Depth
    BY <1>1, Types
  <2>2. QED
    BY <1>1, <1>2, <2>1, Types DEF InHand, Phase
<1>7. AheadParts'
  BY <1>1, <1>2 DEF InHand, AheadParts
<1>8. AheadClusters' /\ AheadServers'
  BY <1>4 DEF AheadClusters, AheadServers
<1>9. Missing'
  <2> SUFFICES ASSUME missed.level > 0
               PROVE  Missing'
    BY <1>1 DEF Missing
  <2>1. missed.level \in Level /\ missed.level \in Nat /\ missed.id \in Ids
    BY Types DEF Level, InHand, Missing
  <2>2. missed.level <= Depth - 1 => missed.level # Depth /\ Depth # 1
    BY <1>1, <2>1
  <2>3. Depth # 1 => leaving' = leaving
    BY <1>1 DEF Unwind
  <2>4. missed.level <= Depth - 1 => missed.level <= Depth
    BY <1>1, <2>1
  <2>5. QED
    BY <1>1, <1>2, <1>3, <2>1, <2>2, <2>3, <2>4 DEF InHand, Missing
<1>10. QED
  BY <1>5, <1>6, <1>7, <1>8, <1>9 DEF InHand

\* The next handler begins with nothing, and has taken nothing.
LEMMA SignalKeeps ==
  ASSUME TypeInv, InHand, Signal
  PROVE  InHand'
<1>1. /\ stack \in Seq(Frame) /\ Len(stack) \in Nat /\ Depth \in Nat
      /\ Depth = Len(stack) /\ Depth + 1 \in Level
  <2>1. Len(stack) <= signals /\ signals < MaxSignals /\ signals \in Nat
    BY RegistriesAssumption DEF Signal, TypeInv, TypeOK, Nested
  <2>2. QED
    BY <2>1, RegistriesAssumption DEF TypeInv, TypeOK, Depth, Level
<1>2. /\ Depth' = Depth + 1
      /\ Top' = [pc |-> "clusters", todo |-> Keys(Cluster)]
      /\ ~On("sets")' /\ ~On("servers")'
  BY <1>1 DEF Signal, Depth, Top, On
<1>3. job' = job /\ \A x \in Thing : job[Depth + 1][x] = "idle"
  BY <1>1 DEF Signal, InHand, Phase
<1>4. \A i \in Ids, k \in Level :
        popper'[i] = k => popper[i] = k /\ k <= Depth
  BY <1>1, Types DEF Signal, TypeInv, TypeOK
<1>5. Rows'
  BY <1>3 DEF InHand, Rows
<1>6. Phase'
  <2>1. \A k \in Level : k > Depth + 1 => k > Depth
    BY <1>1, Types
  <2>2. QED
    BY <1>2, <1>3, <2>1 DEF InHand, Phase, Keys
<1>7. AheadParts'
  BY <1>3, <1>4, IdTyped DEF InHand, AheadParts
<1>8. AheadClusters'
  <2>1. \A i \in Ids : popper'[i] # Depth + 1
    BY <1>1, <1>4
  <2>2. Keys(Cluster) \subseteq Ids
    BY DEF Keys, Thing, Ids
  <2>3. \A c \in Cluster : \A z \in Below(c) : Id[z] \in Ids
    BY BelowOwn DEF Thing
  <2>4. \A c \in Cluster : \A p \in Parts[c] : \A z \in {p} \cup Parts[p] :
          z \in Below(c)
    BY DEF Below
  <2>5. QED
    BY <1>2, <2>1, <2>2, <2>3, <2>4 DEF AheadClusters
<1>9. AheadServers' /\ Missing'
  BY <1>2 DEF Signal, NoMiss, AheadServers, Missing
<1>10. QED
  BY <1>5, <1>6, <1>7, <1>8, <1>9 DEF InHand

LEMMA StillKeeps ==
  ASSUME TypeInv, InHand, Exit \/ UNCHANGED vars
  PROVE  InHand'
<1>1. Aside
  BY DEF Exit, Aside, vars, history, Registered
<1>2. QED
  BY <1>1, AsideKeeps

LEMMA NextInHand ==
  ASSUME TypeInv, InHand, [Next]_vars
  PROVE  InHand'
<1>1. ASSUME NEW a \in Actor, NEW x \in Thing, Job(a, x)
      PROVE  InHand'
  <2>1. CASE a \in Worker
    BY <1>1, <2>1, WorkerAside, AsideKeeps
  <2>2. CASE a \in Level
    BY <1>1, <2>2, LevelJob, LevelKeeps DEF InHand
  <2>3. QED
    BY <2>1, <2>2 DEF Actor
<1>2. ASSUME NEW w \in Worker, Request(w)
      PROVE  InHand'
  BY <1>2, WorkerAside, AsideKeeps
<1>3. CASE Handler
  BY <1>3, ClusterPopKeeps, ClusterSubmitKeeps, ClusterCollectKeeps,
     ClustersEndKeeps, ServerPopKeeps, ServerStopKeeps, SetsEndKeeps,
     ServersEndKeeps, UnwindKeeps DEF Handler
<1>4. QED
  BY <1>1, <1>2, <1>3, SignalKeeps, StillKeeps DEF Next

\* A handler is never ended by a KeyError for something that it has removed
\* itself, whatever the workers and the other handlers do meanwhile: for any
\* number of them.
THEOREM MissesOthers == Spec => []NoSelfTrip
<1> DEFINE IInv == TypeInv /\ InHand
<1>1. Init => IInv
  BY InitTypeInv, InitInHand
<1>2. IInv /\ [Next]_vars => IInv'
  BY NextTypeInv, NextInHand
<1>3. IInv => NoSelfTrip
  BY DEF InHand, Missing, NoSelfTrip
<1>4. QED
  BY <1>1, <1>2, <1>3, PTL DEF Spec

-----------------------------------------------------------------------------
(***************************************************************************)
(* What the end of the process leaves.                                     *)
(*                                                                         *)
(* A server that runs is registered, unless a worker is at it, or has been *)
(* since the signal, or a handler has it in hand.  When a handler has      *)
(* ended among the servers, all that is left is in the hands of executors, *)
(* and the process ends when these have ended.                             *)
(***************************************************************************)
\* o waits for its part x: for all parts, or for the one that has a command.
Waits(r, o, x) ==
  r[o] \in {"making", "parts"} \/ (r[o] = "hold" /\ r[x] \in {"hold", "ran"})

\* The jobs of a worker for the thing t: others are parts that it waits for.
Task(r, t) ==
  \A x \in Thing : r[x] \notin {"idle", "done", "raised"} =>
    x = t \/ \E o \in Thing : x \in Parts[o] /\ Waits(r, o, x)

Tasks == \A w \in Worker : Task(job[w], root[w])

Stopping(s) == \E k \in Level : job[k][s] = "stop"

\* The main thread is about to stop s.
InMain(s) == (On("sets") \/ On("servers")) /\ job[Depth][s] = "stop_main"

\* Before the first signal.
Kept ==
  signals = 0 => \A s \in running \ lost :
    \/ Registered(s)
    \/ \E w \in Worker : job[w][s] \in {"store", "stop", "hold", "ran"}

\* After it; and what is stored under the id of a server that the main thread
\* is about to stop is a request's.
Watched ==
  /\ signals > 0 => \A s \in running \ (touched \cup lost) :
       Registered(s) \/ Stopping(s) \/ InMain(s)
  /\ \A s \in Server : InMain(s) => registry[Id[s]] \in touched \cup {Nothing}

\* The second time that the servers are stopped nobody stores more of them.
LastRound ==
  On("servers") => \A s \in running \ (touched \cup lost) :
    Id[s] \in Top.todo \/ Stopping(s)

Leaves ==
  /\ leaving # "no" => signals > 0
  /\ leaving = "exit" =>
       \A s \in running \ (touched \cup lost) : Stopping(s)
  /\ exited => leaving = "exit" /\ stack = <<>>

Covered == Tasks /\ Kept /\ Watched /\ LastRound /\ Leaves

\* The ids of what is there at the beginning differ.
LEMMA InitIds ==
  ASSUME Init, NEW x \in created, NEW y \in created, Id[x] = Id[y]
  PROVE  x = y
<1>1. PICK S \in SUBSET Roots :
        /\ \A u, v \in S : Id[u] = Id[v] => u = v
        /\ created = UNION {Whole(u) : u \in S}
  BY DEF Init
<1>2. S \subseteq Thing
  BY DEF Roots
<1>3. PICK u \in S : x \in Whole(u)
  BY <1>1
<1>4. PICK v \in S : y \in Whole(v)
  BY <1>1
<1>5. x \in {u} \cup Below(u) /\ y \in {v} \cup Below(v)
  BY <1>3, <1>4 DEF Whole, Below
<1>6. x \in Thing /\ y \in Thing
  BY <1>2, <1>5, BelowTypes
<1>7. CASE x \notin Roots \/ y \notin Roots
  BY <1>6, <1>7, OwnId
<1>8. CASE x \in Roots /\ y \in Roots
  <2>1. x = u /\ y = v
    BY <1>2, <1>5, <1>8, BelowOwn
  <2>2. QED
    BY <1>1, <2>1
<1>9. QED
  BY <1>7, <1>8

LEMMA InitCovered == Init => Covered
<1> SUFFICES ASSUME Init
             PROVE  Covered
  OBVIOUS
<1>1. Tasks
  BY DEF Init, Tasks, Task, Actor, Idle
<1>2. Kept
  <2> SUFFICES ASSUME NEW s \in running
               PROVE  registry[Id[s]] = s
    BY DEF Kept, Registered
  <2>1. s \in Server /\ s \in Thing /\ s \in created /\ Id[s] \in Ids
    BY DEF Init, Thing, Ids
  <2>2. registry[Id[s]] = CHOOSE x \in created : Id[x] = Id[s]
    BY <2>1 DEF Init
  <2>3. PICK x \in created : registry[Id[s]] = x /\ Id[x] = Id[s]
    BY <2>1, <2>2
  <2>4. QED
    BY <2>1, <2>3, InitIds
<1>3. Watched /\ LastRound /\ Leaves
  BY DEF Init, Watched, InMain, LastRound, Leaves, On
<1>4. QED
  BY <1>1, <1>2, <1>3 DEF Covered

\* While the thing itself does not wait, nothing else is at work.
LEMMA TaskAlone ==
  ASSUME NEW r, NEW t, Task(r, t),
         t \in Thing => r[t] \notin {"making", "parts", "hold"},
         NEW z \in Thing, z # t
  PROVE  r[z] \in {"idle", "done", "raised"}
<1> SUFFICES ASSUME r[z] \notin {"idle", "done", "raised"}
             PROVE  FALSE
  OBVIOUS
<1>1. PICK o \in Thing : z \in Parts[o] /\ Waits(r, o, z)
  BY DEF Task
<1>2. PICK u \in Thing : o \in Parts[u] /\ Waits(r, u, o)
  BY <1>1 DEF Task, Waits
<1>3. u \in Cluster
  BY <1>1, <1>2, OwnerOfSet
<1>4. PICK v \in Thing : u \in Parts[v]
  BY <1>2 DEF Task, Waits
<1>5. u \in ReplicaSet
  BY <1>2, <1>4, OwnerOfSet
<1>6. QED
  BY <1>3, <1>5, KindsAssumption

\* What the thing is a part of is not at work.
LEMMA TaskUp ==
  ASSUME NEW r, NEW t \in Thing, Task(r, t), NEW o \in Thing, t \in Parts[o]
  PROVE  r[o] \in {"idle", "done", "raised"}
<1> SUFFICES ASSUME r[o] \notin {"idle", "done", "raised"}
             PROVE  FALSE
  OBVIOUS
<1>1. o # t
  BY BelowParts, BelowTypes
<1>2. PICK u \in Thing : o \in Parts[u] /\ Waits(r, u, o)
  BY <1>1 DEF Task
<1>3. u \in Cluster /\ t \in Server
  <2>1. u \in Cluster /\ o \in ReplicaSet
    BY <1>2, OwnerOfSet
  <2>2. o \in Thing \ Cluster
    BY <2>1, KindsAssumption
  <2>3. QED
    BY <2>1, <2>2, SetParts
<1>4. PICK v \in Thing : u \in Parts[v]
  BY <1>2, <1>3, KindsAssumption DEF Task, Waits
<1>5. u \in ReplicaSet
  BY <1>2, <1>4, OwnerOfSet
<1>6. QED
  BY <1>3, <1>5, KindsAssumption

\* One job goes on, and when it has waited those that it has waited for have
\* ended.
LEMMA TaskGoto ==
  ASSUME NEW r \in [Thing -> Label], NEW t, Task(r, t), NEW x \in Thing,
         r[x] \notin {"idle", "done", "raised"},
         \A y \in Parts[x] : ~Waits(r, x, y) \/ r[y] \in {"done", "raised"},
         NEW l, r[x] \in {"hold", "ran"} => l \in {"ran", "done", "raised"},
         NEW q, q = [r EXCEPT ![x] = l]
  PROVE  Task(q, t)
<1> SUFFICES ASSUME NEW z \in Thing, q[z] \notin {"idle", "done", "raised"},
                    z # t
             PROVE  \E o \in Thing : z \in Parts[o] /\ Waits(q, o, z)
  BY DEF Task
<1>1. r[z] \notin {"idle", "done", "raised"}
  OBVIOUS
<1>2. PICK o \in Thing : z \in Parts[o] /\ Waits(r, o, z)
  BY <1>1 DEF Task
<1>3. o # x
  BY <1>1, <1>2
<1>4. QED
  BY <1>2, <1>3 DEF Waits

\* A set has a command run by a part.
LEMMA TaskPasses ==
  ASSUME NEW r \in [Thing -> Label], NEW t, Task(r, t), NEW x \in Thing,
         r[x] = "hold", NEW p \in Parts[x], p \in Thing, r[p] = "idle",
         NEW q, q = [r EXCEPT ![p] = "hold"]
  PROVE  Task(q, t)
<1> SUFFICES ASSUME NEW z \in Thing, q[z] \notin {"idle", "done", "raised"},
                    z # t
             PROVE  \E o \in Thing : z \in Parts[o] /\ Waits(q, o, z)
  BY DEF Task
<1>1. CASE z = p
  <2>1. q[x] = "hold" /\ q[p] = "hold"
    OBVIOUS
  <2>2. QED
    BY <1>1, <2>1 DEF Waits
<1>2. CASE z # p
  <2>1. PICK o \in Thing : z \in Parts[o] /\ Waits(r, o, z)
    BY <1>2 DEF Task
  <2>2. o # p
    BY <2>1 DEF Waits
  <2>3. QED
    BY <1>2, <2>1, <2>2 DEF Waits
<1>3. QED
  BY <1>1, <1>2

\* x begins to wait for its parts.
LEMMA TaskFan ==
  ASSUME NEW r \in [Thing -> Label], NEW t, Task(r, t), NEW x \in Thing,
         r[x] \in {"make", "pop"},
         NEW q \in [Thing -> Label],
         Parts[x] # {} => q[x] \in {"making", "parts"},
         \A z \in Thing : z # x /\ z \notin Parts[x] => q[z] = r[z]
  PROVE  Task(q, t)
<1> SUFFICES ASSUME NEW z \in Thing, q[z] \notin {"idle", "done", "raised"},
                    z # t
             PROVE  \E o \in Thing : z \in Parts[o] /\ Waits(q, o, z)
  BY DEF Task
<1>1. CASE z \in Parts[x]
  BY <1>1 DEF Waits
<1>2. CASE z \notin Parts[x]
  <2>1. r[z] \notin {"idle", "done", "raised"}
    BY <1>2
  <2>2. PICK o \in Thing : z \in Parts[o] /\ Waits(r, o, z)
    BY <2>1 DEF Task
  <2>3. o # x
    BY <2>2 DEF Waits
  <2>4. o \notin Parts[x]
    <3> SUFFICES ASSUME o \in Parts[x]
                 PROVE  FALSE
      OBVIOUS
    <3>1. x \in Cluster
      BY <2>2, OwnerOfSet
    <3>2. o = t
      <4> SUFFICES ASSUME o # t
                   PROVE  FALSE
        OBVIOUS
      <4>1. PICK u \in Thing : o \in Parts[u] /\ Waits(r, u, o)
        BY <2>2 DEF Task, Waits
      <4>2. u = x
        BY <4>1, RegistriesAssumption
      <4>3. QED
        BY <4>1, <4>2 DEF Waits
    <3>3. x # t
      BY <3>2, BelowParts, BelowTypes
    <3>4. PICK u \in Thing : x \in Parts[u]
      BY <3>3 DEF Task
    <3>5. x \in ReplicaSet
      BY <3>4, OwnerOfSet
    <3>6. QED
      BY <3>1, <3>5, KindsAssumption
  <2>5. QED
    BY <1>2, <2>2, <2>3, <2>4 DEF Waits
<1>3. QED
  BY <1>1, <1>2

\* A worker finds another thing under the id.
LEMMA TaskSwap ==
  ASSUME NEW r \in [Thing -> Label], NEW t, Task(r, t), NEW x \in Thing,
         r[x] = "pop", NEW y \in Thing, {x, y} \subseteq Roots,
         NEW q, Parts[y] # {} => q[y] = "parts",
         \A z \in Thing : z # y /\ z \notin Parts[y] =>
           q[z] = "idle" \/ (z # x /\ q[z] = r[z])
  PROVE  x = t /\ Task(q, y)
<1>1. x = t
  BY DEF Task, Roots
<1>2. \A z \in Thing : z # x => r[z] \in {"idle", "done", "raised"}
  BY <1>1, TaskAlone
<1>3. Task(q, y)
  <2> SUFFICES ASSUME NEW z \in Thing, q[z] \notin {"idle", "done", "raised"},
                      z # y
               PROVE  z \in Parts[y] /\ Waits(q, y, z)
    BY DEF Task
  <2>1. z \in Parts[y]
    BY <1>2
  <2>2. QED
    BY <2>1 DEF Waits
<1>4. QED
  BY <1>1, <1>3

\* What x is to begin with, or has been taken away from, has not been made or
\* stopped with it.
LEMMA TaskPart ==
  ASSUME NEW r, NEW t, Task(r, t), NEW x \in Thing, r[x] \in {"make", "pop"},
         NEW s \in Parts[x]
  PROVE  r[s] \notin {"store", "stop", "hold", "ran"}
<1> SUFFICES ASSUME r[s] \in {"store", "stop", "hold", "ran"}
             PROVE  FALSE
  OBVIOUS
<1>1. s \in Thing /\ s # x
  BY BelowParts, BelowTypes
<1>2. s # t
  BY <1>1, TaskUp
<1>3. PICK o \in Thing : s \in Parts[o] /\ Waits(r, o, s)
  BY <1>1, <1>2 DEF Task
<1>4. o = x
  BY <1>3, RegistriesAssumption
<1>5. QED
  BY <1>3, <1>4 DEF Waits

\* The workers' jobs when w sets its own.
LEMMA WorkerRow ==
  ASSUME TypeInv, NEW w \in Worker, NEW q, job' = [job EXCEPT ![w] = q]
  PROVE  job'[w] = q /\ \A v \in Worker : v # w => job'[v] = job[v]
BY DEF TypeInv, TypeOK, Actor

LEMMA WorkerGoto ==
  ASSUME TypeInv, NEW w \in Worker, NEW x \in Thing, NEW l, Goto(w, x, l)
  PROVE  /\ job[w] \in [Thing -> Label]
         /\ job'[w] = [job[w] EXCEPT ![x] = l]
         /\ job'[w][x] = l
         /\ \A z \in Thing : z # x => job'[w][z] = job[w][z]
         /\ \A v \in Worker : v # w => job'[v] = job[v]
BY DEF TypeInv, TypeOK, Actor, Goto

\* A worker takes what the id names.
LEMMA WorkerTakes ==
  ASSUME TypeInv, NEW w \in Worker, NEW x \in Thing, Pop(w, x),
         NEW y, y = registry[Id[x]], y # Nothing
  PROVE  /\ y \in Thing /\ Registered(y) /\ Touch(w, y)
         /\ x # y => {x, y} \subseteq Roots
         /\ registry' = [registry EXCEPT ![Id[y]] = Nothing]
         /\ job'[w][y] = IF y \in Server THEN "stop" ELSE "parts"
         /\ \A z \in Parts[y] : job'[w][z] = "pop"
         /\ \A z \in Thing : z # y /\ z \notin Parts[y] =>
              job'[w][z] = IF z = x THEN "idle" ELSE job[w][z]
         /\ \A v \in Worker : v # w => job'[v] = job[v]
         /\ root' = IF root[w] = x THEN [root EXCEPT ![w] = y] ELSE root
<1> DEFINE jobs  == [job[w] EXCEPT ![x] = "idle"]
           after == IF y \in Server THEN StopNext(jobs, y)
                    ELSE CleanupNext(jobs, y)
<1>1. y \in Thing /\ Registered(y) /\ Id[y] = Id[x] /\ Take(w, y)
  BY IdTyped, Named DEF Pop, TypeInv
<1>2. x # y => {x, y} \subseteq Roots
  BY <1>1, KindOfId
<1>3. job' = [job EXCEPT ![w] = after] /\ Touch(w, y)
  BY DEF Pop
<1>4. job'[w] = after /\ \A v \in Worker : v # w => job'[v] = job[v]
  BY <1>3, WorkerRow
<1>5. /\ \A z \in Parts[y] : z \in Thing /\ z # y
      /\ y \in Server => Parts[y] = {}
      /\ job[w] \in [Thing -> Label]
  BY <1>1, BelowParts, BelowTypes, RegistriesAssumption
     DEF TypeInv, TypeOK, Actor
<1>6. /\ after[y] = IF y \in Server THEN "stop" ELSE "parts"
      /\ \A z \in Parts[y] : after[z] = "pop"
      /\ \A z \in Thing : z # y /\ z \notin Parts[y] =>
           after[z] = IF z = x THEN "idle" ELSE job[w][z]
  BY <1>1, <1>5 DEF StopNext, CleanupNext
<1>7. root' = IF root[w] = x THEN [root EXCEPT ![w] = y] ELSE root
  BY DEF Pop
<1>8. /\ job'[w][y] = IF y \in Server THEN "stop" ELSE "parts"
      /\ \A z \in Parts[y] : job'[w][z] = "pop"
      /\ \A z \in Thing : z # y /\ z \notin Parts[y] =>
           job'[w][z] = IF z = x THEN "idle" ELSE job[w][z]
  <2> HIDE DEF after
  <2>1. QED
    BY <1>4, <1>6
<1>9. QED
  BY <1>1, <1>2, <1>3, <1>4, <1>7, <1>8 DEF Take

\* A request comes when the last one has been answered: nothing of it is left.
LEMMA WorkerFree ==
  ASSUME TypeInv, Tasks, NEW w \in Worker, NEW x, Accept(w, x), NEW z \in Thing
  PROVE  job[w][z] \in {"idle", "done", "raised"}
<1>1. root[w] \in Thing => job[w][root[w]] \in {"done", "raised"}
  BY RegistriesAssumption DEF Accept, Ended
<1>2. CASE z = root[w]
  BY <1>1, <1>2
<1>3. CASE z # root[w]
  <2>1. Task(job[w], root[w])
    BY DEF Tasks
  <2>2. QED
    BY <1>1, <1>3, <2>1, TaskAlone
<1>4. QED
  BY <1>2, <1>3

LEMMA RequestTasks ==
  ASSUME TypeInv, Tasks, NEW w \in Worker, Request(w)
  PROVE  Tasks'
<1>1. ASSUME NEW x \in Thing, NEW l, Accept(w, x), Begin(w, x, l)
      PROVE  Tasks'
  <2>1. /\ job'[w] = [Idle EXCEPT ![x] = l]
        /\ \A v \in Worker : v # w => job'[v] = job[v]
    BY <1>1, WorkerRow DEF Begin
  <2>2. root'[w] = x /\ \A v \in Worker : v # w => root'[v] = root[v]
    BY <1>1 DEF Accept, TypeInv, TypeOK
  <2>3. Task(job'[w], x)
    BY <2>1 DEF Task, Idle
  <2>4. QED
    BY <2>1, <2>2, <2>3 DEF Tasks
<1>2. ASSUME NEW x \in Thing, NEW l \in {"ran", "done", "raised"},
             Goto(w, x, l), root' = root, job[w][x] \in {"hold", "ran"},
             \A p \in Parts[x] : job[w][p] \notin {"hold", "ran"}
      PROVE  Tasks'
  <2>1. Task(job[w], root[w])
    BY DEF Tasks
  <2>2. /\ job[w] \in [Thing -> Label]
        /\ job'[w] = [job[w] EXCEPT ![x] = l]
    BY <1>2, WorkerGoto
  <2>3. \A y \in Parts[x] : ~Waits(job[w], x, y)
    BY <1>2 DEF Waits
  <2>4. Task(job'[w], root[w])
    BY <1>2, <2>1, <2>2, <2>3, TaskGoto
  <2>5. QED
    BY <1>2, <2>4, WorkerGoto DEF Tasks
<1>3. ASSUME NEW x \in Thing, CommandPart(w, x)
      PROVE  Tasks'
  <2>1. PICK p \in Parts[x] : Goto(w, p, "hold")
    BY <1>3 DEF CommandPart
  <2>2. /\ p \in Thing /\ root' = root
        /\ job[w][x] = "hold" /\ job[w][p] = "idle"
    BY <1>3, BelowParts DEF CommandPart, requestVars
  <2>3. /\ job[w] \in [Thing -> Label]
        /\ job'[w] = [job[w] EXCEPT ![p] = "hold"]
        /\ \A v \in Worker : v # w => job'[v] = job[v]
    BY <2>1, <2>2, WorkerGoto
  <2>4. Task(job[w], root[w])
    BY DEF Tasks
  <2>5. Task(job'[w], root[w])
    BY <2>2, <2>3, <2>4, TaskPasses
  <2>6. QED
    BY <2>2, <2>3, <2>5 DEF Tasks
<1>4. ASSUME NEW x \in Thing, CommandRuns(w, x)
      PROVE  Tasks'
  <2>1. Parts[x] = {}
    BY <1>4, RegistriesAssumption DEF CommandRuns
  <2>2. QED
    BY <1>2, <1>4, <2>1 DEF CommandRuns, requestVars
<1>5. ASSUME NEW x \in Thing, CommandEnds(w, x) \/ CommandFails(w, x)
      PROVE  Tasks'
  BY <1>2, <1>5 DEF CommandEnds, CommandFails, Commanding, requestVars
<1>6. QED
  BY <1>1, <1>3, <1>4, <1>5 DEF Request, Create, Command, Remove, Roots

LEMMA JobTasks ==
  ASSUME TypeInv, TypeInv', Tasks, NEW w \in Worker, NEW x \in Thing, Job(w, x)
  PROVE  Tasks'
<1>1. /\ Task(job[w], root[w])
      /\ job[w] \in [Thing -> Label] /\ job'[w] \in [Thing -> Label]
  BY DEF Tasks, TypeInv, TypeOK, Actor
<1>2. ASSUME NEW l, Goto(w, x, l), root' = root,
             job[w][x] \notin {"idle", "done", "raised", "hold", "ran"},
             job[w][x] \in {"making", "parts"} => PartsEnded(w, x)
      PROVE  Tasks'
  <2>1. job'[w] = [job[w] EXCEPT ![x] = l]
    BY <1>2, WorkerGoto
  <2>2. \A y \in Parts[x] :
          ~Waits(job[w], x, y) \/ job[w][y] \in {"done", "raised"}
    BY <1>2 DEF PartsEnded, Ended, Waits
  <2>3. Task(job'[w], root[w])
    BY <1>1, <1>2, <2>1, <2>2, TaskGoto
  <2>4. QED
    BY <1>2, <2>3, WorkerGoto DEF Tasks
<1>3. CASE Make(w, x) /\ x \notin Server
  <2> DEFINE after == [y \in Thing |-> IF y = x THEN "making"
                         ELSE IF y \in Parts[x] THEN "make" ELSE job[w][y]]
  <2>1. job' = [job EXCEPT ![w] = after] /\ root' = root /\ job[w][x] = "make"
    BY <1>3 DEF Make, Submit, requestVars
  <2>2. job'[w] = after /\ \A v \in Worker : v # w => job'[v] = job[v]
    BY <2>1, WorkerRow
  <2>3. /\ after[x] = "making"
        /\ \A z \in Thing : z # x /\ z \notin Parts[x] => after[z] = job[w][z]
    OBVIOUS
  <2>4. Task(after, root[w])
    <3> HIDE DEF after
    <3>1. QED
      BY <1>1, <2>1, <2>2, <2>3, TaskFan
  <2>5. QED
    BY <2>1, <2>2, <2>4 DEF Tasks
<1>4. CASE Pop(w, x) /\ registry[Id[x]] # Nothing
  <2>1. PICK y : y = registry[Id[x]] /\ y # Nothing
    BY <1>4
  <2>2. /\ y \in Thing
        /\ x # y => {x, y} \subseteq Roots
        /\ job'[w][y] = IF y \in Server THEN "stop" ELSE "parts"
        /\ \A z \in Thing : z # y /\ z \notin Parts[y] =>
             job'[w][z] = IF z = x THEN "idle" ELSE job[w][z]
        /\ \A v \in Worker : v # w => job'[v] = job[v]
        /\ root' = IF root[w] = x THEN [root EXCEPT ![w] = y] ELSE root
    BY <1>4, <2>1, WorkerTakes
  <2>3. job[w][x] = "pop"
    BY <1>4 DEF Pop
  <2>4. CASE y = x
    <3>1. root' = root
      BY <2>2, <2>4 DEF TypeInv, TypeOK
    <3>2. Parts[x] # {} => job'[w][x] = "parts"
      BY <2>2, <2>4, RegistriesAssumption
    <3>3. \A z \in Thing : z # x /\ z \notin Parts[x] => job'[w][z] = job[w][z]
      BY <2>2, <2>4
    <3>4. Task(job'[w], root[w])
      BY <1>1, <2>3, <3>2, <3>3, TaskFan
    <3>5. QED
      BY <2>2, <3>1, <3>4 DEF Tasks
  <2>5. CASE y # x
    <3>1. Parts[y] # {} => job'[w][y] = "parts"
      BY <2>2, RegistriesAssumption
    <3>2. \A z \in Thing : z # y /\ z \notin Parts[y] =>
            job'[w][z] = "idle" \/ (z # x /\ job'[w][z] = job[w][z])
      BY <2>2
    <3>3. x = root[w] /\ Task(job'[w], y)
      BY <1>1, <2>2, <2>3, <2>5, <3>1, <3>2, TaskSwap
    <3>4. root'[w] = y /\ \A v \in Worker : v # w => root'[v] = root[v]
      BY <2>2, <3>3 DEF TypeInv, TypeOK
    <3>5. QED
      BY <2>2, <3>3, <3>4 DEF Tasks
  <2>6. QED
    BY <2>4, <2>5
<1>5. CASE Make(w, x) /\ x \in Server
  BY <1>2, <1>5 DEF Make, requestVars
<1>6. CASE Pop(w, x) /\ registry[Id[x]] = Nothing
  BY <1>2, <1>6 DEF Pop
<1>7. CASE Made(w, x) \/ PartsGone(w, x)
  BY <1>2, <1>7 DEF Made, PartsGone, requestVars
<1>8. CASE MakeFails(w, x) \/ Store(w, x) \/ Stop(w, x)
  BY <1>2, <1>8 DEF MakeFails, Store, Stop, requestVars
<1>9. QED
  BY <1>3, <1>4, <1>5, <1>6, <1>7, <1>8 DEF Job

\* A server that has been lost stays lost.
LEMMA WorkerLost ==
  ASSUME NEW w \in Worker, Request(w) \/ \E x \in Thing : Job(w, x)
  PROVE  lost \subseteq lost' /\ touched \subseteq touched'
<1>1. CASE Request(w)
  BY <1>1 DEF Request, Create, Command, CommandPart, CommandRuns, CommandEnds,
              CommandFails, Remove, Put, Touch
<1>2. ASSUME NEW x \in Thing, Job(w, x)
      PROVE  lost \subseteq lost' /\ touched \subseteq touched'
  BY <1>2 DEF Job, Make, MakeFails, Made, Store, Pop, Stop, PartsGone, Put,
              Touch, history
<1>3. QED
  BY <1>1, <1>2

LEMMA WorkerKept ==
  ASSUME TypeInv, Tasks, Kept, NEW w \in Worker,
         Request(w) \/ \E x \in Thing : Job(w, x)
  PROVE  Kept'
<1>1. signals' = signals
  BY DEF Request, Create, Command, CommandPart, CommandRuns, CommandEnds,
         CommandFails, Remove, Job, Make, MakeFails, Made, Store, Pop, Stop,
         PartsGone, mainVars
<1>2. lost \subseteq lost'
  BY WorkerLost
<1> SUFFICES ASSUME signals = 0, NEW s \in running', s \notin lost'
             PROVE  \/ Registered(s)'
                    \/ \E v \in Worker :
                         job'[v][s] \in {"store", "stop", "hold", "ran"}
  BY <1>1 DEF Kept
<1> DEFINE Hands  == {"store", "stop", "hold", "ran"}
           InWork == \E v \in Worker : job'[v][s] \in Hands
           At(v)  == job[v][s] \in Hands
<1>3. CASE s \notin running
  <2>1. ASSUME NEW x \in Thing, NEW l \in {"store", "ran"}, Goto(w, x, l),
               s = x
        PROVE  InWork
    <3>1. job'[w][x] = l
      BY <2>1 DEF Goto, TypeInv, TypeOK, Actor
    <3>2. QED
      BY <2>1, <3>1
  <2>2. CASE Request(w)
    <3>1. PICK x \in Thing : CommandRuns(w, x) /\ s = x
      BY <1>3, <2>2
         DEF Request, Create, Command, CommandPart, CommandRuns, CommandEnds,
             CommandFails, Remove
    <3>2. QED
      BY <2>1, <3>1 DEF CommandRuns
  <2>3. ASSUME NEW x \in Thing, Job(w, x)
        PROVE  InWork
    <3>1. CASE MakeFails(w, x)
      BY <1>3, <3>1 DEF MakeFails
    <3>2. CASE ~MakeFails(w, x)
      <4>1. Make(w, x) /\ x \in Server /\ s = x
        BY <1>3, <2>3, <3>2 DEF Job, Make, Made, Store, Pop, Stop, PartsGone
      <4>2. QED
        BY <2>1, <4>1 DEF Make
    <3>3. QED
      BY <3>1, <3>2
  <2>4. QED
    BY <2>2, <2>3
<1>4. CASE s \in running
  <2>1. s \in Server /\ s \in Thing /\ Id[s] \in Ids
    BY <1>4 DEF TypeInv, TypeOK, Thing, Ids
  <2>2. Registered(s) \/ \E v \in Worker : At(v)
    BY <1>2, <1>4 DEF Kept
  <2>3. ASSUME NEW x \in Thing, Put(x), Registered(s) \/ x = s
        PROVE  Registered(s)'
    <3>1. CASE x # s /\ Id[x] = Id[s]
      <4>1. registry[Id[x]] = s
        BY <2>3, <3>1 DEF Registered
      <4>2. s \in lost'
        BY <1>4, <2>3, <3>1, <4>1 DEF Put
      <4>3. QED
        BY <4>2
    <3>2. QED
      BY <2>1, <2>3, <3>1 DEF Put, Registered, TypeInv, TypeOK
  <2>4. ASSUME NEW x \in Thing, NEW l, Goto(w, x, l), x # s \/ ~At(w),
               NEW v \in Worker, At(v)
        PROVE  InWork
    <3>1. job'[v][s] = job[v][s]
      <4>1. /\ \A z \in Thing : z # x => job'[w][z] = job[w][z]
            /\ \A u \in Worker : u # w => job'[u] = job[u]
        BY <2>4, WorkerGoto
      <4>2. QED
        BY <2>1, <2>4, <4>1
    <3>2. QED
      BY <2>4, <3>1
  <2>5. CASE Request(w)
    <3>1. ASSUME NEW x \in Thing, CommandEnds(w, x)
          PROVE  Registered(s)' \/ InWork
      <4>1. Goto(w, x, "done") /\ Put(x)
        BY <3>1 DEF CommandEnds
      <4>2. QED
        BY <2>2, <2>3, <2>4, <4>1
    <3>2. ASSUME NEW x \in Thing, NEW l, Accept(w, x), Begin(w, x, l),
                 registry' = registry
          PROVE  Registered(s)' \/ InWork
      <4>1. ~At(w)
        BY <2>1, <3>2, WorkerFree
      <4>2. \A v \in Worker : v # w => job'[v] = job[v]
        BY <3>2, WorkerRow DEF Begin
      <4>3. QED
        BY <2>2, <3>2, <4>1, <4>2 DEF Registered
    <3>3. ASSUME NEW x \in Thing, NEW l, Goto(w, x, l), registry' = registry,
                 x = s /\ At(w) => l \in Hands
          PROVE  Registered(s)' \/ InWork
      <4>1. job'[w][x] = l
        BY <3>3 DEF Goto, TypeInv, TypeOK, Actor
      <4>2. CASE x = s /\ At(w)
        BY <3>3, <4>1, <4>2
      <4>3. CASE x # s \/ ~At(w)
        BY <2>2, <2>4, <3>3, <4>3 DEF Registered
      <4>4. QED
        BY <4>2, <4>3
    <3>4. ASSUME NEW x \in Thing, CommandPart(w, x)
          PROVE  Registered(s)' \/ InWork
      <4>1. PICK p \in Parts[x] : Goto(w, p, "hold")
        BY <3>4 DEF CommandPart
      <4>2. p \in Thing /\ registry' = registry
        BY <3>4, BelowParts DEF CommandPart
      <4>3. QED
        BY <3>3, <4>1, <4>2
    <3>5. ASSUME NEW x \in Thing, CommandRuns(w, x)
          PROVE  Registered(s)' \/ InWork
      BY <3>3, <3>5 DEF CommandRuns
    <3>6. ASSUME NEW x \in Thing, CommandFails(w, x)
          PROVE  Registered(s)' \/ InWork
      <4>1. CASE x = s
        BY <1>4, <3>6, <4>1 DEF CommandFails, Registered
      <4>2. CASE x # s
        BY <3>3, <3>6, <4>2 DEF CommandFails
      <4>3. QED
        BY <4>1, <4>2
    <3>7. QED
      BY <2>5, <3>1, <3>2, <3>4, <3>5, <3>6
         DEF Request, Create, Command, Remove, Roots
  <2>6. ASSUME NEW x \in Thing, Job(w, x)
        PROVE  Registered(s)' \/ InWork
    <3>1. Task(job[w], root[w])
      BY DEF Tasks
    <3>2. CASE Store(w, x)
      <4>1. Goto(w, x, "done") /\ Put(x)
        BY <3>2 DEF Store
      <4>2. QED
        BY <2>2, <2>3, <2>4, <4>1
    <3>3. CASE Pop(w, x) /\ registry[Id[x]] # Nothing
      <4>1. PICK y : y = registry[Id[x]] /\ y # Nothing
        BY <3>3
      <4>2. /\ y \in Thing
            /\ x # y => {x, y} \subseteq Roots
            /\ registry' = [registry EXCEPT ![Id[y]] = Nothing]
            /\ job'[w][y] = IF y \in Server THEN "stop" ELSE "parts"
            /\ \A z \in Thing : z # y /\ z \notin Parts[y] =>
                 job'[w][z] = IF z = x THEN "idle" ELSE job[w][z]
            /\ \A v \in Worker : v # w => job'[v] = job[v]
        BY <3>3, <4>1, WorkerTakes
      <4>3. CASE y = s
        BY <2>1, <4>2, <4>3
      <4>4. CASE y # s
        <5>1. Registered(s) => Registered(s)'
          BY <2>1, <4>1, <4>2, <4>4 DEF Registered, TypeInv, TypeOK
        <5>2. At(w) => InWork
          <6> SUFFICES ASSUME At(w)
                       PROVE  job'[w][s] = job[w][s]
            OBVIOUS
          <6>1. job[w][x] = "pop" /\ x # s
            BY <3>3 DEF Pop
          <6>2. s \notin Parts[y]
            <7>1. CASE y = x
              BY <3>1, <6>1, <7>1, TaskPart
            <7>2. CASE y # x
              <8>1. x = root[w]
                BY <3>1, <4>2, <6>1, <7>2 DEF Task, Roots
              <8>2. QED
                BY <2>1, <3>1, <6>1, <8>1, TaskAlone
            <7>3. QED
              BY <7>1, <7>2
          <6>3. QED
            BY <2>1, <4>2, <4>4, <6>1, <6>2
        <5>3. QED
          BY <2>2, <4>2, <5>1, <5>2
      <4>5. QED
        BY <4>3, <4>4
    <3>4. ASSUME NEW l, Goto(w, x, l), registry' = registry,
                 ~(x = s /\ At(w))
          PROVE  Registered(s)' \/ InWork
      BY <2>2, <2>4, <3>4 DEF Registered
    <3>5. CASE Make(w, x) /\ x \notin Server
      <4> DEFINE after == [y \in Thing |-> IF y = x THEN "making"
                             ELSE IF y \in Parts[x] THEN "make" ELSE job[w][y]]
      <4>1. job' = [job EXCEPT ![w] = after] /\ registry' = registry
              /\ job[w][x] = "make"
        BY <3>5 DEF Make, Submit
      <4>2. job'[w] = after /\ \A v \in Worker : v # w => job'[v] = job[v]
        BY <4>1, WorkerRow
      <4>3. At(w) => s \notin Parts[x]
        BY <3>1, <4>1, TaskPart
      <4>4. At(w) => job'[w][s] = job[w][s]
        BY <2>1, <3>5, <4>2, <4>3
      <4>5. QED
        BY <2>2, <4>1, <4>2, <4>4 DEF Registered
    <3>6. CASE Stop(w, x)
      <4>1. s # x /\ Goto(w, x, "done") /\ registry' = registry
        BY <3>6 DEF Stop
      <4>2. QED
        BY <3>4, <4>1
    <3>7. CASE Made(w, x) \/ PartsGone(w, x) \/ MakeFails(w, x)
      BY <3>4, <3>7 DEF Made, PartsGone, MakeFails
    <3>8. CASE Make(w, x) /\ x \in Server
      BY <3>4, <3>8 DEF Make
    <3>9. CASE Pop(w, x) /\ registry[Id[x]] = Nothing
      BY <3>4, <3>9 DEF Pop
    <3>10. QED
      BY <2>6, <3>2, <3>3, <3>5, <3>6, <3>7, <3>8, <3>9 DEF Job
  <2>7. QED
    BY <2>5, <2>6
<1>5. QED
  BY <1>3, <1>4

\* After a signal a worker marks what it is at, and leaves the rest alone.
LEMMA WorkerTouches ==
  ASSUME TypeInv, NEW w \in Worker,
         Request(w) \/ \E x \in Thing : Job(w, x)
  PROVE  /\ signals' = signals /\ exited' = exited
         /\ signals > 0 => \A s \in Server \ (touched' \cup lost') :
              /\ s \in running' => s \in running
              /\ s \in running' /\ Registered(s) => Registered(s)'
<1>1. signals' = signals /\ exited' = exited
  BY DEF Request, Create, Command, CommandPart, CommandRuns, CommandEnds,
         CommandFails, Remove, Job, Make, MakeFails, Made, Store, Pop, Stop,
         PartsGone, mainVars
<1>2. ASSUME signals > 0, NEW s \in Server, s \notin touched' \cup lost'
      PROVE  /\ s \in running' => s \in running
             /\ s \in running' /\ Registered(s) => Registered(s)'
  <2>1. s \in Thing /\ Id[s] \in Ids
    BY DEF Thing, Ids
  <2>2. \A x \in Thing : Touch(w, x) => x # s
    BY <1>2 DEF Touch, Whole
  <2>3. s \in running' => s \in running
    <3>1. CASE Request(w)
      BY <2>2, <3>1
         DEF Request, Create, Command, CommandPart, CommandRuns, CommandEnds,
             CommandFails, Remove, Roots
    <3>2. ASSUME NEW x \in Thing, Job(w, x)
          PROVE  s \in running' => s \in running
      BY <2>2, <3>2
         DEF Job, Make, MakeFails, Made, Store, Pop, Stop, PartsGone
    <3>3. QED
      BY <3>1, <3>2
  <2>4. CASE registry' = registry
    BY <2>3, <2>4 DEF Registered
  <2>5. ASSUME NEW x \in Thing, Store(w, x) \/ CommandEnds(w, x),
               s \in running', Registered(s)
        PROVE  Registered(s)'
    <3>1. running' = running /\ Put(x) /\ x # s
      BY <2>2, <2>5 DEF Store, CommandEnds
    <3>2. Id[x] # Id[s]
      <4> SUFFICES ASSUME Id[x] = Id[s]
                   PROVE  FALSE
        OBVIOUS
      <4>1. registry[Id[x]] = s
        BY <2>5 DEF Registered
      <4>2. s \in lost'
        BY <2>5, <3>1, <4>1 DEF Put
      <4>3. QED
        BY <1>2, <4>2
    <3>3. QED
      BY <2>1, <2>5, <3>1, <3>2 DEF Put, Registered, TypeInv, TypeOK
  <2>6. ASSUME NEW x \in Thing, Pop(w, x), registry[Id[x]] # Nothing,
               Registered(s)
        PROVE  Registered(s)'
    <3>1. PICK y : y = registry[Id[x]] /\ y # Nothing
      BY <2>6
    <3>2. /\ y \in Thing /\ Registered(y) /\ Touch(w, y)
          /\ registry' = [registry EXCEPT ![Id[y]] = Nothing]
      BY <2>6, <3>1, WorkerTakes
    <3>3. y # s
      BY <2>2, <3>2
    <3>4. QED
      BY <2>1, <2>6, <3>2, <3>3 DEF Registered, TypeInv, TypeOK
  <2>7. CASE Request(w)
    BY <2>3, <2>4, <2>5, <2>7
       DEF Request, Create, Command, CommandPart, CommandRuns, CommandFails,
           Remove, Roots
  <2>8. ASSUME NEW x \in Thing, Job(w, x)
        PROVE  s \in running' /\ Registered(s) => Registered(s)'
    BY <2>4, <2>5, <2>6, <2>8
       DEF Job, Make, MakeFails, Made, Pop, Stop, PartsGone
  <2>9. QED
    BY <2>3, <2>7, <2>8
<1>3. QED
  BY <1>1, <1>2

\* What it stores is touched.
LEMMA WorkerStores ==
  ASSUME TypeInv, NEW w \in Worker, signals > 0,
         Request(w) \/ \E x \in Thing : Job(w, x),
         NEW s \in Server
  PROVE  registry'[Id[s]] \in {registry[Id[s]], Nothing} \cup touched'
<1>1. s \in Thing /\ Id[s] \in Ids
  BY DEF Thing, Ids
<1>2. ASSUME NEW x \in Thing, Put(x), Touch(w, x)
      PROVE  registry'[Id[s]] \in {registry[Id[s]], Nothing} \cup touched'
  <2>1. CASE Id[x] = Id[s]
    <3>1. x \in Server
      BY <1>1, <2>1, KindOfId
    <3>2. x \in touched'
      BY <1>2, <3>1 DEF Touch, Whole
    <3>3. QED
      BY <1>1, <1>2, <2>1, <3>2 DEF Put, TypeInv, TypeOK
  <2>2. CASE Id[x] # Id[s]
    BY <1>1, <1>2, <2>2 DEF Put, TypeInv, TypeOK
  <2>3. QED
    BY <2>1, <2>2
<1>3. ASSUME NEW y, Take(w, y)
      PROVE  registry'[Id[s]] \in {registry[Id[s]], Nothing}
  BY <1>1, <1>3 DEF Take, TypeInv, TypeOK
<1>4. CASE Request(w)
  BY <1>2, <1>4
     DEF Request, Create, Command, CommandPart, CommandRuns, CommandEnds,
         CommandFails, Remove, Roots
<1>5. ASSUME NEW x \in Thing, Job(w, x)
      PROVE  registry'[Id[s]] \in {registry[Id[s]], Nothing} \cup touched'
  BY <1>2, <1>3, <1>5
     DEF Job, Make, MakeFails, Made, Store, Pop, Stop, PartsGone
<1>6. QED
  BY <1>4, <1>5

LEMMA WorkerCovered ==
  ASSUME TypeInv, TypeInv', Covered, NEW w \in Worker,
         Request(w) \/ \E x \in Thing : Job(w, x)
  PROVE  Covered'
<1>1. /\ \A k \in Level : job'[k] = job[k]
      /\ stack' = stack /\ leaving' = leaving
  BY WorkerAside DEF Aside
<1>2. /\ signals' = signals /\ exited' = exited
      /\ signals > 0 => \A s \in Server \ (touched' \cup lost') :
           /\ s \in running' => s \in running
           /\ s \in running' /\ Registered(s) => Registered(s)'
  BY WorkerTouches
<1>3. touched \subseteq touched' /\ lost \subseteq lost'
  BY WorkerLost
<1>4. Tasks' /\ Kept'
  BY RequestTasks, JobTasks, WorkerKept DEF Covered
<1>5. /\ Depth' = Depth /\ Top' = Top
      /\ On("sets")' = On("sets") /\ On("servers")' = On("servers")
  BY <1>1, SameTop
<1>6. On("sets") \/ On("servers") => Depth \in Level /\ signals > 0
  <2>1. stack # <<>> => Depth \in Level
    BY DepthIsLevel DEF TypeInv
  <2>2. Depth \in Level => signals > 0
    BY RegistriesAssumption DEF TypeInv, TypeOK, Nested, Depth, Level
  <2>3. QED
    BY <2>1, <2>2 DEF On
<1>7. \A s \in Server : /\ Stopping(s) => Stopping(s)'
                        /\ InMain(s)' <=> InMain(s)
  BY <1>1, <1>5, <1>6 DEF Stopping, InMain
<1>8. running' \subseteq Server
  BY DEF TypeInv, TypeOK
<1>9. Watched'
  <2>1. signals > 0 => \A s \in running' \ (touched' \cup lost') :
          Registered(s)' \/ Stopping(s)' \/ InMain(s)'
    BY <1>2, <1>3, <1>7, <1>8 DEF Covered, Watched
  <2>2. ASSUME NEW s \in Server, InMain(s)
        PROVE  registry'[Id[s]] \in touched' \cup {Nothing}
    <3>1. signals > 0
      BY <1>6, <2>2 DEF InMain
    <3>2. registry'[Id[s]] \in {registry[Id[s]], Nothing} \cup touched'
      BY <3>1, WorkerStores
    <3>3. QED
      BY <1>3, <2>2, <3>2 DEF Covered, Watched
  <2>3. QED
    BY <1>2, <1>7, <2>1, <2>2 DEF Watched
<1>10. LastRound'
  BY <1>1, <1>2, <1>3, <1>5, <1>6, <1>7, <1>8 DEF Covered, LastRound
<1>11. Leaves'
  BY <1>1, <1>2, <1>3, <1>7, <1>8 DEF Covered, Leaves
<1>12. QED
  BY <1>4, <1>9, <1>10, <1>11 DEF Covered

\* Steps that leave the workers' jobs alone.
LEMMA TasksStay ==
  ASSUME Tasks, root' = root, \A w \in Worker : job'[w] = job[w]
  PROVE  Tasks'
BY DEF Tasks

LEMMA UnderWay ==
  ASSUME TypeInv
  PROVE  /\ Depth \in Level => signals > 0
         /\ stack # <<>> => Depth \in Level
<1>1. stack # <<>> => Depth \in Level
  BY DepthIsLevel DEF TypeInv
<1>2. Depth \in Level => signals > 0
  BY RegistriesAssumption DEF TypeInv, TypeOK, Nested, Depth, Level
<1>3. QED
  BY <1>1, <1>2

LEMMA LevelCovered ==
  ASSUME TypeInv, InHand, Covered, NEW k \in Level, NEW x \in Thing, Job(k, x)
  PROVE  Covered'
<1>1. /\ LevelStep(k, x)
      /\ Inner(job[k], x)
      /\ \A j \in Level : j # k => job'[j] = job[j]
      /\ \A z \in Thing : z # x /\ z \notin Parts[x] => job'[k][z] = job[k][z]
  BY LevelJob, LevelRows DEF InHand
<1>2. /\ signals' = signals /\ exited' = exited /\ touched' = touched
      /\ lost' = lost
      /\ stack' = stack /\ leaving' = leaving
      /\ Depth' = Depth /\ Top' = Top
      /\ On("sets")' = On("sets") /\ On("servers")' = On("servers")
  BY <1>1, SameTop DEF LevelStep, mainVars
<1>3. k <= Depth /\ ~(k = Depth /\ (On("sets") \/ On("servers")))
  BY <1>1, Types DEF InHand, Phase, Inner, Level
<1>4. signals > 0 /\ (stack # <<>> => Depth \in Level)
  <2>1. Depth \in Level
    BY <1>3, Types, RegistriesAssumption DEF TypeInv, TypeOK, Depth, Level
  <2>2. QED
    BY <2>1, UnderWay
<1>5. Tasks'
  <2>1. k \in Actor /\ k \notin Worker
    BY Types
  <2>2. \A w \in Worker : job'[w] = job[w]
    BY <1>1, <2>1
       DEF LevelStep, LevelMiss, LevelTake, LevelEnd, Goto, TypeInv, TypeOK,
           Actor
  <2>3. root' = root
    BY <2>1 DEF Job, Make, MakeFails, Made, Store, Pop, Stop, PartsGone,
                requestVars
  <2>4. QED
    BY <2>2, <2>3, TasksStay DEF Covered
<1>6. ASSUME NEW s \in running'
      PROVE  /\ s \in running /\ s \in Server /\ s \in Thing
             /\ Stopping(s) => Stopping(s)'
             /\ Registered(s) => Registered(s)' \/ Stopping(s)'
  <2>1. s \in running /\ s \in Server /\ s \in Thing /\ Id[s] \in Ids
    BY <1>1 DEF LevelStep, LevelMiss, LevelTake, LevelEnd, TypeInv, TypeOK,
                Thing, Ids
  <2>2. CASE LevelTake(k, x)
    <3>1. job'[k] = Popped(job[k], x)
      BY <2>2, Types DEF LevelTake, TypeInv, TypeOK
    <3>2. x \in Server => job'[k][x] = "stop"
      BY <3>1, BelowParts, BelowTypes DEF Popped
    <3>3. \A p \in Parts[x] : job[k][p] # "stop"
      BY <2>2, RowPop DEF InHand, Rows, LevelTake, Inner
    <3>4. ASSUME NEW j \in Level, job[j][s] = "stop"
          PROVE  job'[j][s] = "stop"
      BY <1>1, <2>1, <2>2, <3>3, <3>4 DEF LevelTake
    <3>5. x \in Thing \ Roots
      BY <2>2, RowPop DEF InHand, Rows, LevelTake
    <3>6. Registered(s) /\ s # x => Registered(s)'
      BY <2>1, <2>2, <3>5, OwnId
         DEF LevelTake, Take, Registered, TypeInv, TypeOK
    <3>7. QED
      BY <2>1, <3>2, <3>4, <3>6 DEF Stopping
  <2>3. ASSUME NEW l, Goto(k, x, l), registry' = registry,
               job[k][x] = "stop" => s # x
        PROVE  /\ Stopping(s) => Stopping(s)'
               /\ Registered(s) => Registered(s)'
    <3>1. \A z \in Thing : z # x => job'[k][z] = job[k][z]
      BY <2>3, GotoRow
    <3>2. \A j \in Level : job[j][s] = "stop" => job'[j][s] = "stop"
      BY <1>1, <2>1, <2>3, <3>1
    <3>3. QED
      BY <2>3, <3>2 DEF Stopping, Registered
  <2>4. CASE ~LevelTake(k, x)
    <3>1. PICK l \in {"done", "raised"} :
            /\ Goto(k, x, l) /\ registry' = registry
            /\ job[k][x] = "stop" => s # x
      BY <1>1, <2>4 DEF LevelStep, LevelMiss, LevelEnd
    <3>2. QED
      BY <2>1, <2>3, <3>1
  <2>5. QED
    BY <2>1, <2>2, <2>4
<1>7. Kept'
  BY <1>2, <1>4 DEF Kept
<1>8. Watched'
  <2>1. \A s \in Server : InMain(s)' <=> InMain(s)
    <3>1. On("sets") \/ On("servers") => job'[Depth] = job[Depth]
      BY <1>1, <1>3, <1>4 DEF On
    <3>2. QED
      BY <1>2, <3>1 DEF InMain
  <2>2. \A s \in running' \ (touched \cup lost) :
          Registered(s)' \/ Stopping(s)' \/ InMain(s)'
    BY <1>4, <1>6, <2>1 DEF Covered, Watched
  <2>3. ASSUME NEW s \in Server
        PROVE  registry'[Id[s]] \in {registry[Id[s]], Nothing}
    <3>1. s \in Thing /\ Id[s] \in Ids
      BY DEF Thing, Ids
    <3>2. QED
      BY <1>1, <3>1
         DEF LevelStep, LevelMiss, LevelTake, LevelEnd, Take, TypeInv, TypeOK
  <2>4. QED
    BY <1>2, <2>1, <2>2, <2>3 DEF Covered, Watched
<1>9. LastRound'
  BY <1>2, <1>6 DEF Covered, LastRound
<1>10. Leaves'
  BY <1>2, <1>6 DEF Covered, Leaves
<1>11. QED
  BY <1>5, <1>7, <1>8, <1>9, <1>10 DEF Covered

\* The handler's own steps lose no server out of an executor's hands.
LEMMA HandlerStopping ==
  ASSUME TypeInv, InHand, Handler
  PROVE  /\ stack # <<>> /\ Depth \in Level /\ signals > 0
         /\ signals' = signals /\ exited' = exited
         /\ touched' = touched /\ lost' = lost
         /\ root' = root /\ \A w \in Worker : job'[w] = job[w]
         /\ running' \subseteq running
         /\ \A s \in Server : Stopping(s) => Stopping(s)'
<1>1. stack # <<>>
  BY DEF Handler, ClusterPop, ClusterSubmit, ClusterCollect, ClustersEnd,
         ServerPop, ServerStop, SetsEnd, ServersEnd, Unwind, On
<1>2. /\ Depth \in Level /\ signals > 0 /\ Row(job[Depth])
      /\ Depth \in Actor /\ Depth \notin Worker
      /\ job[Depth] \in [Thing -> Label]
  BY <1>1, UnderWay, AtWork, Types DEF InHand
<1>3. /\ signals' = signals /\ exited' = exited
      /\ touched' = touched /\ lost' = lost
      /\ root' = root /\ running' \subseteq running
  BY DEF Handler, ClusterPop, ClusterSubmit, ClusterCollect, ClustersEnd,
         ServerPop, ServerStop, SetsEnd, ServersEnd, Unwind, Raise,
         requestVars, mainVars, history
<1>4. ASSUME NEW x \in Thing, NEW l, Goto(Depth, x, l), job[Depth][x] # "stop"
      PROVE  /\ \A w \in Worker : job'[w] = job[w]
             /\ \A s \in Server : Stopping(s) => Stopping(s)'
  <2>1. \A w \in Worker : job'[w] = job[w]
    BY <1>2, <1>4 DEF Goto, TypeInv, TypeOK, Actor
  <2>2. /\ \A z \in Thing : z # x => job'[Depth][z] = job[Depth][z]
        /\ \A j \in Level : j # Depth => job'[j] = job[j]
    BY <1>2, <1>4, GotoRow
  <2>3. \A j \in Level, s \in Thing : job[j][s] = "stop" => job'[j][s] = "stop"
    BY <1>4, <2>2
  <2>4. QED
    BY <2>1, <2>3 DEF Stopping, Thing
<1>5. ASSUME job' = [job EXCEPT ![Depth] = Idle],
             \A x \in Thing : job[Depth][x] # "stop"
      PROVE  /\ \A w \in Worker : job'[w] = job[w]
             /\ \A s \in Server : Stopping(s) => Stopping(s)'
  <2>1. \A w \in Worker : job'[w] = job[w]
    BY <1>2, <1>5 DEF TypeInv, TypeOK, Actor
  <2>2. \A j \in Level, s \in Thing : job[j][s] = "stop" => job'[j][s] = "stop"
    BY <1>2, <1>5, IdleRow
  <2>3. QED
    BY <2>1, <2>2 DEF Stopping, Thing
<1>6. ASSUME job' = job
      PROVE  /\ \A w \in Worker : job'[w] = job[w]
             /\ \A s \in Server : Stopping(s) => Stopping(s)'
  BY <1>6 DEF Stopping
<1>7. ASSUME NEW c \in Cluster, ClusterSubmit(c) \/ ClusterCollect(c)
      PROVE  /\ \A w \in Worker : job'[w] = job[w]
             /\ \A s \in Server : Stopping(s) => Stopping(s)'
  <2>1. c \in Thing /\ Parts[c] \subseteq Thing
    BY RegistriesAssumption DEF Thing
  <2>3. CASE ClusterSubmit(c)
    BY <1>4, <2>1, <2>3 DEF ClusterSubmit
  <2>4. CASE ClusterCollect(c)
    <3>1. CASE PartsRaised(Depth, c)
      BY <1>6, <2>4, <3>1 DEF ClusterCollect
    <3>2. CASE ~PartsRaised(Depth, c)
      <4>1. \A p \in Parts[c] : job[Depth][p] \in {"done", "raised"}
        BY <2>4 DEF ClusterCollect, PartsEnded, Ended
      <4>2. job[Depth][c] # "idle"
        BY <2>4 DEF ClusterCollect
      <4>3. \A x \in Thing : job[Depth][x] # "stop"
        BY <1>2, <4>1, <4>2, RowCollect
      <4>4. QED
        BY <1>5, <2>4, <3>2, <4>3 DEF ClusterCollect
    <3>3. QED
      BY <3>1, <3>2
  <2>5. QED
    BY <1>7, <2>3, <2>4
<1>8. ASSUME NEW i \in Ids, ClusterPop(i) \/ ServerPop(i)
      PROVE  /\ \A w \in Worker : job'[w] = job[w]
             /\ \A u \in Server : Stopping(u) => Stopping(u)'
  <2>1. CASE registry[i] = Nothing
    BY <1>6, <1>8, <2>1 DEF ClusterPop, ServerPop, Raise
  <2>2. CASE registry[i] # Nothing
    <3>1. registry[i] \in Thing
      BY <2>2, Named DEF TypeInv
    <3>2. job[Depth][registry[i]] # "stop"
      <4>1. CASE ClusterPop(i)
        BY <3>1, <4>1, HandsFree DEF ClusterPop
      <4>2. CASE ServerPop(i)
        BY <3>1, <4>2 DEF ServerPop, InHand, Phase
      <4>3. QED
        BY <1>8, <4>1, <4>2
    <3>3. \E l : Goto(Depth, registry[i], l)
      BY <1>8, <2>2 DEF ClusterPop, ServerPop
    <3>4. QED
      BY <1>4, <3>1, <3>2, <3>3
  <2>3. QED
    BY <2>1, <2>2
<1>a. ASSUME NEW s \in Server, ServerStop(s)
      PROVE  /\ \A w \in Worker : job'[w] = job[w]
             /\ \A u \in Server : Stopping(u) => Stopping(u)'
  BY <1>4, <1>a DEF ServerStop, Thing
<1>9. CASE Unwind
  BY <1>1, <1>2, <1>3, <1>5, <1>9 DEF Unwind
<1>10. CASE ClustersEnd \/ SetsEnd \/ ServersEnd
  BY <1>1, <1>2, <1>3, <1>6, <1>10 DEF ClustersEnd, SetsEnd, ServersEnd
<1>11. QED
  BY <1>1, <1>2, <1>3, <1>7, <1>8, <1>a, <1>9, <1>10 DEF Handler

\* Nor does it stop one.
LEMMA ClustersOn ==
  ASSUME TypeInv, InHand, Handler, On("clusters")
  PROVE  /\ ~On("servers")'
         /\ \A s \in Server : ~InMain(s)'
         /\ leaving' = "error" \/ leaving' = leaving
<1>1. stack # <<>> /\ leaving = "no" /\ Top.pc = "clusters"
  BY DEF On
<1>2. ASSUME stack' = stack
      PROVE  ~On("sets")' /\ ~On("servers")'
  BY <1>1, <1>2 DEF On, Top, Depth
<1>3. ASSUME NEW todo, SetTop("clusters", todo)
      PROVE  ~On("sets")' /\ ~On("servers")'
  <2>1. Top' = [pc |-> "clusters", todo |-> todo]
    BY <1>1, <1>3, TopSet
  <2>2. QED
    BY <2>1 DEF On
<1>4. CASE ClustersEnd
  <2>1. Depth' = Depth /\ Top' = [pc |-> "sets", todo |-> Keys(Server)]
    BY <1>1, <1>4, TopSet DEF ClustersEnd
  <2>2. job' = job /\ leaving' = leaving
    BY <1>4 DEF ClustersEnd
  <2>3. \A s \in Server : job[Depth][s] # "stop_main"
    BY DEF InHand, Phase, Thing
  <2>4. QED
    BY <2>1, <2>2, <2>3 DEF On, InMain
<1>5. CASE ~ClustersEnd
  <2>1. /\ stack' = stack \/ \E todo : SetTop("clusters", todo)
        /\ leaving' = "error" \/ leaving' = leaving
    BY <1>1, <1>5, OnOne
       DEF Handler, ClusterPop, ClusterSubmit, ClusterCollect, ServerPop,
           ServerStop, SetsEnd, ServersEnd, Unwind, Raise, mainVars
  <2>2. QED
    BY <1>2, <1>3, <2>1 DEF InMain
<1>6. QED
  BY <1>4, <1>5

\* Among the clusters no server is taken out of its registry.
LEMMA ClustersWatched ==
  ASSUME TypeInv, InHand, Watched, Handler, leaving = "no",
         On("clusters")
  PROVE  /\ Watched'
         /\ \A s \in running : Registered(s) => Registered(s)'
<1>1. /\ signals > 0 /\ signals' = signals
      /\ touched' = touched /\ lost' = lost
      /\ running' \subseteq running
      /\ \A s \in Server : Stopping(s) => Stopping(s)'
  BY HandlerStopping
<1>2. ASSUME NEW s \in running, Registered(s)
      PROVE  Registered(s)'
  <2>1. s \in Thing /\ s \in Server /\ Id[s] \in Ids
    BY DEF TypeInv, TypeOK, Thing, Ids
  <2>2. CASE registry' = registry
    BY <1>2, <2>2 DEF Registered
  <2>3. ASSUME NEW i \in Ids, ClusterPop(i), registry[i] # Nothing
        PROVE  Registered(s)'
    <3>1. PICK c \in Cluster : Id[c] = i
      BY <2>3 DEF ClusterPop, InHand, Phase
    <3>2. Take(Depth, registry[i]) /\ Id[registry[i]] = i
      BY <2>3, Named DEF ClusterPop, TypeInv
    <3>3. i # Id[s]
      BY <2>1, <3>1, KindOfId, KindsAssumption DEF Thing
    <3>4. QED
      BY <1>2, <2>1, <3>2, <3>3 DEF Take, Registered, TypeInv, TypeOK
  <2>4. QED
    BY <2>2, <2>3, OnOne
       DEF Handler, ClusterPop, ClusterSubmit, ClusterCollect, ClustersEnd,
           ServerPop, ServerStop, SetsEnd, ServersEnd, Unwind, Raise
<1>3. running \subseteq Server
  BY DEF TypeInv, TypeOK
<1>4. \A s \in Server : ~InMain(s)'
  BY ClustersOn
<1>5. QED
  BY <1>1, <1>2, <1>3, <1>4, OnOne DEF Watched, InMain

\* It takes the server that the id names, if there is one, ...
LEMMA ServerPopCovered ==
  ASSUME TypeInv, InHand, Watched, LastRound, NEW i \in Ids, ServerPop(i)
  PROVE  Watched' /\ LastRound'
<1>1. /\ stack # <<>> /\ Depth \in Level /\ signals > 0
      /\ signals' = signals /\ touched' = touched /\ lost' = lost
      /\ running' \subseteq running
      /\ \A u \in Server : Stopping(u) => Stopping(u)'
  BY HandlerStopping DEF Handler
<1>2. /\ On("sets") \/ On("servers")
      /\ running \subseteq Server /\ Server \subseteq Thing
      /\ \A u \in Server : ~InMain(u)
  BY DEF ServerPop, InMain, Thing, TypeInv, TypeOK
<1>3. CASE registry[i] = Nothing
  <2>1. registry' = registry /\ leaving' # "no"
    BY <1>3 DEF ServerPop, Raise
  <2>2. \A u \in Server : ~InMain(u)'
    BY <2>1 DEF InMain, On
  <2>3. Watched'
    BY <1>1, <1>2, <2>1, <2>2 DEF Watched, Registered
  <2>4. LastRound'
    BY <2>1 DEF LastRound, On
  <2>5. QED
    BY <2>3, <2>4
<1>4. CASE registry[i] # Nothing
  <2>1. PICK y \in Thing : registry[i] = y /\ Id[y] = i
    BY <1>4, Named DEF TypeInv
  <2>2. y \in Server
    <3>1. PICK s \in Server : Id[s] = i
      BY <1>2 DEF ServerPop, InHand, Phase
    <3>2. QED
      BY <1>2, <2>1, <3>1, KindOfId
  <2>3. /\ Take(Depth, y) /\ Goto(Depth, y, "stop_main")
        /\ stack' = stack /\ leaving' = leaving
    BY <1>4, <2>1 DEF ServerPop
  <2>4. /\ Depth' = Depth /\ Top' = Top
        /\ On("sets")' = On("sets") /\ On("servers")' = On("servers")
    BY <2>3, SameTop
  <2>5. /\ job'[Depth][y] = "stop_main"
        /\ \A z \in Thing : z # y => job'[Depth][z] = job[Depth][z]
    BY <1>1, <2>3, Types DEF Goto, TypeInv, TypeOK
  <2>6. \A u \in Server : InMain(u)' <=> u = y
    BY <1>2, <2>4, <2>5 DEF InMain
  <2>7. registry'[i] = Nothing
          /\ \A u \in running : u # y /\ Registered(u) => Registered(u)'
    <3>1. \A u \in Thing : Id[u] \in Ids
      BY DEF Ids
    <3>2. QED
      BY <1>2, <2>1, <2>3, <3>1 DEF Take, Registered, TypeInv, TypeOK
  <2>8. Watched'
    BY <1>1, <1>2, <2>1, <2>6, <2>7 DEF Watched
  <2>9. LastRound'
    BY <1>1, <1>2, <2>4 DEF LastRound
  <2>10. QED
    BY <2>8, <2>9
<1>5. QED
  BY <1>3, <1>4

\* ... and has one in hand, or has left it to an executor.
LEMMA ServerStopCovered ==
  ASSUME TypeInv, InHand, Watched, LastRound, NEW s \in Server, ServerStop(s)
  PROVE  Watched' /\ LastRound'
<1>1. /\ stack # <<>> /\ Depth \in Level /\ signals > 0
      /\ signals' = signals /\ touched' = touched /\ lost' = lost
      /\ \A u \in Server : Stopping(u) => Stopping(u)'
  BY HandlerStopping DEF Handler
<1>2. /\ On("sets") \/ On("servers")
      /\ job[Depth][s] = "stop_main" /\ InMain(s)
      /\ running \subseteq Server /\ Server \subseteq Thing
      /\ Nothing \notin Server
  BY RegistriesAssumption DEF ServerStop, InMain, Thing, TypeInv, TypeOK
<1>3. \A u \in Server : u # s => job[Depth][u] = "idle"
  BY <1>2 DEF InHand, Phase
<1>4. /\ Goto(Depth, s, "idle") /\ SetTop(Top.pc, Top.todo \ {Id[s]})
      /\ leaving' = leaving /\ running' = running \ {s}
      /\ registry' = registry
  BY DEF ServerStop
<1>5. /\ Depth' = Depth /\ stack' # <<>>
      /\ Top' = [pc |-> Top.pc, todo |-> Top.todo \ {Id[s]}]
  BY <1>1, <1>4, TopSet
<1>6. On("sets")' = On("sets") /\ On("servers")' = On("servers")
  BY <1>1, <1>4, <1>5 DEF On
<1>7. \A z \in Server : job'[Depth][z] = "idle"
  BY <1>1, <1>2, <1>3, <1>4, Types DEF Goto, TypeInv, TypeOK
<1>8. \A u \in running' \ (touched \cup lost) : Registered(u) \/ Stopping(u)
  BY <1>1, <1>2, <1>3, <1>4 DEF Watched, InMain
<1>9. Watched'
  BY <1>1, <1>2, <1>4, <1>5, <1>7, <1>8 DEF Watched, InMain, Registered
<1>10. LastRound'
  <2> SUFFICES ASSUME On("servers"), NEW u \in running' \ (touched \cup lost),
                      ~Stopping(u)
               PROVE  Id[u] \in Top.todo \ {Id[s]}
    BY <1>1, <1>2, <1>4, <1>5, <1>6 DEF LastRound
  <2>1. Id[u] \in Top.todo
    BY <1>4 DEF LastRound
  <2>2. registry[Id[s]] # u
    BY <1>2, <1>4 DEF Watched
  <2>3. QED
    BY <1>8, <2>1, <2>2 DEF Registered
<1>11. QED
  BY <1>9, <1>10

LEMMA HandlerCovered ==
  ASSUME TypeInv, InHand, Covered, Handler
  PROVE  Covered'
<1>1. /\ stack # <<>> /\ Depth \in Level /\ signals > 0
      /\ signals' = signals /\ exited' = exited
      /\ touched' = touched /\ lost' = lost
      /\ root' = root /\ \A w \in Worker : job'[w] = job[w]
      /\ running' \subseteq running
      /\ \A s \in Server : Stopping(s) => Stopping(s)'
  BY HandlerStopping
<1>2. running \subseteq Server /\ Server \subseteq Thing
  BY DEF TypeInv, TypeOK, Thing
<1>3. Tasks' /\ Kept'
  BY <1>1, TasksStay DEF Covered, Kept
<1>4. ~exited
  BY <1>1 DEF Covered, Leaves
<1>5. ASSUME leaving' # "no" => leaving' = "error" \/ leaving' = leaving
      PROVE  Leaves'
  BY <1>1, <1>2, <1>4, <1>5 DEF Covered, Leaves
<1>6. ASSUME On("clusters")
      PROVE  Covered'
  <2>1. Watched'
    BY <1>6, ClustersWatched DEF Covered, On
  <2>2. ~On("servers")' /\ (leaving' = "error" \/ leaving' = leaving)
    BY <1>6, ClustersOn
  <2>3. QED
    BY <1>3, <1>5, <2>1, <2>2 DEF Covered, LastRound
<1>7. ASSUME NEW i \in Ids, ServerPop(i)
      PROVE  Covered'
  <2>1. Watched' /\ LastRound'
    BY <1>7, ServerPopCovered DEF Covered
  <2>2. leaving' = "error" \/ leaving' = leaving
    BY <1>7 DEF ServerPop, Raise
  <2>3. QED
    BY <1>3, <1>5, <2>1, <2>2 DEF Covered
<1>8. ASSUME NEW s \in Server, ServerStop(s)
      PROVE  Covered'
  <2>1. Watched' /\ LastRound'
    BY <1>8, ServerStopCovered DEF Covered
  <2>2. leaving' = leaving
    BY <1>8 DEF ServerStop
  <2>3. QED
    BY <1>3, <1>5, <2>1, <2>2 DEF Covered
<1>9. ASSUME SetsEnd
      PROVE  Covered'
  <2>1. \A x \in Thing : job[Depth][x] = "idle"
    BY <1>9 DEF SetsEnd, InHand, Phase
  <2>2. /\ Top' = [pc |-> "servers", todo |-> Keys(Server)]
        /\ Depth' = Depth /\ job' = job /\ leaving' = leaving
    BY <1>1, <1>9, TopSet DEF SetsEnd
  <2>3. \A s \in Server : Registered(s) => Registered(s)'
    BY <1>9, KindsAssumption DEF SetsEnd, Registered, Ids, Thing
  <2>4. \A s \in running \ (touched \cup lost) : Registered(s) \/ Stopping(s)
    BY <1>1, <1>2, <2>1 DEF Covered, Watched, InMain
  <2>5. Watched'
    BY <1>1, <1>2, <2>1, <2>2, <2>3, <2>4 DEF Watched, InMain
  <2>6. LastRound'
    BY <1>1, <1>2, <2>2, <2>4 DEF LastRound, Keys
  <2>7. QED
    BY <1>3, <1>5, <2>2, <2>5, <2>6 DEF Covered
<1>10. ASSUME ServersEnd
       PROVE  Covered'
  <2>1. \A x \in Thing : job[Depth][x] = "idle"
    BY <1>10 DEF ServersEnd, InHand, Phase
  <2>2. leaving' = "exit" /\ registry' = registry
    BY <1>10 DEF ServersEnd
  <2>3. \A s \in running \ (touched \cup lost) : Stopping(s)
    BY <1>10 DEF ServersEnd, Covered, LastRound
  <2>4. ~On("sets")' /\ ~On("servers")'
    BY <2>2 DEF On
  <2>5. Watched' /\ Leaves' /\ LastRound'
    BY <1>1, <1>2, <1>4, <2>3, <2>4 DEF Watched, Leaves, LastRound, InMain
  <2>6. QED
    BY <1>3, <2>5 DEF Covered
<1>11. ASSUME Unwind
       PROVE  Covered'
  <2>1. leaving # "no" /\ registry' = registry
    BY <1>11 DEF Unwind
  <2>2. leaving' # "no" => leaving' = leaving
    BY <1>11 DEF Unwind
  <2>3. leaving' = "no" => stack' = <<>>
    <3> SUFFICES ASSUME leaving' = "no"
                 PROVE  stack' = <<>>
      OBVIOUS
    <3>1. Depth = 1
      BY <1>11 DEF Unwind
    <3>2. stack \in Seq(Frame) /\ Len(stack) = 1
      BY <3>1 DEF Depth, TypeInv, TypeOK
    <3>3. stack' = SubSeq(stack, 1, 0)
      BY <1>11, <3>1 DEF Unwind
    <3>4. QED
      BY <3>2, <3>3
  <2>4. ~On("sets")' /\ ~On("servers")' /\ ~On("sets") /\ ~On("servers")
    BY <2>1, <2>3 DEF On
  <2>5. Watched' /\ LastRound'
    BY <1>1, <1>2, <2>1, <2>4
       DEF Covered, Watched, InMain, Registered, LastRound
  <2>6. QED
    BY <1>3, <1>5, <2>2, <2>5 DEF Covered
<1>12. QED
  BY <1>6, <1>7, <1>8, <1>9, <1>10, <1>11
     DEF Handler, ClusterPop, ClusterSubmit, ClusterCollect, ClustersEnd

\* A signal marks what the workers and the main thread are at.
LEMMA SignalCovered ==
  ASSUME TypeInv, Covered, Signal
  PROVE  Covered'
<1>1. /\ job' = job /\ root' = root /\ registry' = registry
      /\ running' = running /\ leaving' = leaving /\ leaving = "no"
      /\ exited' = exited
      /\ signals \in Nat /\ signals' = signals + 1
      /\ touched \subseteq touched' /\ lost' = lost
  BY RegistriesAssumption DEF Signal, requestVars, TypeInv, TypeOK
<1>2. ~exited
  BY <1>1 DEF Covered, Leaves
<1>3. Tasks' /\ Kept' /\ Leaves'
  BY <1>1, <1>2, TasksStay DEF Covered, Kept, Leaves
<1>4. ~On("sets")' /\ ~On("servers")'
  <2>1. stack \in Seq(Frame)
    BY DEF TypeInv, TypeOK
  <2>2. Top' = [pc |-> "clusters", todo |-> Keys(Cluster)]
    BY <2>1 DEF Signal, Top, Depth
  <2>3. QED
    BY <2>2 DEF On
<1>5. ASSUME NEW s \in running \ (touched' \cup lost)
      PROVE  Registered(s) \/ Stopping(s)
  <2>1. s \in Server /\ s \notin touched /\ s \in Thing
    BY <1>1 DEF TypeInv, TypeOK, Thing
  <2>2. \A w \in Worker : ~Active(w, s)
    BY <1>5, <2>1 DEF Signal, Whole
  <2>3. \A k \in Level : job[k][s] # "stop_main"
    BY <1>5, <2>1 DEF Signal
  <2>4. CASE signals = 0
    BY <2>2, <2>4 DEF Covered, Kept, Active, Ended
  <2>5. CASE signals > 0
    <3>1. stack # <<>> => Depth \in Level
      BY UnderWay
    <3>2. QED
      BY <2>1, <2>3, <2>5, <3>1 DEF Covered, Watched, InMain, On
  <2>6. QED
    BY <1>1, <2>4, <2>5
<1>6. Watched' /\ LastRound'
  BY <1>1, <1>4, <1>5 DEF Watched, LastRound, InMain, Registered, Stopping
<1>7. QED
  BY <1>3, <1>6 DEF Covered

LEMMA NextCovered ==
  ASSUME TypeInv, InHand, Covered, [Next]_vars
  PROVE  Covered'
<1>1. TypeInv'
  BY NextTypeInv
<1>2. ASSUME NEW a \in Actor, NEW x \in Thing, Job(a, x)
      PROVE  Covered'
  <2>1. CASE a \in Worker
    BY <1>1, <1>2, <2>1, WorkerCovered
  <2>2. CASE a \in Level
    BY <1>2, <2>2, LevelCovered
  <2>3. QED
    BY <2>1, <2>2 DEF Actor
<1>3. ASSUME NEW w \in Worker, Request(w)
      PROVE  Covered'
  BY <1>1, <1>3, WorkerCovered
<1>4. CASE Exit \/ UNCHANGED vars
  <2>1. /\ stack' = stack /\ leaving' = leaving /\ signals' = signals
        /\ running' = running /\ touched' = touched /\ lost' = lost
        /\ job' = job
        /\ registry' = registry /\ root' = root
        /\ exited' = exited \/ (leaving = "exit" /\ stack = <<>>)
    BY <1>4 DEF Exit, vars, requestVars, history
  <2>2. /\ Depth' = Depth /\ Top' = Top
        /\ On("sets")' = On("sets") /\ On("servers")' = On("servers")
    BY <2>1, SameTop
  <2>3. Tasks' /\ Kept' /\ Leaves'
    BY <2>1, TasksStay DEF Covered, Kept, Leaves, Registered, Stopping
  <2>4. Watched' /\ LastRound'
    BY <2>1, <2>2
       DEF Covered, Watched, LastRound, InMain, Registered, Stopping
  <2>5. QED
    BY <2>3, <2>4 DEF Covered
<1>5. QED
  BY <1>2, <1>3, <1>4, HandlerCovered, SignalCovered DEF Next

\* When the handler has ended the process, no server is left but those that
\* somebody else was at since the signal, and those that were in no registry
\* because a creation or command failed or another server took their id: for
\* any number of servers, sets and clusters, workers and signals.
THEOREM ExitLeavesNothing == Spec => []ExitIsClean
<1> DEFINE IInv == TypeInv /\ InHand /\ Covered
<1>1. Init => IInv
  BY InitTypeInv, InitInHand, InitCovered
<1>2. IInv /\ [Next]_vars => IInv'
  BY NextTypeInv, NextInHand, NextCovered
<1>3. IInv => ExitIsClean
  <2> SUFFICES ASSUME TypeInv, Phase, Leaves, exited, NEW s \in running,
                      s \notin touched \cup lost
               PROVE  FALSE
    BY DEF InHand, Covered, ExitIsClean
  <2>1. PICK k \in Level : job[k][s] = "stop"
    BY DEF Leaves, Stopping
  <2>2. s \in Thing
    BY DEF TypeInv, TypeOK, Thing
  <2>3. Depth = 0
    BY DEF Leaves, Depth
  <2>4. job[k][s] = "idle"
    BY <2>2, <2>3, Types DEF Phase
  <2>5. QED
    BY <2>1, <2>4
<1>4. QED
  BY <1>1, <1>2, <1>3, PTL DEF Spec

-----------------------------------------------------------------------------
(***************************************************************************)
(* How a handler comes to its end.                                         *)
(***************************************************************************)
\* Who waits for parts has begun them all, and who stops a server does nothing
\* else.
Begun(r) ==
  \A x \in Thing :
    /\ r[x] \in {"parts", "collect"} => \A p \in Parts[x] : r[p] # "idle"
    /\ r[x] = "stop_main" => \A z \in Thing \ {x} : r[z] = "idle"

AllBegun == \A k \in Level : Begun(job[k])

LEMMA BegunIdle ==
  ASSUME NEW r, \A x \in Thing : r[x] = "idle"
  PROVE  Begun(r)
BY DEF Begun

\* A job that goes on was one already, and the others stay.
LEMMA BegunGoto ==
  ASSUME NEW r \in [Thing -> Label], Begun(r), NEW x \in Thing, NEW l,
         NEW q, q = [r EXCEPT ![x] = l],
         l # "idle", l # "stop_main",
         \A z \in Thing : r[z] # "stop_main",
         l \in {"parts", "collect"} => \A p \in Parts[x] : r[p] # "idle"
  PROVE  Begun(q)
<1>1. q[x] = l /\ \A z \in Thing : z # x => q[z] = r[z]
  OBVIOUS
<1>2. \A z \in Thing : q[z] # "stop_main"
  BY <1>1
<1>3. ASSUME NEW z \in Thing, q[z] \in {"parts", "collect"},
             NEW p \in Parts[z]
      PROVE  q[p] # "idle"
  <2>1. p \in Thing
    BY BelowParts
  <2>2. r[p] # "idle"
    BY <1>1, <1>3 DEF Begun
  <2>3. QED
    BY <1>1, <2>1, <2>2
<1>4. QED
  BY <1>2, <1>3 DEF Begun

LEMMA NoOwnPart ==
  ASSUME NEW x \in Thing
  PROVE  x \notin Parts[x]
BY RegistriesAssumption DEF Thing

LEMMA BegunPopped ==
  ASSUME NEW r \in [Thing -> Label], Begun(r), NEW x \in Thing, r[x] = "pop"
  PROVE  Begun(Popped(r, x))
<1> DEFINE q == Popped(r, x)
<1>1. \A z \in Thing : r[z] # "stop_main"
  BY DEF Begun
<1>2. /\ q[x] \in {"stop", "parts"}
      /\ \A z \in Thing : z # x /\ z \notin Parts[x] => q[z] = r[z]
      /\ \A z \in Thing : z # x /\ z \in Parts[x] => q[z] = "pop"
  <2>1. q[x] \in {"stop", "parts"}
    BY NoOwnPart DEF Popped
  <2>2. ASSUME NEW z \in Thing, z # x, z \notin Parts[x]
        PROVE  q[z] = r[z]
    BY <2>2 DEF Popped
  <2>3. ASSUME NEW z \in Thing, z # x, z \in Parts[x]
        PROVE  q[z] = "pop"
    BY <2>3 DEF Popped
  <2>4. QED
    BY <2>1, <2>2, <2>3
<1>3. \A z \in Thing : q[z] # "stop_main"
  BY <1>1, <1>2
<1>4. ASSUME NEW z \in Thing, q[z] \in {"parts", "collect"},
             NEW p \in Parts[z]
      PROVE  q[p] # "idle"
  <2>1. p \in Thing /\ p # z
    BY <1>4, BelowParts, BelowTypes
  <2>2. CASE z = x
    BY <1>2, <1>4, <2>1, <2>2
  <2>3. CASE z # x /\ z \notin Parts[x]
    <3>1. r[p] # "idle"
      BY <1>2, <1>4, <2>3 DEF Begun
    <3>2. QED
      BY <1>2, <2>1, <3>1
  <2>4. CASE z # x /\ z \in Parts[x]
    BY <1>2, <1>4, <2>4
  <2>5. QED
    BY <2>2, <2>3, <2>4
<1>5. QED
  BY <1>3, <1>4 DEF Begun

LEMMA BegunOthers ==
  ASSUME AllBegun, NEW k \in Level, Begun(job'[k]),
         \A j \in Level : j # k => job'[j] = job[j]
  PROVE  AllBegun'
BY DEF AllBegun

LEMMA LevelBegun ==
  ASSUME TypeInv, Rows, AllBegun, NEW k \in Level, NEW x \in Thing,
         LevelStep(k, x)
  PROVE  AllBegun'
<1>1. /\ Begun(job[k]) /\ job[k] \in [Thing -> Label]
      /\ \A j \in Level : j # k => job'[j] = job[j]
  BY LevelRows, Types DEF AllBegun
<1>2. job[k][x] \in {"pop", "stop", "parts"}
  BY DEF LevelStep, LevelMiss, LevelTake, LevelEnd
<1>3. \A z \in Thing : job[k][z] # "stop_main"
  BY <1>1, <1>2 DEF Begun
<1>4. ASSUME NEW l \in {"done", "raised"}, Goto(k, x, l)
      PROVE  Begun(job'[k])
  <2>1. job'[k] = [job[k] EXCEPT ![x] = l]
    BY <1>4, GotoRow
  <2>2. QED
    BY <1>1, <1>3, <2>1, BegunGoto
<1>5. ASSUME LevelTake(k, x)
      PROVE  Begun(job'[k])
  <2>1. job'[k] = Popped(job[k], x)
    BY <1>5, Types DEF LevelTake, TypeInv, TypeOK
  <2>2. QED
    BY <1>1, <1>5, <2>1, BegunPopped DEF LevelTake
<1>6. Begun(job'[k])
  BY <1>4, <1>5 DEF LevelStep, LevelMiss, LevelEnd
<1>7. QED
  BY <1>1, <1>6, BegunOthers

LEMMA ResetBegun ==
  ASSUME TypeInv, AllBegun, NEW k \in Level,
         job' = [job EXCEPT ![k] = Idle]
  PROVE  AllBegun'
<1>1. Begun(job'[k])
  BY IdleRow, BegunIdle
<1>2. QED
  BY <1>1, IdleRow, BegunOthers

\* A handler that is about to take a server has nothing in hand.
LEMMA NoneInMain ==
  ASSUME TypeInv, InHand, NEW i \in Ids, ServerPop(i)
  PROVE  \A z \in Thing : job[Depth][z] = "idle"
<1> SUFFICES ASSUME NEW z \in Thing, job[Depth][z] # "idle"
             PROVE  FALSE
  OBVIOUS
<1>1. job[Depth][z] = "stop_main"
  BY DEF ServerPop, InHand, Phase
<1>2. Row(job[Depth])
  BY AtWork DEF InHand, ServerPop, On
<1>3. z \in Server
  BY <1>1, <1>2, RowLabels
<1>4. QED
  BY <1>1, <1>3 DEF ServerPop

LEMMA HandlerBegun ==
  ASSUME TypeInv, InHand, AllBegun, Handler
  PROVE  AllBegun'
<1> DEFINE r == job[Depth]
<1>1. stack # <<>>
  BY DEF Handler, ClusterPop, ClusterSubmit, ClusterCollect, ClustersEnd,
         ServerPop, ServerStop, SetsEnd, ServersEnd, Unwind, On
<1>2. Depth \in Level /\ r \in [Thing -> Label] /\ Begun(r)
  BY <1>1, AtWork DEF InHand, AllBegun
<1>3. ASSUME job' = job
      PROVE  AllBegun'
  BY <1>3 DEF AllBegun
<1>4. ASSUME NEW x \in Thing, NEW l, Goto(Depth, x, l), l # "idle",
             l # "stop_main", \A z \in Thing : r[z] # "stop_main",
             l \in {"parts", "collect"} => \A p \in Parts[x] : r[p] # "idle"
      PROVE  AllBegun'
  <2>1. /\ job'[Depth] = [r EXCEPT ![x] = l]
        /\ \A j \in Level : j # Depth => job'[j] = job[j]
    BY <1>2, <1>4, GotoRow
  <2>2. Begun(job'[Depth])
    BY <1>2, <1>4, <2>1, BegunGoto
  <2>3. QED
    BY <1>2, <2>1, <2>2, BegunOthers
<1>5. On("clusters") => \A z \in Thing : r[z] # "stop_main"
  BY DEF InHand, Phase
<1>6. ASSUME NEW i \in Ids, ClusterPop(i)
      PROVE  AllBegun'
  <2>1. CASE registry[i] = Nothing
    BY <1>3, <1>6, <2>1 DEF ClusterPop, Raise
  <2>2. CASE registry[i] # Nothing
    <3>1. /\ registry[i] \in Thing /\ Goto(Depth, registry[i], "submit")
          /\ On("clusters")
      BY <1>6, <2>2, Named DEF ClusterPop, TypeInv
    <3>2. QED
      BY <1>4, <1>5, <3>1
  <2>3. QED
    BY <2>1, <2>2
<1>7. ASSUME NEW c \in Cluster, ClusterSubmit(c)
      PROVE  AllBegun'
  <2>1. On("clusters") /\ c \in Thing /\ Parts[c] \subseteq Thing
    BY <1>7, BelowParts DEF ClusterSubmit, Thing
  <2>2. QED
    BY <1>4, <1>5, <1>7, <2>1 DEF ClusterSubmit
<1>8. ASSUME NEW c \in Cluster, ClusterCollect(c)
      PROVE  AllBegun'
  BY <1>2, <1>3, <1>8, ResetBegun DEF ClusterCollect
<1>9. CASE ClustersEnd \/ SetsEnd \/ ServersEnd
  BY <1>3, <1>9 DEF ClustersEnd, SetsEnd, ServersEnd
<1>10. ASSUME NEW i \in Ids, ServerPop(i)
       PROVE  AllBegun'
  <2>1. CASE registry[i] # Nothing
    <3>1. PICK s \in Thing : s = registry[i]
      BY <2>1, Named DEF TypeInv
    <3>2. Goto(Depth, s, "stop_main")
      BY <1>10, <2>1, <3>1 DEF ServerPop
    <3>3. \A z \in Thing : r[z] = "idle"
      BY <1>10, NoneInMain
    <3>4. /\ job'[Depth] = [r EXCEPT ![s] = "stop_main"]
          /\ \A j \in Level : j # Depth => job'[j] = job[j]
      BY <1>2, <3>2, GotoRow
    <3>5. /\ job'[Depth][s] = "stop_main"
          /\ \A z \in Thing : z # s => job'[Depth][z] = "idle"
      BY <1>2, <3>3, <3>4
    <3>6. Begun(job'[Depth])
      BY <3>5 DEF Begun
    <3>7. QED
      BY <1>2, <3>4, <3>6, BegunOthers
  <2>2. CASE registry[i] = Nothing
    BY <1>3, <1>10, <2>2 DEF ServerPop, Raise
  <2>3. QED
    BY <2>1, <2>2
<1>11. ASSUME NEW s \in Server, ServerStop(s)
       PROVE  AllBegun'
  <2>1. s \in Thing /\ Goto(Depth, s, "idle") /\ r[s] = "stop_main"
    BY <1>11 DEF ServerStop, Thing
  <2>2. \A z \in Thing : z # s => r[z] = "idle"
    BY <1>2, <2>1 DEF Begun
  <2>3. /\ job'[Depth] = [r EXCEPT ![s] = "idle"]
        /\ \A j \in Level : j # Depth => job'[j] = job[j]
    BY <1>2, <2>1, GotoRow
  <2>4. \A z \in Thing : job'[Depth][z] = "idle"
    BY <1>2, <2>1, <2>2, <2>3
  <2>5. QED
    BY <1>2, <2>3, <2>4, BegunIdle, BegunOthers
<1>12. CASE Unwind
  BY <1>2, <1>12, ResetBegun DEF Unwind
<1>13. QED
  BY <1>6, <1>7, <1>8, <1>9, <1>10, <1>11, <1>12 DEF Handler

LEMMA NextBegun ==
  ASSUME TypeInv, InHand, AllBegun, [Next]_vars
  PROVE  AllBegun'
<1>1. ASSUME \A k \in Level : job'[k] = job[k]
      PROVE  AllBegun'
  BY <1>1 DEF AllBegun
<1>2. ASSUME NEW a \in Actor, NEW x \in Thing, Job(a, x)
      PROVE  AllBegun'
  <2>1. CASE a \in Worker
    BY <1>1, <1>2, <2>1, WorkerAside DEF Aside
  <2>2. CASE a \in Level
    BY <1>2, <2>2, LevelJob, LevelBegun DEF InHand
  <2>3. QED
    BY <2>1, <2>2 DEF Actor
<1>3. ASSUME NEW w \in Worker, Request(w)
      PROVE  AllBegun'
  BY <1>1, <1>3, WorkerAside DEF Aside
<1>4. CASE Signal \/ Exit \/ UNCHANGED vars
  BY <1>1, <1>4 DEF Signal, Exit, vars
<1>5. QED
  BY <1>2, <1>3, <1>4, HandlerBegun DEF Next

LEMMA InitBegun == Init => AllBegun
<1> SUFFICES ASSUME Init, NEW k \in Level
             PROVE  Begun(job[k])
  BY DEF AllBegun
<1>1. \A x \in Thing : job[k][x] = "idle"
  BY DEF Init, Actor, Idle
<1>2. QED
  BY <1>1, BegunIdle

\* A job that goes on has less to do.
LEMMA GotoNearer ==
  ASSUME TypeInv, NEW k \in Level, NEW x \in Thing, NEW l, Goto(k, x, l),
         l \in Label, ToDo(l) < ToDo(job[k][x])
  PROVE  JobsEnd
<1>0. /\ job[k] \in [Thing -> Label]
      /\ job'[k] = [job[k] EXCEPT ![x] = l]
      /\ \A j \in Level : j # k => job'[j] = job[j]
  BY Types, GotoRow
<1>1. /\ job'[k][x] = l
      /\ \A z \in Thing : z # x => job'[k][z] = job[k][z]
      /\ \A j \in Level : j # k => job'[j] = job[j]
  BY <1>0
<1>2. \A j \in Level, z \in Thing : job[j][z] \in Label
  BY Types
<1>3. \A m \in Label : ToDo(m) \in Nat
  BY DEF ToDo
<1>4. ASSUME NEW j \in Level, NEW z \in Thing
      PROVE  ToDo(job'[j][z]) <= ToDo(job[j][z])
  <2>1. CASE j = k /\ z = x
    BY <1>1, <1>2, <1>3, <2>1
  <2>2. CASE ~(j = k /\ z = x)
    <3>1. job'[j][z] = job[j][z]
      BY <1>1, <2>2
    <3>2. QED
      BY <1>2, <1>3, <3>1
  <2>3. QED
    BY <2>1, <2>2
<1>5. QED
  BY <1>1, <1>4 DEF JobsEnd

\* So has an executor that takes a thing: its parts were not begun.
LEMMA TakeNearer ==
  ASSUME TypeInv, Rows, AllBegun, NEW k \in Level, NEW x \in Thing,
         LevelTake(k, x)
  PROVE  JobsEnd
<1> DEFINE r == job[k]
<1>1. /\ r \in [Thing -> Label] /\ Row(r) /\ Begun(r) /\ r[x] = "pop"
      /\ \A j \in Level : j # k => job'[j] = job[j]
      /\ job'[k] = Popped(r, x)
  BY Types DEF LevelTake, Rows, AllBegun, TypeInv, TypeOK
<1>2. \A m \in Label : ToDo(m) \in Nat
  BY DEF ToDo
<1>3. \A j \in Level, z \in Thing : job[j][z] \in Label
  BY Types
<1>4. ToDo(job'[k][x]) = 1 /\ ToDo(r[x]) = 2
  <2>1. job'[k][x] \in {"stop", "parts"}
    BY <1>1, NoOwnPart DEF Popped
  <2>2. QED
    BY <1>1, <2>1 DEF ToDo
<1>5. ASSUME NEW z \in Thing, z \in Parts[x], z # x
      PROVE  ToDo(job'[k][z]) <= ToDo(r[z])
  <2>1. x \notin Cluster /\ ~Inner(r, z)
    BY <1>1, <1>5, RowPop
  <2>2. z \in Server /\ z \notin Cluster
    BY <1>5, <2>1, SetParts, KindsAssumption
  <2>3. r[z] \notin {"submit", "collect"}
    BY <1>1, <2>2, RowLabels
  <2>4. r[z] # "stop_main"
    BY <1>1, <1>5 DEF Begun
  <2>5. r[z] = "idle"
    BY <2>1, <2>3, <2>4 DEF Inner
  <2>6. job'[k][z] = "pop"
    BY <1>1, <1>5 DEF Popped
  <2>7. QED
    BY <2>5, <2>6 DEF ToDo
<1>6. ASSUME NEW j \in Level, NEW z \in Thing
      PROVE  ToDo(job'[j][z]) <= ToDo(job[j][z])
  <2>1. CASE j = k /\ z = x
    BY <1>4, <2>1
  <2>2. CASE j = k /\ z # x /\ z \in Parts[x]
    BY <1>5, <2>2
  <2>3. CASE j # k \/ (z # x /\ z \notin Parts[x])
    <3>1. job'[j][z] = job[j][z]
      BY <1>1, <2>3 DEF Popped
    <3>2. QED
      BY <1>2, <1>3, <3>1
  <2>4. QED
    BY <2>1, <2>2, <2>3
<1>7. QED
  BY <1>4, <1>6 DEF JobsEnd

LEMMA LevelNearer ==
  ASSUME TypeInv, Rows, AllBegun, NEW k \in Level, NEW x \in Thing, Job(k, x)
  PROVE  Nearer
<1>1. LevelStep(k, x) /\ stack' = stack /\ leaving' = leaving
  BY LevelJob DEF LevelStep, mainVars
<1>2. ASSUME NEW l \in {"done", "raised"}, Goto(k, x, l),
             job[k][x] \in {"pop", "stop", "parts"}
      PROVE  JobsEnd
  <2>1. ToDo(l) < ToDo(job[k][x])
    BY <1>2 DEF ToDo
  <2>2. QED
    BY <1>2, <2>1, GotoNearer DEF Label
<1>3. JobsEnd
  BY <1>1, <1>2, TakeNearer DEF LevelStep, LevelMiss, LevelEnd
<1>4. QED
  BY <1>1, <1>3 DEF Nearer

\* A handler that goes over to another round, or is done with a thing.
LEMMA RoundNearer ==
  ASSUME TypeInv, stack # <<>>, leaving' = leaving,
         NEW pc, NEW todo, SetTop(pc, todo),
         \/ Rounds(pc) < Rounds(Top.pc)
         \/ pc = Top.pc /\ todo \subseteq Top.todo /\ todo # Top.todo
  PROVE  Nearer
<1>1. /\ Depth' = Depth /\ Top'.pc = pc /\ Top'.todo = todo
      /\ Len(stack) \in Nat
  BY TopSet DEF TypeInv, TypeOK
<1>2. QED
  BY <1>1 DEF Nearer, Depth

LEMMA HandlerNearer ==
  ASSUME TypeInv, InHand, Handler
  PROVE  Nearer
<1> DEFINE r == job[Depth]
<1>1. stack # <<>>
  BY DEF Handler, ClusterPop, ClusterSubmit, ClusterCollect, ClustersEnd,
         ServerPop, ServerStop, SetsEnd, ServersEnd, Unwind, On
<1>2. Depth \in Level /\ Depth \in Nat
  BY <1>1, AtWork DEF InHand
<1>3. ASSUME leaving = "no", leaving' # "no", stack' = stack
      PROVE  Nearer
  BY <1>2, <1>3 DEF Nearer, Depth
<1>4. ASSUME NEW x \in Thing, NEW l \in Label, Goto(Depth, x, l),
             ToDo(l) < ToDo(r[x]), stack' = stack, leaving' = leaving
      PROVE  Nearer
  BY <1>2, <1>4, GotoNearer DEF Nearer, Depth
<1>5. ASSUME NEW i \in Ids, ClusterPop(i)
      PROVE  Nearer
  <2>1. CASE registry[i] # Nothing
    <3>1. PICK c \in Thing : c = registry[i]
      BY <2>1, Named DEF TypeInv
    <3>2. /\ Goto(Depth, c, "submit")
          /\ stack' = stack /\ leaving' = leaving
      BY <1>5, <2>1, <3>1 DEF ClusterPop
    <3>3. r[c] = "idle"
      BY <1>5, HandsFree DEF ClusterPop
    <3>4. ToDo("submit") < ToDo("idle") /\ "submit" \in Label
      BY DEF ToDo, Label
    <3>5. QED
      BY <1>4, <3>2, <3>3, <3>4
  <2>2. CASE registry[i] = Nothing
    BY <1>3, <1>5, <2>2 DEF ClusterPop, Raise, On
  <2>3. QED
    BY <2>1, <2>2
<1>6. ASSUME NEW c \in Cluster, ClusterSubmit(c)
      PROVE  Nearer
  <2>1. /\ stack' = stack /\ leaving' = leaving /\ r[c] = "submit"
        /\ c \in Thing /\ Parts[c] \subseteq Thing
    BY <1>6, BelowParts DEF ClusterSubmit, mainVars, Thing
  <2>2. /\ ToDo("pop") < ToDo("idle") /\ ToDo("collect") < ToDo("submit")
        /\ {"pop", "collect"} \subseteq Label
    BY DEF ToDo, Label
  <2>3. CASE \E x \in Parts[c] : r[x] = "idle" /\ Goto(Depth, x, "pop")
    BY <1>4, <2>1, <2>2, <2>3
  <2>4. CASE Goto(Depth, c, "collect")
    BY <1>4, <2>1, <2>2, <2>4
  <2>5. QED
    BY <1>6, <2>3, <2>4 DEF ClusterSubmit
<1>7. ASSUME NEW c \in Cluster, ClusterCollect(c)
      PROVE  Nearer
  <2>1. CASE PartsRaised(Depth, c)
    BY <1>3, <1>7, <2>1 DEF ClusterCollect, On
  <2>2. CASE ~PartsRaised(Depth, c)
    <3>1. /\ On("clusters") /\ Top.pc = "clusters" /\ leaving' = leaving
          /\ SetTop("clusters", Top.todo \ {Id[c]}) /\ r[c] = "collect"
      BY <1>7, <2>2 DEF ClusterCollect, On
    <3>2. Id[c] \in Top.todo
      BY <3>1 DEF InHand, Phase, Thing
    <3>3. QED
      BY <1>1, <3>1, <3>2, RoundNearer
  <2>3. QED
    BY <2>1, <2>2
<1>8. CASE ClustersEnd
  BY <1>1, <1>8, RoundNearer DEF ClustersEnd, On, Rounds
<1>9. CASE SetsEnd
  BY <1>1, <1>9, RoundNearer DEF SetsEnd, On, Rounds
<1>10. CASE ServersEnd
  BY <1>3, <1>10 DEF ServersEnd, On
<1>11. ASSUME NEW i \in Ids, ServerPop(i)
       PROVE  Nearer
  <2>1. CASE registry[i] # Nothing
    <3>1. PICK s \in Thing : s = registry[i]
      BY <2>1, Named DEF TypeInv
    <3>2. /\ Goto(Depth, s, "stop_main")
          /\ stack' = stack /\ leaving' = leaving
      BY <1>11, <2>1, <3>1 DEF ServerPop
    <3>3. r[s] = "idle"
      BY <1>11, NoneInMain
    <3>4. ToDo("stop_main") < ToDo("idle") /\ "stop_main" \in Label
      BY DEF ToDo, Label
    <3>5. QED
      BY <1>4, <3>2, <3>3, <3>4
  <2>2. CASE registry[i] = Nothing
    BY <1>3, <1>11, <2>2 DEF ServerPop, Raise, On
  <2>3. QED
    BY <2>1, <2>2
<1>12. ASSUME NEW s \in Server, ServerStop(s)
       PROVE  Nearer
  <2>1. /\ SetTop(Top.pc, Top.todo \ {Id[s]}) /\ leaving' = leaving
        /\ s \in Thing /\ r[s] = "stop_main"
    BY <1>12 DEF ServerStop, Thing
  <2>2. Id[s] \in Top.todo
    BY <1>12, <2>1 DEF ServerStop, InHand, Phase
  <2>3. QED
    BY <1>1, <2>1, <2>2, RoundNearer
<1>13. CASE Unwind
  <2>1. stack \in Seq(Frame) /\ Len(stack) \in Nat /\ Len(stack) > 0
    BY <1>1 DEF TypeInv, TypeOK
  <2>2. PICK n \in Nat : n = Len(stack) - 1
    BY <2>1
  <2>3. stack' = SubSeq(stack, 1, n)
    BY <1>13, <2>2 DEF Unwind, Depth
  <2>4. \A i \in 1..n : i \in 1..Len(stack)
    BY <2>1, <2>2
  <2>5. Len(stack') = n
    BY <2>1, <2>2, <2>3, <2>4
  <2>6. QED
    BY <2>1, <2>2, <2>5 DEF Nearer
<1>14. QED
  BY <1>5, <1>6, <1>7, <1>8, <1>9, <1>10, <1>11, <1>12, <1>13 DEF Handler

\* Every step of a handler or of its executors brings it nearer to its end:
\* for any number of things, workers and signals.
THEOREM ComesToAnEnd == Spec => NearerTheEnd
<1> DEFINE IInv == TypeInv /\ InHand /\ AllBegun
           State == <<stack, leaving, [k \in Level |-> job[k]]>>
           Goal == signals' = signals /\ State' # State => Nearer
<1>1. Init => IInv
  BY InitTypeInv, InitInHand, InitBegun
<1>2. IInv /\ [Next]_vars => IInv'
  BY NextTypeInv, NextInHand, NextBegun
<1>3. IInv /\ [Next]_vars => [Goal]_vars
  <2> SUFFICES ASSUME IInv, Next, signals' = signals, State' # State
               PROVE  Nearer
    OBVIOUS
  <2>1. ASSUME \A k \in Level : job'[k] = job[k], stack' = stack,
               leaving' = leaving
        PROVE  Nearer
    BY <2>1
  <2>2. ASSUME NEW a \in Actor, NEW x \in Thing, Job(a, x)
        PROVE  Nearer
    <3>1. CASE a \in Worker
      BY <2>1, <2>2, <3>1, WorkerAside DEF Aside
    <3>2. CASE a \in Level
      BY <2>2, <3>2, LevelNearer DEF InHand
    <3>3. QED
      BY <3>1, <3>2 DEF Actor
  <2>3. ASSUME NEW w \in Worker, Request(w)
        PROVE  Nearer
    BY <2>1, <2>3, WorkerAside DEF Aside
  <2>4. CASE Exit
    BY <2>1, <2>4 DEF Exit
  <2>5. CASE Signal
    BY <2>5, RegistriesAssumption DEF Signal, TypeInv, TypeOK
  <2>6. QED
    BY <2>2, <2>3, <2>4, <2>5, HandlerNearer DEF Next
<1>4. QED
  BY <1>1, <1>2, <1>3, PTL DEF Spec, NearerTheEnd

\* Something that an executor of handler k can do.
Going(k) ==
  \E x \in Thing :
    \/ job[k][x] \in {"pop", "stop"}
    \/ job[k][x] = "parts" /\ PartsEnded(k, x)

\* The guard of a step of the handler, or of its executors, holds.
Ready ==
  \/ Going(Depth)
  \/ /\ leaving # "no"
     /\ \A x \in Thing : job[Depth][x] \notin {"pop", "stop", "parts"}
  \/ leaving = "no" /\ Top.todo = {}
  \/ /\ On("clusters")
     /\ \/ Top.todo # {} /\ \A d \in Cluster : job[Depth][d] = "idle"
        \/ \E c \in Cluster :
             \/ job[Depth][c] = "submit"
             \/ job[Depth][c] = "collect" /\ PartsEnded(Depth, c)
  \/ /\ On("sets") \/ On("servers")
     /\ \/ Top.todo # {} /\ \A x \in Server : job[Depth][x] # "stop_main"
        \/ \E s \in Server : job[Depth][s] = "stop_main"

\* An executor that has jobs left has one that waits for nobody.
LEMMA BusyGoes ==
  ASSUME NEW k \in Level, Row(job[k]), Begun(job[k]), NEW x \in Thing,
         job[k][x] \in {"pop", "stop", "parts"}
  PROVE  Going(k)
<1>1. CASE job[k][x] \in {"pop", "stop"} \/ PartsEnded(k, x)
  BY <1>1 DEF Going
<1>2. CASE job[k][x] = "parts" /\ ~PartsEnded(k, x)
  <2>1. PICK p \in Parts[x] : job[k][p] \notin {"done", "raised"}
    BY <1>2 DEF PartsEnded, Ended
  <2>2. p \in Thing /\ job[k][p] # "idle"
    BY <1>2, <2>1, BelowParts DEF Begun
  <2>3. x \in ReplicaSet /\ x \notin Cluster
    BY <1>2, RowLabels, KindsAssumption
  <2>4. p \in Server
    BY <2>1, <2>3, SetParts
  <2>5. job[k][p] # "stop_main"
    BY <1>2, <2>2 DEF Begun
  <2>6. job[k][p] \in LevelLabel(p)
    BY <2>2 DEF Row
  <2>7. LevelLabel(p) = {"idle", "pop", "stop", "stop_main", "done", "raised"}
    BY <2>4, KindsAssumption DEF LevelLabel
  <2>8. job[k][p] \in {"pop", "stop"}
    BY <2>1, <2>2, <2>5, <2>6, <2>7
  <2>9. QED
    BY <2>2, <2>8 DEF Going
<1>3. QED
  BY <1>1, <1>2

\* A handler never waits for what nobody does, whatever failed and whoever took
\* something away: it or an executor of it has a step that waits for nothing.
THEOREM HandlerGoesOn == Spec => [](stack # <<>> => ~exited /\ Ready)
<1> DEFINE IInv == TypeInv /\ InHand /\ Covered /\ AllBegun
<1>1. Init => IInv
  BY InitTypeInv, InitInHand, InitCovered, InitBegun
<1>2. IInv /\ [Next]_vars => IInv'
  BY NextTypeInv, NextInHand, NextCovered, NextBegun
<1>3. IInv => (stack # <<>> => ~exited /\ Ready)
  <2> SUFFICES ASSUME IInv, stack # <<>>
               PROVE  ~exited /\ Ready
    OBVIOUS
  <2> DEFINE r == job[Depth]
  <2>1. ~exited
    BY DEF Covered, Leaves
  <2> SUFFICES Ready
    BY <2>1
  <2>2. Depth \in Level /\ Row(r) /\ Begun(r)
    BY AtWork DEF InHand, AllBegun
  <2>3. ASSUME NEW x \in Thing, r[x] \in {"pop", "stop", "parts"}
        PROVE  Ready
    BY <2>2, <2>3, BusyGoes DEF Ready
  <2>4. CASE leaving # "no"
    <3>1. CASE \E x \in Thing : r[x] \in {"pop", "stop", "parts"}
      BY <2>3, <3>1
    <3>2. CASE \A x \in Thing : r[x] \notin {"pop", "stop", "parts"}
      BY <2>4, <3>2 DEF Ready
    <3>3. QED
      BY <3>1, <3>2
  <2>5. CASE leaving = "no" /\ Top.todo = {}
    BY <2>5 DEF Ready
  <2>6. CASE On("clusters") /\ Top.todo # {}
    <3>2. CASE \A d \in Cluster : r[d] = "idle"
      BY <2>6, <3>2 DEF Ready
    <3>3. ASSUME NEW c \in Cluster, r[c] # "idle"
          PROVE  Ready
      <4>1. c \in Thing /\ r[c] \in {"submit", "collect"}
        BY <2>2, <3>3, KindsAssumption DEF Row, LevelLabel, Thing
      <4>2. CASE r[c] = "submit" \/ PartsEnded(Depth, c)
        BY <2>6, <4>1, <4>2 DEF Ready
      <4>3. CASE r[c] = "collect" /\ ~PartsEnded(Depth, c)
        <5>1. PICK p \in Parts[c] : r[p] \notin {"done", "raised"}
          BY <4>3 DEF PartsEnded, Ended
        <5>2. p \in Thing /\ r[p] # "idle"
          BY <2>2, <4>1, <4>3, <5>1, BelowParts DEF Begun
        <5>3. p \notin Cluster
          BY <4>1, <5>1, RegistriesAssumption
        <5>4. r[p] # "stop_main"
          BY <2>6, <5>2 DEF InHand, Phase
        <5>5. r[p] \in {"pop", "stop", "parts"}
          BY <2>2, <5>1, <5>2, <5>3, <5>4, RowLabels DEF Inner
        <5>6. QED
          BY <2>3, <5>2, <5>5
      <4>4. QED
        BY <4>1, <4>2, <4>3
    <3>4. QED
      BY <3>2, <3>3
  <2>7. CASE (On("sets") \/ On("servers")) /\ Top.todo # {}
    BY <2>7 DEF Ready
  <2>8. Top.pc \in {"clusters", "sets", "servers"}
    BY DepthIsLevel DEF TypeInv, Frame
  <2>9. QED
    BY <2>4, <2>5, <2>6, <2>7, <2>8 DEF On
<1>4. QED
  BY <1>1, <1>2, <1>3, PTL DEF Spec
=============================================================================
