------------------------ MODULE ReplicaSetInitProofs ------------------------
(***************************************************************************)
(* Theorems about ReplicaSetInit, for any number of members, any choice of *)
(* arbiters and candidates, any number of crashes and deletions.           *)
(*                                                                         *)
(* Most of it is about where the request stands: which members the set     *)
(* has (Mapped), what cleanup() has removed so far (Emptied), that the     *)
(* user is everywhere when the restart begins (Known), and which members   *)
(* the restart has reached (KeyedSoFar).                                   *)
(***************************************************************************)
EXTENDS ReplicaSetInit, FiniteSetTheorems, TLAPS

-----------------------------------------------------------------------------
(***************************************************************************)
(* Types.                                                                  *)
(***************************************************************************)
LEMMA InitTypeOK == Init => TypeOK
<1> SUFFICES ASSUME Init
             PROVE  TypeOK
  OBVIOUS
<1>1. restart_required \in BOOLEAN
  BY DEF Init
<1>2. server \in [Member -> ServerRecord]
  BY DEF Init, ServerRecord, NoServer
<1>3. disturbed \in 0..Disturbances
  BY ReplicaSetInitAssumption DEF Init
<1>4. /\ params \in Params
      /\ pc \in Label
      /\ task \in [Member -> {"idle", "stopped", "done", "raised"}]
  BY DEF Init, Label, NoTask
<1>5. QED
  BY <1>1, <1>2, <1>3, <1>4, Zenon DEF Init, TypeOK

LEMMA NextTypeOK ==
  ASSUME TypeOK, [Next]_vars
  PROVE  TypeOK'
<1> USE ReplicaSetInitAssumption DEF TypeOK, Label, Params, ServerRecord,
        NoServer, requestVars, setVars, mongoVars, history, At, Goto, Submit,
        Answer, Raise, NoTask, Running
<1>1. ASSUME NEW m \in Member, MemberCreate(m) \/ MemberFails(m)
      PROVE  TypeOK'
  <2>1. CASE MemberCreate(m)
    BY <2>1 DEF MemberCreate, Ends
  <2>2. CASE MemberFails(m)
    BY <2>2 DEF MemberFails, Ends
  <2>3. QED
    BY <1>1, <2>1, <2>2
<1>2. ASSUME NEW m \in Member, CleanupMember(m)
      PROVE  TypeOK'
  BY <1>2 DEF CleanupMember, Ends, Stopped
<1>3. ASSUME NEW m \in Member, RestartStop(m) \/ RestartStart(m) \/
             RestartFails(m)
      PROVE  TypeOK'
  BY <1>3 DEF RestartStop, RestartStart, RestartFails, Ends, Stopped, Started
<1>4. ASSUME NEW m \in Member, ResetMember(m)
      PROVE  TypeOK'
  <2>1. server' \in [Member -> ServerRecord]
    <3>1. CASE Running(m)
      BY <1>4, <3>1 DEF ResetMember
    <3>2. CASE ~Running(m)
      <4>1. server' = Started(m)
        BY <1>4, <3>2 DEF ResetMember
      <4>2. QED
        BY <4>1 DEF Started
    <3>3. QED
      BY <3>1, <3>2
  <2>2. QED
    BY <1>4, <2>1 DEF ResetMember, Ends
<1>5. ASSUME MembersEnd \/ ReplInit \/ Reached \/ Unreachable
      PROVE  TypeOK'
  <2>1. CASE MembersEnd
    BY <2>1 DEF MembersEnd
  <2>2. CASE ReplInit
    BY <2>2 DEF ReplInit
  <2>3. CASE Reached
    BY <2>3 DEF Reached
  <2>4. CASE Unreachable
    BY <2>4 DEF Unreachable
  <2>5. QED
    BY <1>5, <2>1, <2>2, <2>3, <2>4
<1>6. ASSUME Initiate \/ InitiateFails \/ StatesOk \/ StatesTimeOut
      PROVE  TypeOK'
  BY <1>6 DEF Initiate, InitiateFails, StatesOk, StatesTimeOut
<1>7. ASSUME CleanupEnds
      PROVE  TypeOK'
  BY <1>7 DEF CleanupEnds, Collected, Raised
<1>8. ASSUME ConfigOk \/ ConfigFails \/ UserAcked \/ UsersFail
      PROVE  TypeOK'
  BY <1>8 DEF ConfigOk, ConfigFails, UserAcked, UsersFail
<1>9. ASSUME CreateUser
      PROVE  TypeOK'
  BY <1>9 DEF CreateUser, Connects
<1>10. ASSUME RestartWithAuth
       PROVE  TypeOK'
  <2>1. CASE \E m \in server_map : ~server[m].reg
    BY <1>10, <2>1 DEF RestartWithAuth
  <2>2. CASE ~\E m \in server_map : ~server[m].reg
    <3>1. server' \in [Member -> ServerRecord]
      BY <1>10, <2>2 DEF RestartWithAuth
    <3>2. QED
      BY <1>10, <2>2, <3>1 DEF RestartWithAuth
  <2>3. QED
    BY <2>1, <2>2
<1>11. ASSUME RestartEnds
       PROVE  TypeOK'
  BY <1>11 DEF RestartEnds, Collected, Raised
<1>12. ASSUME SettleOk \/ SettleTimesOut \/ Actualized \/ ActualizeTimesOut \/
              PrimaryFound \/ NoPrimary
       PROVE  TypeOK'
  BY <1>12 DEF SettleOk, SettleTimesOut, Actualized, ActualizeTimesOut,
     PrimaryFound, NoPrimary
<1>13. ASSUME Register \/ Reset
       PROVE  TypeOK'
  BY <1>13 DEF Register, Reset
<1>14. ASSUME ResetFails \/ ResetEnds
       PROVE  TypeOK'
  BY <1>14 DEF ResetFails, ResetEnds
<1>15. ASSUME NEW m \in Member, Settle(m) \/ Elect(m) \/ Replicate(m)
       PROVE  TypeOK'
  <2>1. CASE Settle(m)
    BY <2>1 DEF Settle
  <2>2. CASE Elect(m)
    BY <2>2 DEF Elect
  <2>3. CASE Replicate(m)
    <3>1. server' = [server EXCEPT ![m].user = TRUE]
      BY <2>3 DEF Replicate
    <3>2. server' \in [Member -> ServerRecord]
      BY <3>1
    <3>3. QED
      BY <2>3, <3>2 DEF Replicate
  <2>4. QED
    BY <1>15, <2>1, <2>2, <2>3
<1>16. ASSUME StepDown
       PROVE  TypeOK'
  BY <1>16 DEF StepDown
<1>17. ASSUME NEW m \in Member, Crash(m) \/ RemoveBehind(m)
       PROVE  TypeOK'
  <2>1. CASE Crash(m)
    BY <2>1 DEF Crash, Disturb, Stopped
  <2>2. CASE RemoveBehind(m)
    BY <2>2 DEF RemoveBehind, Disturb, Stopped
  <2>3. QED
    BY <1>17, <2>1, <2>2
<1>18. CASE UNCHANGED vars
  BY <1>18 DEF vars
<1>19. QED
  BY <1>1, <1>2, <1>3, <1>4, <1>5, <1>6, <1>7, <1>8, <1>9, <1>10, <1>11, <1>12,
     <1>13, <1>14, <1>15, <1>16, <1>17, <1>18
     DEF Next, MemberStep, Step, Environment

\* Whatever fails, crashes or is deleted while a set is created or reset, the
\* request, the set and its servers keep their types.
THEOREM TypeCorrect == Spec => []TypeOK
BY InitTypeOK, NextTypeOK, PTL DEF Spec

-----------------------------------------------------------------------------
(***************************************************************************)
(* Where the request stands.                                               *)
(***************************************************************************)
Registering == {"settle", "actualize", "primary", "register"}

\* From repl_init on the map has all members, but for what cleanup() clears; a
\* set that is stored has been through the constructor; and a registered
\* server has been started.
Mapped ==
  /\ pc \in Registering \cup {"reach", "initiate", "states", "config", "users",
                             "acks", "auth", "restart", "reset"} \/ stored
       => server_map = Member
  /\ stored => pc \in {"reset", "end"} /\ reply # "refused"
  /\ \A m \in Member : server[m].reg => server[m].st # "none"

LEMMA InitMapped == Init => Mapped
BY DEF Init, Mapped, NoServer, Registering

LEMMA NextMapped ==
  ASSUME TypeOK, Mapped, [Next]_vars
  PROVE  Mapped'
<1> USE ReplicaSetInitAssumption DEF TypeOK, Label, Params, ServerRecord,
        NoServer, Registering, Mapped, requestVars, setVars, mongoVars,
        history, At, Goto, Submit, Answer, Raise, NoTask, Running
<1>1. ASSUME NEW m \in Member, MemberCreate(m) \/ MemberFails(m)
      PROVE  Mapped'
  <2>1. CASE MemberCreate(m)
    BY <2>1 DEF MemberCreate, Ends
  <2>2. CASE MemberFails(m)
    BY <2>2 DEF MemberFails, Ends
  <2>3. QED
    BY <1>1, <2>1, <2>2
<1>2. ASSUME NEW m \in Member, CleanupMember(m)
      PROVE  Mapped'
  BY <1>2 DEF CleanupMember, Ends, Stopped
<1>3. ASSUME NEW m \in Member, RestartStop(m) \/ RestartStart(m) \/
             RestartFails(m)
      PROVE  Mapped'
  BY <1>3 DEF RestartStop, RestartStart, RestartFails, Ends, Stopped, Started
<1>4. ASSUME NEW m \in Member, ResetMember(m)
      PROVE  Mapped'
  BY <1>4 DEF ResetMember, Ends, Started
<1>5. ASSUME MembersEnd \/ ReplInit \/ Reached \/ Unreachable
      PROVE  Mapped'
  BY <1>5 DEF MembersEnd, ReplInit, Reached, Unreachable
<1>6. ASSUME Initiate \/ InitiateFails \/ StatesOk \/ StatesTimeOut
      PROVE  Mapped'
  BY <1>6 DEF Initiate, InitiateFails, StatesOk, StatesTimeOut
<1>7. ASSUME CleanupEnds
      PROVE  Mapped'
  BY <1>7 DEF CleanupEnds, Collected, Raised
<1>8. ASSUME ConfigOk \/ ConfigFails \/ UserAcked \/ UsersFail
      PROVE  Mapped'
  BY <1>8 DEF ConfigOk, ConfigFails, UserAcked, UsersFail
<1>9. ASSUME CreateUser
      PROVE  Mapped'
  BY <1>9 DEF CreateUser, Connects
<1>10. ASSUME RestartWithAuth
       PROVE  Mapped'
  BY <1>10 DEF RestartWithAuth
<1>11. ASSUME RestartEnds
       PROVE  Mapped'
  BY <1>11 DEF RestartEnds, Collected, Raised
<1>12. ASSUME SettleOk \/ SettleTimesOut \/ Actualized \/ ActualizeTimesOut \/
              PrimaryFound \/ NoPrimary
       PROVE  Mapped'
  BY <1>12 DEF SettleOk, SettleTimesOut, Actualized, ActualizeTimesOut,
     PrimaryFound, NoPrimary
<1>13. ASSUME Register \/ Reset
       PROVE  Mapped'
  BY <1>13 DEF Register, Reset
<1>14. ASSUME ResetFails \/ ResetEnds
       PROVE  Mapped'
  BY <1>14 DEF ResetFails, ResetEnds
<1>15. ASSUME NEW m \in Member, Settle(m) \/ Elect(m) \/ Replicate(m)
       PROVE  Mapped'
  BY <1>15 DEF Settle, Elect, Replicate
<1>16. ASSUME StepDown
       PROVE  Mapped'
  BY <1>16 DEF StepDown
<1>17. ASSUME NEW m \in Member, Crash(m) \/ RemoveBehind(m)
       PROVE  Mapped'
  BY <1>17 DEF Crash, RemoveBehind, Disturb, Stopped
<1>18. CASE UNCHANGED vars
  BY <1>18 DEF vars
<1>19. QED
  BY <1>1, <1>2, <1>3, <1>4, <1>5, <1>6, <1>7, <1>8, <1>9, <1>10, <1>11, <1>12,
     <1>13, <1>14, <1>15, <1>16, <1>17, <1>18
     DEF Next, MemberStep, Step, Environment

-----------------------------------------------------------------------------
(***************************************************************************)
(* A set that was refused.                                                 *)
(***************************************************************************)
\* cleanup() has removed the members whose futures have ended, and, when it
\* runs for the second time, all of them.
Emptied ==
  /\ pc \in {"cleanup_init", "cleanup"} =>
       \A m \in Member :
         m \notin server_map \/ task[m] # "idle" => server[m] = NoServer
  /\ RefusedIsEmpty
  /\ reply = "refused" => pc = "end"

LEMMA InitEmptied == Init => Emptied
BY DEF Init, Emptied, RefusedIsEmpty

LEMMA NextEmptied ==
  ASSUME TypeOK, Mapped, Emptied, [Next]_vars
  PROVE  Emptied'
<1> USE ReplicaSetInitAssumption DEF TypeOK, Label, Params, ServerRecord,
        NoServer, Registering, Mapped, Emptied, RefusedIsEmpty, requestVars,
        setVars, mongoVars, history, At, Goto, Submit, Answer, Raise, NoTask,
        Running
<1>1. ASSUME NEW m \in Member, MemberCreate(m) \/ MemberFails(m)
      PROVE  Emptied'
  BY <1>1 DEF MemberCreate, MemberFails, Ends
<1>2. ASSUME NEW m \in Member, CleanupMember(m)
      PROVE  Emptied'
  BY <1>2 DEF CleanupMember, Ends, Stopped
<1>3. ASSUME NEW m \in Member, RestartStop(m) \/ RestartStart(m) \/
             RestartFails(m)
      PROVE  Emptied'
  BY <1>3 DEF RestartStop, RestartStart, RestartFails, Ends, Stopped, Started
<1>4. ASSUME NEW m \in Member, ResetMember(m)
      PROVE  Emptied'
  BY <1>4 DEF ResetMember, Ends, Started
<1>5. ASSUME MembersEnd \/ ReplInit \/ Reached \/ Unreachable
      PROVE  Emptied'
  BY <1>5 DEF MembersEnd, ReplInit, Reached, Unreachable
<1>6. ASSUME Initiate \/ InitiateFails \/ StatesOk \/ StatesTimeOut
      PROVE  Emptied'
  BY <1>6 DEF Initiate, InitiateFails, StatesOk, StatesTimeOut
<1>7. ASSUME CleanupEnds
      PROVE  Emptied'
  BY <1>7 DEF CleanupEnds, Collected, Raised
<1>8. ASSUME ConfigOk \/ ConfigFails \/ UserAcked \/ UsersFail
      PROVE  Emptied'
  BY <1>8 DEF ConfigOk, ConfigFails, UserAcked, UsersFail
<1>9. ASSUME CreateUser
      PROVE  Emptied'
  BY <1>9 DEF CreateUser, Connects
<1>10. ASSUME RestartWithAuth
       PROVE  Emptied'
  BY <1>10 DEF RestartWithAuth
<1>11. ASSUME RestartEnds
       PROVE  Emptied'
  BY <1>11 DEF RestartEnds, Collected, Raised
<1>12. ASSUME SettleOk \/ SettleTimesOut \/ Actualized \/ ActualizeTimesOut \/
              PrimaryFound \/ NoPrimary
       PROVE  Emptied'
  BY <1>12 DEF SettleOk, SettleTimesOut, Actualized, ActualizeTimesOut,
     PrimaryFound, NoPrimary
<1>13. ASSUME Register \/ Reset
       PROVE  Emptied'
  BY <1>13 DEF Register, Reset
<1>14. ASSUME ResetFails \/ ResetEnds
       PROVE  Emptied'
  BY <1>14 DEF ResetFails, ResetEnds
<1>15. ASSUME NEW m \in Member, Settle(m) \/ Elect(m) \/ Replicate(m)
       PROVE  Emptied'
  <2>1. CASE Settle(m)
    <3> HIDE DEF NoServer, ServerRecord
    <3>1. server[m] # NoServer
      BY <2>1 DEF Settle, NoServer
    <3>2. \A n \in Member : n # m => server'[n] = server[n]
      BY <2>1 DEF Settle
    <3>3. QED
      BY <2>1, <3>1, <3>2 DEF Settle
  <2>2. CASE Elect(m)
    BY <2>2 DEF Elect
  <2>3. CASE Replicate(m)
    <3> HIDE DEF NoServer, ServerRecord
    <3>1. server[m] # NoServer
      BY <2>3 DEF Replicate, Peers, NoServer
    <3>2. \A n \in Member : n # m => server'[n] = server[n]
      BY <2>3 DEF Replicate, Peers
    <3>3. QED
      BY <2>3, <3>1, <3>2 DEF Replicate, Peers
  <2>4. QED
    BY <1>15, <2>1, <2>2, <2>3
<1>16. ASSUME StepDown
       PROVE  Emptied'
  BY <1>16 DEF StepDown
<1>17. ASSUME NEW m \in Member, Crash(m) \/ RemoveBehind(m)
       PROVE  Emptied'
  <2>1. CASE Crash(m)
    <3> HIDE DEF NoServer, ServerRecord
    <3>1. server[m] # NoServer
      BY <2>1 DEF Crash, Disturb, NoServer
    <3>2. \A n \in Member : n # m => server'[n] = server[n]
      BY <2>1 DEF Crash, Disturb
    <3>3. QED
      BY <2>1, <3>1, <3>2 DEF Crash, Disturb
  <2>2. CASE RemoveBehind(m)
    BY <2>2 DEF RemoveBehind, Disturb, Stopped
  <2>3. QED
    BY <1>17, <2>1, <2>2
<1>18. CASE UNCHANGED vars
  BY <1>18 DEF vars
<1>19. QED
  BY <1>1, <1>2, <1>3, <1>4, <1>5, <1>6, <1>7, <1>8, <1>9, <1>10, <1>11, <1>12,
     <1>13, <1>14, <1>15, <1>16, <1>17, <1>18
     DEF Next, MemberStep, Step, Environment

\* After "Could not create replica set." no server of the set is registered or
\* runs, whichever member failed first and whoever crashed or was deleted while
\* cleanup() ran.
THEOREM RefusedLeavesNothing == Spec => []RefusedIsEmpty
<1> DEFINE IInv == TypeOK /\ Mapped /\ Emptied
<1>1. Init => IInv
  BY InitTypeOK, InitMapped, InitEmptied
<1>2. IInv /\ [Next]_vars => IInv'
  BY NextTypeOK, NextMapped, NextEmptied
<1>3. IInv => RefusedIsEmpty
  BY DEF Emptied
<1>4. QED
  BY <1>1, <1>2, <1>3, PTL DEF Spec

-----------------------------------------------------------------------------
(***************************************************************************)
(* The user.                                                               *)
(***************************************************************************)
\* The write concern of createUser counts all data-bearing members, so that
\* they have the user when restart_with_auth begins; no server is made later.
Known ==
  params.login =>
    /\ At("members") => restart_required
    /\ At("auth") \/ ~restart_required =>
         \A m \in Data : server[m].reg => server[m].user

\* Members that are as many as the data-bearing ones are all of them.
LEMMA AllAcked ==
  ASSUME NEW S \in SUBSET Data, Cardinality(S) >= WriteConcern
  PROVE  S = Data
<1>1. IsFiniteSet(Data)
  BY ReplicaSetInitAssumption, FS_Subset DEF Data
<1>2. /\ Cardinality(S) \in Nat /\ Cardinality(Data) \in Nat
      /\ Cardinality(S) <= Cardinality(Data)
      /\ Cardinality(S) = Cardinality(Data) => S = Data
  BY <1>1, FS_Subset, FS_CardinalityType
<1>3. QED
  BY <1>2 DEF WriteConcern

LEMMA InitKnown == Init => Known
BY DEF Init, Known, At

LEMMA NextKnown ==
  ASSUME TypeOK, Known, [Next]_vars
  PROVE  Known'
<1> USE ReplicaSetInitAssumption DEF TypeOK, Label, Params, ServerRecord,
        NoServer, Known, Data, Arbiters, requestVars, setVars, mongoVars,
        history, At, Goto, Submit, Answer, Raise, NoTask, Running
<1>1. ASSUME NEW m \in Member, MemberCreate(m) \/ MemberFails(m)
      PROVE  Known'
  BY <1>1 DEF MemberCreate, MemberFails, Ends
<1>2. ASSUME NEW m \in Member, CleanupMember(m)
      PROVE  Known'
  BY <1>2 DEF CleanupMember, Ends, Stopped
<1>3. ASSUME NEW m \in Member, RestartStop(m) \/ RestartStart(m) \/
             RestartFails(m)
      PROVE  Known'
  BY <1>3 DEF RestartStop, RestartStart, RestartFails, Ends, Stopped, Started
<1>4. ASSUME NEW m \in Member, ResetMember(m)
      PROVE  Known'
  BY <1>4 DEF ResetMember, Ends, Started
<1>5. ASSUME MembersEnd \/ ReplInit \/ Reached \/ Unreachable
      PROVE  Known'
  BY <1>5 DEF MembersEnd, ReplInit, Reached, Unreachable
<1>6. ASSUME Initiate \/ InitiateFails \/ StatesOk \/ StatesTimeOut
      PROVE  Known'
  BY <1>6 DEF Initiate, InitiateFails, StatesOk, StatesTimeOut
<1>7. ASSUME CleanupEnds
      PROVE  Known'
  BY <1>7 DEF CleanupEnds, Collected, Raised
<1>8. ASSUME ConfigOk \/ ConfigFails \/ UserAcked \/ UsersFail
      PROVE  Known'
  <2>1. CASE UserAcked
    <3> DEFINE Acked == {m \in Data : server[m].user}
    <3>1. Acked = Data
      BY <2>1, AllAcked DEF UserAcked
    <3>2. \A m \in Data : server[m].user
      BY <3>1
    <3>3. QED
      BY <2>1, <3>2 DEF UserAcked
  <2>2. CASE ConfigOk \/ ConfigFails \/ UsersFail
    BY <2>2 DEF ConfigOk, ConfigFails, UsersFail
  <2>3. QED
    BY <1>8, <2>1, <2>2
<1>9. ASSUME CreateUser
      PROVE  Known'
  BY <1>9 DEF CreateUser, Connects
<1>10. ASSUME RestartWithAuth
       PROVE  Known'
  BY <1>10 DEF RestartWithAuth
<1>11. ASSUME RestartEnds
       PROVE  Known'
  BY <1>11 DEF RestartEnds, Collected, Raised
<1>12. ASSUME SettleOk \/ SettleTimesOut \/ Actualized \/ ActualizeTimesOut \/
              PrimaryFound \/ NoPrimary
       PROVE  Known'
  BY <1>12 DEF SettleOk, SettleTimesOut, Actualized, ActualizeTimesOut,
     PrimaryFound, NoPrimary
<1>13. ASSUME Register \/ Reset
       PROVE  Known'
  BY <1>13 DEF Register, Reset
<1>14. ASSUME ResetFails \/ ResetEnds
       PROVE  Known'
  BY <1>14 DEF ResetFails, ResetEnds
<1>15. ASSUME NEW m \in Member, Settle(m) \/ Elect(m) \/ Replicate(m)
       PROVE  Known'
  BY <1>15 DEF Settle, Elect, Replicate
<1>16. ASSUME StepDown
       PROVE  Known'
  BY <1>16 DEF StepDown
<1>17. ASSUME NEW m \in Member, Crash(m) \/ RemoveBehind(m)
       PROVE  Known'
  <2>1. CASE Crash(m)
    BY <2>1 DEF Crash, Disturb, Stopped
  <2>2. CASE RemoveBehind(m)
    BY <2>2 DEF RemoveBehind, Disturb, Stopped
  <2>3. QED
    BY <1>17, <2>1, <2>2
<1>18. CASE UNCHANGED vars
  BY <1>18 DEF vars
<1>19. QED
  BY <1>1, <1>2, <1>3, <1>4, <1>5, <1>6, <1>7, <1>8, <1>9, <1>10, <1>11, <1>12,
     <1>13, <1>14, <1>15, <1>16, <1>17, <1>18
     DEF Next, MemberStep, Step, Environment

\* No connection logs in before every data-bearing member has the user, for any
\* number of members, elections and crashes between createUser and the restart.
THEOREM UserFirst == Spec => []UserBeforeLogin
<1> DEFINE IInv == TypeOK /\ Known
<1>1. Init => IInv
  BY InitTypeOK, InitKnown
<1>2. IInv /\ [Next]_vars => IInv'
  BY NextTypeOK, NextKnown
<1>3. IInv => UserBeforeLogin
  BY DEF Known, UserBeforeLogin
<1>4. QED
  BY <1>1, <1>2, <1>3, PTL DEF Spec

-----------------------------------------------------------------------------
(***************************************************************************)
(* The keyFile.                                                            *)
(***************************************************************************)
\* The server of m has the keyFile in its configuration, and in use.
Keyed(m) ==
  /\ server[m].st # "none" => server[m].conf
  /\ Running(m) => server[m].keyed

\* The executor of restart_with_auth has been at the members whose futures do
\* not wait; who goes on has been at all of them.
KeyedSoFar ==
  params.auth_key =>
    /\ At("restart") => \A m \in Member : task[m] # "idle" => Keyed(m)
    /\ pc \in Registering \/ stored => \A m \in Member : Keyed(m)

LEMMA InitKeyedSoFar == Init => KeyedSoFar
BY DEF Init, KeyedSoFar, At, Registering

LEMMA NextKeyedSoFar ==
  ASSUME TypeOK, Mapped, KeyedSoFar, [Next]_vars
  PROVE  KeyedSoFar'
<1> USE ReplicaSetInitAssumption DEF TypeOK, Label, Params, ServerRecord,
        NoServer, Registering, Mapped, Keyed, KeyedSoFar, requestVars, setVars,
        mongoVars, history, At, Goto, Submit, Answer, Raise, NoTask, Running
<1>1. ASSUME NEW m \in Member, MemberCreate(m) \/ MemberFails(m)
      PROVE  KeyedSoFar'
  BY <1>1 DEF MemberCreate, MemberFails, Ends
<1>2. ASSUME NEW m \in Member, CleanupMember(m)
      PROVE  KeyedSoFar'
  BY <1>2 DEF CleanupMember, Ends, Stopped
<1>3. ASSUME NEW m \in Member, RestartStop(m) \/ RestartStart(m) \/
             RestartFails(m)
      PROVE  KeyedSoFar'
  BY <1>3 DEF RestartStop, RestartStart, RestartFails, Ends, Stopped, Started
<1>4. ASSUME NEW m \in Member, ResetMember(m)
      PROVE  KeyedSoFar'
  BY <1>4 DEF ResetMember, Ends, Started
<1>5. ASSUME MembersEnd \/ ReplInit \/ Reached \/ Unreachable
      PROVE  KeyedSoFar'
  BY <1>5 DEF MembersEnd, ReplInit, Reached, Unreachable
<1>6. ASSUME Initiate \/ InitiateFails \/ StatesOk \/ StatesTimeOut
      PROVE  KeyedSoFar'
  BY <1>6 DEF Initiate, InitiateFails, StatesOk, StatesTimeOut
<1>7. ASSUME CleanupEnds
      PROVE  KeyedSoFar'
  BY <1>7 DEF CleanupEnds, Collected, Raised
<1>8. ASSUME ConfigOk \/ ConfigFails \/ UserAcked \/ UsersFail
      PROVE  KeyedSoFar'
  BY <1>8 DEF ConfigOk, ConfigFails, UserAcked, UsersFail
<1>9. ASSUME CreateUser
      PROVE  KeyedSoFar'
  BY <1>9 DEF CreateUser, Connects
<1>10. ASSUME RestartWithAuth
       PROVE  KeyedSoFar'
  BY <1>10 DEF RestartWithAuth
<1>11. ASSUME RestartEnds
       PROVE  KeyedSoFar'
  BY <1>11 DEF RestartEnds, Collected, Raised
<1>12. ASSUME SettleOk \/ SettleTimesOut \/ Actualized \/ ActualizeTimesOut \/
              PrimaryFound \/ NoPrimary
       PROVE  KeyedSoFar'
  BY <1>12 DEF SettleOk, SettleTimesOut, Actualized, ActualizeTimesOut,
     PrimaryFound, NoPrimary
<1>13. ASSUME Register \/ Reset
       PROVE  KeyedSoFar'
  BY <1>13 DEF Register, Reset
<1>14. ASSUME ResetFails \/ ResetEnds
       PROVE  KeyedSoFar'
  BY <1>14 DEF ResetFails, ResetEnds
<1>15. ASSUME NEW m \in Member, Settle(m) \/ Elect(m) \/ Replicate(m)
       PROVE  KeyedSoFar'
  BY <1>15 DEF Settle, Elect, Replicate
<1>16. ASSUME StepDown
       PROVE  KeyedSoFar'
  BY <1>16 DEF StepDown
<1>17. ASSUME NEW m \in Member, Crash(m) \/ RemoveBehind(m)
       PROVE  KeyedSoFar'
  BY <1>17 DEF Crash, RemoveBehind, Disturb, Stopped
<1>18. CASE UNCHANGED vars
  BY <1>18 DEF vars
<1>19. QED
  BY <1>1, <1>2, <1>3, <1>4, <1>5, <1>6, <1>7, <1>8, <1>9, <1>10, <1>11, <1>12,
     <1>13, <1>14, <1>15, <1>16, <1>17, <1>18
     DEF Next, MemberStep, Step, Environment

\* Every running member of a registered set with an auth_key has been started
\* with the keyFile: at the restart with authentication, and whenever it was
\* started again after a crash.
THEOREM StaysKeyed == Spec => []StoredKeyed
<1> DEFINE IInv == TypeOK /\ Mapped /\ KeyedSoFar
<1>1. Init => IInv
  BY InitTypeOK, InitMapped, InitKeyedSoFar
<1>2. IInv /\ [Next]_vars => IInv'
  BY NextTypeOK, NextMapped, NextKeyedSoFar
<1>3. IInv => StoredKeyed
  BY DEF KeyedSoFar, Keyed, StoredKeyed
<1>4. QED
  BY <1>1, <1>2, <1>3, PTL DEF Spec

-----------------------------------------------------------------------------
(***************************************************************************)
(* reset().                                                                *)
(***************************************************************************)
\* A member that reset() has been at runs, or has gone down since.
Revived ==
  At("reset") =>
    /\ reply = "none"
    /\ \A m \in Member :
         task[m] = "idle" \/ (task[m] = "done" /\ (Running(m) \/ m \in since))

LEMMA InitRevived == Init => Revived
BY DEF Init, Revived, At

LEMMA NextRevived ==
  ASSUME TypeOK, Revived, [Next]_vars
  PROVE  Revived'
<1> USE ReplicaSetInitAssumption DEF TypeOK, Label, Params, ServerRecord,
        NoServer, Revived, requestVars, setVars, mongoVars, history, At, Goto,
        Submit, Answer, Raise, NoTask, Running
<1>1. ASSUME NEW m \in Member, MemberCreate(m) \/ MemberFails(m)
      PROVE  Revived'
  BY <1>1 DEF MemberCreate, MemberFails, Ends
<1>2. ASSUME NEW m \in Member, CleanupMember(m)
      PROVE  Revived'
  BY <1>2 DEF CleanupMember, Ends, Stopped
<1>3. ASSUME NEW m \in Member, RestartStop(m) \/ RestartStart(m) \/
             RestartFails(m)
      PROVE  Revived'
  BY <1>3 DEF RestartStop, RestartStart, RestartFails, Ends, Stopped, Started
<1>4. ASSUME NEW m \in Member, ResetMember(m)
      PROVE  Revived'
  BY <1>4 DEF ResetMember, Ends, Started
<1>5. ASSUME MembersEnd \/ ReplInit \/ Reached \/ Unreachable
      PROVE  Revived'
  BY <1>5 DEF MembersEnd, ReplInit, Reached, Unreachable
<1>6. ASSUME Initiate \/ InitiateFails \/ StatesOk \/ StatesTimeOut
      PROVE  Revived'
  BY <1>6 DEF Initiate, InitiateFails, StatesOk, StatesTimeOut
<1>7. ASSUME CleanupEnds
      PROVE  Revived'
  BY <1>7 DEF CleanupEnds, Collected, Raised
<1>8. ASSUME ConfigOk \/ ConfigFails \/ UserAcked \/ UsersFail
      PROVE  Revived'
  BY <1>8 DEF ConfigOk, ConfigFails, UserAcked, UsersFail
<1>9. ASSUME CreateUser
      PROVE  Revived'
  BY <1>9 DEF CreateUser, Connects
<1>10. ASSUME RestartWithAuth
       PROVE  Revived'
  BY <1>10 DEF RestartWithAuth
<1>11. ASSUME RestartEnds
       PROVE  Revived'
  BY <1>11 DEF RestartEnds, Collected, Raised
<1>12. ASSUME SettleOk \/ SettleTimesOut \/ Actualized \/ ActualizeTimesOut \/
              PrimaryFound \/ NoPrimary
       PROVE  Revived'
  BY <1>12 DEF SettleOk, SettleTimesOut, Actualized, ActualizeTimesOut,
     PrimaryFound, NoPrimary
<1>13. ASSUME Register \/ Reset
       PROVE  Revived'
  <2>1. CASE Register
    BY <2>1 DEF Register
  <2>2. CASE Reset
    <3>1. reply' = "none" /\ \A m \in Member : task'[m] = "idle"
      BY <2>2 DEF Reset
    <3>2. QED
      BY <3>1
  <2>3. QED
    BY <1>13, <2>1, <2>2
<1>14. ASSUME ResetFails \/ ResetEnds
       PROVE  Revived'
  BY <1>14 DEF ResetFails, ResetEnds
<1>15. ASSUME NEW m \in Member, Settle(m) \/ Elect(m) \/ Replicate(m)
       PROVE  Revived'
  BY <1>15 DEF Settle, Elect, Replicate
<1>16. ASSUME StepDown
       PROVE  Revived'
  BY <1>16 DEF StepDown
<1>17. ASSUME NEW m \in Member, Crash(m) \/ RemoveBehind(m)
       PROVE  Revived'
  BY <1>17 DEF Crash, RemoveBehind, Disturb, Stopped
<1>18. CASE UNCHANGED vars
  BY <1>18 DEF vars
<1>19. QED
  BY <1>1, <1>2, <1>3, <1>4, <1>5, <1>6, <1>7, <1>8, <1>9, <1>10, <1>11, <1>12,
     <1>13, <1>14, <1>15, <1>16, <1>17, <1>18
     DEF Next, MemberStep, Step, Environment

\* When reset() answers without an error, every member runs that has not gone
\* down since it began, for any number of members.
THEOREM ResetIsThorough == Spec => ResetRevives
<1> DEFINE IInv == TypeOK /\ Revived
           Thorough == At("reset") /\ reply' = "ok" =>
             \A m \in server_map : Running(m) \/ m \in since
<1>1. Init => IInv
  BY InitTypeOK, InitRevived
<1>2. IInv /\ [Next]_vars => IInv'
  BY NextTypeOK, NextRevived
<1>3. IInv /\ [Next]_vars => [Thorough]_vars
  <2>1. ASSUME IInv, Next, At("reset"), reply' = "ok"
        PROVE  \A m \in server_map : Running(m) \/ m \in since
    <3>1. ResetEnds
      <4> USE DEF Revived, requestVars, At, Goto, Submit, Answer, Raise
      <4>1. ASSUME NEW m \in Member, MemberStep(m)
            PROVE  FALSE
        BY <2>1, <4>1
           DEF MemberStep, MemberCreate, MemberFails, CleanupMember,
               RestartStop, RestartStart, RestartFails, ResetMember, Ends
      <4>2. CASE Step
        BY <2>1, <4>2
           DEF Step, MembersEnd, ReplInit, Reached, Unreachable, Initiate,
               InitiateFails, StatesOk, StatesTimeOut, CleanupEnds, ConfigOk,
               ConfigFails, CreateUser, UserAcked, UsersFail, RestartWithAuth,
               RestartEnds, SettleOk, SettleTimesOut, Actualized,
               ActualizeTimesOut, PrimaryFound, NoPrimary, Register, ResetFails
      <4>3. CASE Reset \/ Environment
        BY <2>1, <4>3
           DEF Reset, Environment, StepDown, Settle, Elect, Replicate, Crash,
               RemoveBehind
      <4>4. QED
        BY <2>1, <4>1, <4>2, <4>3 DEF Next
    <3>2. QED
      BY <2>1, <3>1 DEF ResetEnds, Collected, Revived, TypeOK
  <2>2. QED
    BY <2>1
<1>4. QED
  BY <1>1, <1>2, <1>3, PTL DEF Spec, ResetRevives
=============================================================================
