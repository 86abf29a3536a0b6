---------------------------- MODULE DaemonProofs ----------------------------
(***************************************************************************)
(* Theorems about Daemon, for any number of daemons, shells, commands and  *)
(* kills.                                                                  *)
(*                                                                         *)
(* That the file is fresh rests on who has it open.  That it names the     *)
(* daemon that serves needs the whole story of one daemon and one command: *)
(* what the file says at every point of the daemon's start (FileFollows),  *)
(* and that what a command has read stays true until it acts on it         *)
(* (CommandKnows).                                                         *)
(***************************************************************************)
EXTENDS Daemon, FiniteSetTheorems, TLAPS

-----------------------------------------------------------------------------
(***************************************************************************)
(* Types.                                                                  *)
(***************************************************************************)
\* A command that waits for a daemon, or signals one, has its id.
HasPid ==
  \A s \in Shell : command[s].pc \in {"await", "kill", "wait"} =>
    command[s].pid \in Pid

TypeInv == TypeOK /\ HasPid

LEMMA InitTypeInv == Init => TypeInv
<1> SUFFICES ASSUME Init
             PROVE  TypeInv
  OBVIOUS
<1>1. Cardinality(Pid) \in Nat
  BY DaemonAssumption, FS_CardinalityType
<1>2. alone \in BOOLEAN /\ single \in BOOLEAN /\ crowded \in BOOLEAN
  BY DEF Init
<1>3. QED
  BY <1>1, <1>2, DaemonAssumption
     DEF Init, TypeInv, TypeOK, HasPid, Idle, Command

LEMMA NextTypeInv ==
  ASSUME TypeInv, [Next]_vars
  PROVE  TypeInv'
<1> USE DaemonAssumption DEF TypeInv, TypeOK, HasPid, Command, Idle, fileVars,
        counters, history, At, Becomes, Alive, Busy, In
<1>1. ASSUME NEW p \in Pid, Register(p)
      PROVE  TypeInv'
  BY <1>1 DEF Register
<1>2. ASSUME NEW p \in Pid, Open(p)
      PROVE  TypeInv'
  BY <1>2 DEF Open
<1>3. ASSUME NEW p \in Pid, Write(p)
      PROVE  TypeInv'
  BY <1>3 DEF Write
<1>4. ASSUME NEW p \in Pid, Setup(p)
      PROVE  TypeInv'
  BY <1>4 DEF Setup
<1>5. ASSUME NEW p \in Pid, Bind(p)
      PROVE  TypeInv'
  BY <1>5 DEF Bind
<1>6. ASSUME NEW p \in Pid, Exits(p)
      PROVE  TypeInv'
  BY <1>6 DEF Exits
<1>7. ASSUME NEW p \in Pid, Survives(p)
      PROVE  TypeInv'
  BY <1>7 DEF Survives
<1>8. ASSUME NEW p \in Pid, Delpid(p)
      PROVE  TypeInv'
  BY <1>8 DEF Delpid, Unlinked
<1>9. ASSUME NEW p \in Pid, Crash(p)
      PROVE  TypeInv'
  BY <1>9 DEF Crash
<1>10. ASSUME NEW p \in Pid, Recycle(p)
       PROVE  TypeInv'
  BY <1>10 DEF Recycle
<1>11. ASSUME NEW p \in Pid, ForeignEnds(p)
       PROVE  TypeInv'
  BY <1>11 DEF ForeignEnds
<1>12. ASSUME NEW s \in Shell, NEW op \in {"start", "stop", "restart"},
             Begin(s, op)
       PROVE  TypeInv'
  <2>1. Cardinality(Pid) \in Nat
    BY FS_CardinalityType
  <2>2. alone' \in BOOLEAN
    BY <1>12 DEF Begin
  <2>3. /\ commands' \in 0..MaxCommands
        /\ starts' \in 0..Cardinality(Pid)
    BY <1>12, <2>1 DEF Begin
  <2>4. command' \in [Shell -> Command] /\ HasPid'
    BY <1>12 DEF Begin
  <2>5. QED
    BY <1>12, <2>2, <2>3, <2>4 DEF Begin
<1>13. ASSUME NEW s \in Shell, NEW p \in Pid, Fork(s, p)
       PROVE  TypeInv'
  BY <1>13 DEF Fork, Goto, Ends
<1>14. ASSUME NEW s \in Shell, ReadPid(s)
       PROVE  TypeInv'
  BY <1>14 DEF ReadPid, Ends
<1>15. ASSUME NEW s \in Shell, Connected(s)
       PROVE  TypeInv'
  BY <1>15 DEF Connected, Ends
<1>16. ASSUME NEW s \in Shell, NotConnected(s)
       PROVE  TypeInv'
  BY <1>16 DEF NotConnected, Goto
<1>17. ASSUME NEW s \in Shell, StopRead(s)
       PROVE  TypeInv'
  BY <1>17 DEF StopRead, Stopped, Goto, Ends
<1>18. ASSUME NEW s \in Shell, Kill(s)
       PROVE  TypeInv'
  BY <1>18 DEF Kill, Terminate, Goto
<1>19. ASSUME NEW s \in Shell, KillNobody(s)
       PROVE  TypeInv'
  BY <1>19 DEF KillNobody, Goto
<1>20. ASSUME NEW s \in Shell, KillForeign(s)
       PROVE  TypeInv'
  BY <1>20 DEF KillForeign, Goto, Ends
<1>21. ASSUME NEW s \in Shell, Wait(s)
       PROVE  TypeInv'
  BY <1>21 DEF Wait, Stopped, Goto, Ends
<1>22. ASSUME NEW s \in Shell, Exists(s)
       PROVE  TypeInv'
  BY <1>22 DEF Exists, Stopped, Goto, Ends
<1>23. ASSUME NEW s \in Shell, Remove(s)
       PROVE  TypeInv'
  BY <1>23 DEF Remove, Unlinked, Stopped, Goto, Ends
<1>24. CASE UNCHANGED vars
  BY <1>24 DEF vars
<1>25. CASE PortTaken \/ PortLeft
  BY <1>25 DEF PortTaken, PortLeft
<1>26. QED
  BY <1>1, <1>2, <1>3, <1>4, <1>5, <1>6, <1>7, <1>8, <1>9, <1>10, <1>11,
     <1>12, <1>13, <1>14, <1>15, <1>16, <1>17, <1>18, <1>19, <1>20, <1>21,
     <1>22, <1>23, <1>24, <1>25
     DEF Next, DaemonStep, CommandStep

\* Whatever commands, daemons and kills do, the file holds a process id or
\* nothing, and no bound is exceeded.
THEOREM TypeCorrect == Spec => []TypeOK
<1>1. TypeInv => TypeOK
  BY DEF TypeInv
<1>2. QED
  BY InitTypeInv, NextTypeInv, <1>1, PTL DEF Spec

-----------------------------------------------------------------------------
(***************************************************************************)
(* The file is fresh.                                                      *)
(***************************************************************************)
\* Who has the file open is about to write to it, and closes it by dying.
OpenFiles == \A p \in handles : At(p, "write")

Named == {"setup", "bind", "serve", "cleanup", "exit"}

\* FileFresh, with what the writer and the end of a daemon leave behind.
Fresh ==
  untidy = {} =>
    /\ file \in Pid => daemon[file] \in Named
    /\ file = "empty" => handles # {}

FileInv == OpenFiles /\ Fresh

LEMMA InitFileInv == Init => FileInv
BY DaemonAssumption DEF Init, FileInv, OpenFiles, Fresh

LEMMA NextFileInv ==
  ASSUME TypeInv, FileInv, [Next]_vars
  PROVE  FileInv'
<1> USE DaemonAssumption DEF TypeInv, TypeOK, HasPid, Command, Idle, fileVars,
        counters, history, At, Becomes, Alive, Busy, In,
        FileInv, OpenFiles, Fresh, Named
<1>1. ASSUME NEW p \in Pid, Register(p)
      PROVE  FileInv'
  BY <1>1 DEF Register
<1>2. ASSUME NEW p \in Pid, Open(p)
      PROVE  FileInv'
  BY <1>2 DEF Open
<1>3. ASSUME NEW p \in Pid, Write(p)
      PROVE  FileInv'
  BY <1>3 DEF Write
<1>4. ASSUME NEW p \in Pid, Setup(p)
      PROVE  FileInv'
  BY <1>4 DEF Setup
<1>5. ASSUME NEW p \in Pid, Bind(p)
      PROVE  FileInv'
  BY <1>5 DEF Bind
<1>6. ASSUME NEW p \in Pid, Exits(p)
      PROVE  FileInv'
  BY <1>6 DEF Exits
<1>7. ASSUME NEW p \in Pid, Survives(p)
      PROVE  FileInv'
  BY <1>7 DEF Survives
<1>8. ASSUME NEW p \in Pid, Delpid(p)
      PROVE  FileInv'
  BY <1>8 DEF Delpid, Unlinked
<1>9. ASSUME NEW p \in Pid, Crash(p)
      PROVE  FileInv'
  BY <1>9 DEF Crash
<1>10. ASSUME NEW p \in Pid, Recycle(p)
       PROVE  FileInv'
  BY <1>10 DEF Recycle
<1>11. ASSUME NEW p \in Pid, ForeignEnds(p)
       PROVE  FileInv'
  BY <1>11 DEF ForeignEnds
<1>12. ASSUME NEW s \in Shell, NEW op \in {"start", "stop", "restart"},
             Begin(s, op)
       PROVE  FileInv'
  BY <1>12 DEF Begin
<1>13. ASSUME NEW s \in Shell, NEW p \in Pid, Fork(s, p)
       PROVE  FileInv'
  BY <1>13 DEF Fork, Goto, Ends
<1>14. ASSUME NEW s \in Shell, ReadPid(s)
       PROVE  FileInv'
  BY <1>14 DEF ReadPid, Ends
<1>15. ASSUME NEW s \in Shell, Connected(s)
       PROVE  FileInv'
  BY <1>15 DEF Connected, Ends
<1>16. ASSUME NEW s \in Shell, NotConnected(s)
       PROVE  FileInv'
  BY <1>16 DEF NotConnected, Goto
<1>17. ASSUME NEW s \in Shell, StopRead(s)
       PROVE  FileInv'
  BY <1>17 DEF StopRead, Stopped, Goto, Ends
<1>18. ASSUME NEW s \in Shell, Kill(s)
       PROVE  FileInv'
  BY <1>18 DEF Kill, Terminate, Goto
<1>19. ASSUME NEW s \in Shell, KillNobody(s)
       PROVE  FileInv'
  BY <1>19 DEF KillNobody, Goto
<1>20. ASSUME NEW s \in Shell, KillForeign(s)
       PROVE  FileInv'
  BY <1>20 DEF KillForeign, Goto, Ends
<1>21. ASSUME NEW s \in Shell, Wait(s)
       PROVE  FileInv'
  BY <1>21 DEF Wait, Stopped, Goto, Ends
<1>22. ASSUME NEW s \in Shell, Exists(s)
       PROVE  FileInv'
  BY <1>22 DEF Exists, Stopped, Goto, Ends
<1>23. ASSUME NEW s \in Shell, Remove(s)
       PROVE  FileInv'
  BY <1>23 DEF Remove, Unlinked, Stopped, Goto, Ends
<1>24. CASE UNCHANGED vars
  BY <1>24 DEF vars
<1>25. CASE PortTaken \/ PortLeft
  BY <1>25 DEF PortTaken, PortLeft
<1>26. QED
  BY <1>1, <1>2, <1>3, <1>4, <1>5, <1>6, <1>7, <1>8, <1>9, <1>10, <1>11,
     <1>12, <1>13, <1>14, <1>15, <1>16, <1>17, <1>18, <1>19, <1>20, <1>21,
     <1>22, <1>23, <1>24, <1>25
     DEF Next, DaemonStep, CommandStep

\* A pid file that names nobody is the trace of a daemon that was killed, for
\* any commands that overlap in any way.
THEOREM StaysFresh == Spec => []FileFresh
<1> DEFINE IInv == TypeInv /\ FileInv
<1>1. Init => IInv
  BY InitTypeInv, InitFileInv
<1>2. IInv /\ [Next]_vars => IInv'
  BY NextTypeInv, NextFileInv
<1>3. IInv => FileFresh
  BY DEF TypeInv, TypeOK, FileInv, OpenFiles, Fresh, FileFresh, Named, Alive, At
<1>4. QED
  BY <1>1, <1>2, <1>3, PTL DEF Spec

-----------------------------------------------------------------------------
(***************************************************************************)
(* One command and one daemon at a time.                                   *)
(***************************************************************************)
\* A command that has begun alone stays alone until the next one begins.
OneCommand == alone => \A s, t \in Shell : Busy(s) /\ Busy(t) => s = t

BoundServes == bound \in Pid => daemon[bound] \in {"serve", "cleanup"}

AloneInv == OneCommand /\ BoundServes

LEMMA InitAloneInv == Init => AloneInv
BY DaemonAssumption DEF Init, AloneInv, OneCommand, BoundServes, Busy, Idle

LEMMA NextAloneInv ==
  ASSUME TypeInv, AloneInv, [Next]_vars
  PROVE  AloneInv'
<1> USE DaemonAssumption DEF TypeInv, TypeOK, HasPid, Command, Idle, fileVars,
        counters, history, At, Becomes, Alive, Busy, In,
        AloneInv, OneCommand, BoundServes
<1>1. ASSUME NEW p \in Pid, Register(p)
      PROVE  AloneInv'
  BY <1>1 DEF Register
<1>2. ASSUME NEW p \in Pid, Open(p)
      PROVE  AloneInv'
  BY <1>2 DEF Open
<1>3. ASSUME NEW p \in Pid, Write(p)
      PROVE  AloneInv'
  BY <1>3 DEF Write
<1>4. ASSUME NEW p \in Pid, Setup(p)
      PROVE  AloneInv'
  BY <1>4 DEF Setup
<1>5. ASSUME NEW p \in Pid, Bind(p)
      PROVE  AloneInv'
  BY <1>5 DEF Bind
<1>6. ASSUME NEW p \in Pid, Exits(p)
      PROVE  AloneInv'
  BY <1>6 DEF Exits
<1>7. ASSUME NEW p \in Pid, Survives(p)
      PROVE  AloneInv'
  BY <1>7 DEF Survives
<1>8. ASSUME NEW p \in Pid, Delpid(p)
      PROVE  AloneInv'
  BY <1>8 DEF Delpid, Unlinked
<1>9. ASSUME NEW p \in Pid, Crash(p)
      PROVE  AloneInv'
  BY <1>9 DEF Crash
<1>10. ASSUME NEW p \in Pid, Recycle(p)
       PROVE  AloneInv'
  BY <1>10 DEF Recycle
<1>11. ASSUME NEW p \in Pid, ForeignEnds(p)
       PROVE  AloneInv'
  BY <1>11 DEF ForeignEnds
<1>12. ASSUME NEW s \in Shell, NEW op \in {"start", "stop", "restart"},
             Begin(s, op)
       PROVE  AloneInv'
  BY <1>12 DEF Begin
<1>13. ASSUME NEW s \in Shell, NEW p \in Pid, Fork(s, p)
       PROVE  AloneInv'
  BY <1>13 DEF Fork, Goto, Ends
<1>14. ASSUME NEW s \in Shell, ReadPid(s)
       PROVE  AloneInv'
  BY <1>14 DEF ReadPid, Ends
<1>15. ASSUME NEW s \in Shell, Connected(s)
       PROVE  AloneInv'
  BY <1>15 DEF Connected, Ends
<1>16. ASSUME NEW s \in Shell, NotConnected(s)
       PROVE  AloneInv'
  BY <1>16 DEF NotConnected, Goto
<1>17. ASSUME NEW s \in Shell, StopRead(s)
       PROVE  AloneInv'
  BY <1>17 DEF StopRead, Stopped, Goto, Ends
<1>18. ASSUME NEW s \in Shell, Kill(s)
       PROVE  AloneInv'
  BY <1>18 DEF Kill, Terminate, Goto
<1>19. ASSUME NEW s \in Shell, KillNobody(s)
       PROVE  AloneInv'
  BY <1>19 DEF KillNobody, Goto
<1>20. ASSUME NEW s \in Shell, KillForeign(s)
       PROVE  AloneInv'
  BY <1>20 DEF KillForeign, Goto, Ends
<1>21. ASSUME NEW s \in Shell, Wait(s)
       PROVE  AloneInv'
  BY <1>21 DEF Wait, Stopped, Goto, Ends
<1>22. ASSUME NEW s \in Shell, Exists(s)
       PROVE  AloneInv'
  BY <1>22 DEF Exists, Stopped, Goto, Ends
<1>23. ASSUME NEW s \in Shell, Remove(s)
       PROVE  AloneInv'
  BY <1>23 DEF Remove, Unlinked, Stopped, Goto, Ends
<1>24. CASE UNCHANGED vars
  BY <1>24 DEF vars
<1>25. CASE PortTaken \/ PortLeft
  BY <1>25 DEF PortTaken, PortLeft
<1>26. QED
  BY <1>1, <1>2, <1>3, <1>4, <1>5, <1>6, <1>7, <1>8, <1>9, <1>10, <1>11,
     <1>12, <1>13, <1>14, <1>15, <1>16, <1>17, <1>18, <1>19, <1>20, <1>21,
     <1>22, <1>23, <1>24, <1>25
     DEF Next, DaemonStep, CommandStep

-----------------------------------------------------------------------------
(***************************************************************************)
(* The daemon that serves.                                                 *)
(***************************************************************************)
OneDaemon == \A p, q \in Pid : Alive(p) /\ Alive(q) => p = q

\* The file keeps step with the only daemon.
FileFollows ==
  \A p \in Pid :
    /\ daemon[p] \in {"fork", "open"} => file = "absent"
    /\ At(p, "write") => file = "empty" /\ p \in handles
    /\ daemon[p] \in Named => file = p

\* What a command has found out of the daemons is still so.
CommandKnows ==
  \A s \in Shell, p \in Pid :
    Alive(p) =>
      /\ In(s, "await") \/ In(s, "kill") => p = command[s].pid
      /\ ~In(s, "exists") /\ ~In(s, "remove")

Orderly == alone /\ single => OneDaemon /\ FileFollows /\ CommandKnows

LEMMA InitOrderly == Init => Orderly
BY DEF Init, Orderly, OneDaemon, FileFollows, CommandKnows, Alive, At, Named

LEMMA NextOrderly ==
  ASSUME TypeInv, FileInv, AloneInv, Orderly, [Next]_vars
  PROVE  Orderly'
<1> USE DaemonAssumption DEF TypeInv, TypeOK, HasPid, Command, Idle, fileVars,
        counters, history, At, Becomes, Alive, Busy, In, FileInv,
        OpenFiles, Named, AloneInv, OneCommand, BoundServes, Orderly,
        OneDaemon, FileFollows, CommandKnows
<1>1. ASSUME NEW p \in Pid, Register(p)
      PROVE  Orderly'
  BY <1>1 DEF Register
<1>2. ASSUME NEW p \in Pid, Open(p)
      PROVE  Orderly'
  BY <1>2 DEF Open
<1>3. ASSUME NEW p \in Pid, Write(p)
      PROVE  Orderly'
  BY <1>3 DEF Write
<1>4. ASSUME NEW p \in Pid, Setup(p)
      PROVE  Orderly'
  BY <1>4 DEF Setup
<1>5. ASSUME NEW p \in Pid, Bind(p)
      PROVE  Orderly'
  BY <1>5 DEF Bind
<1>6. ASSUME NEW p \in Pid, Exits(p)
      PROVE  Orderly'
  BY <1>6 DEF Exits
<1>7. ASSUME NEW p \in Pid, Survives(p)
      PROVE  Orderly'
  BY <1>7 DEF Survives
<1>8. ASSUME NEW p \in Pid, Delpid(p)
      PROVE  Orderly'
  BY <1>8 DEF Delpid, Unlinked
<1>9. ASSUME NEW p \in Pid, Crash(p)
      PROVE  Orderly'
  BY <1>9 DEF Crash
<1>10. ASSUME NEW p \in Pid, Recycle(p)
       PROVE  Orderly'
  BY <1>10 DEF Recycle
<1>11. ASSUME NEW p \in Pid, ForeignEnds(p)
       PROVE  Orderly'
  BY <1>11 DEF ForeignEnds
<1>12. ASSUME NEW s \in Shell, NEW op \in {"start", "stop", "restart"},
             Begin(s, op)
       PROVE  Orderly'
  <2>1. alone' => alone /\ \A t \in Shell : ~Busy(t)
    BY <1>12 DEF Begin
  <2>2. /\ command' \in [Shell -> Command]
        /\ \A t \in Shell \ {s} : command'[t] = command[t]
        /\ command'[s].pc \in {"read", "stop"}
        /\ UNCHANGED <<daemon, file, handles, bound, single>>
    BY <1>12 DEF Begin
  <2>3. QED
    BY <2>1, <2>2
<1>13. ASSUME NEW s \in Shell, NEW p \in Pid, Fork(s, p)
       PROVE  Orderly'
  <2> SUFFICES ASSUME alone', single'
               PROVE  OneDaemon' /\ FileFollows' /\ CommandKnows'
    BY DEF Orderly
  <2>1. alone /\ \A q \in Pid : ~Alive(q)
    BY <1>13 DEF Fork
  <2>2. \A q \in Pid : Alive(q)' => q = p
    BY <1>13, <2>1 DEF Fork
  <2>3. daemon'[p] = "fork" /\ file' = "absent"
    BY <1>13 DEF Fork
  <2>4. \/ command'[s].pc = "idle"
        \/ command'[s].pc = "await" /\ command'[s].pid = p
    BY <1>13 DEF Fork, Ends
  <2>5. \A t \in Shell \ {s} : command'[t].pc = "idle"
    BY <1>13, <2>1 DEF Fork, Ends
  <2>6. QED
    BY <2>2, <2>3, <2>4, <2>5
<1>14. ASSUME NEW s \in Shell, ReadPid(s)
       PROVE  Orderly'
  BY <1>14 DEF ReadPid, Ends
<1>15. ASSUME NEW s \in Shell, Connected(s)
       PROVE  Orderly'
  BY <1>15 DEF Connected, Ends
<1>16. ASSUME NEW s \in Shell, NotConnected(s)
       PROVE  Orderly'
  BY <1>16 DEF NotConnected, Goto
<1>17. ASSUME NEW s \in Shell, StopRead(s)
       PROVE  Orderly'
  BY <1>17 DEF StopRead, Stopped, Goto, Ends
<1>18. ASSUME NEW s \in Shell, Kill(s)
       PROVE  Orderly'
  BY <1>18 DEF Kill, Terminate, Goto
<1>19. ASSUME NEW s \in Shell, KillNobody(s)
       PROVE  Orderly'
  BY <1>19 DEF KillNobody, Goto
<1>20. ASSUME NEW s \in Shell, KillForeign(s)
       PROVE  Orderly'
  BY <1>20 DEF KillForeign, Goto, Ends
<1>21. ASSUME NEW s \in Shell, Wait(s)
       PROVE  Orderly'
  BY <1>21 DEF Wait, Stopped, Goto, Ends
<1>22. ASSUME NEW s \in Shell, Exists(s)
       PROVE  Orderly'
  BY <1>22 DEF Exists, Stopped, Goto, Ends
<1>23. ASSUME NEW s \in Shell, Remove(s)
       PROVE  Orderly'
  BY <1>23 DEF Remove, Unlinked, Stopped, Goto, Ends
<1>24. CASE UNCHANGED vars
  BY <1>24 DEF vars
<1>25. CASE PortTaken \/ PortLeft
  <2>1. UNCHANGED <<daemon, file, handles, command, alone, single, untidy,
                     crowded>>
    BY <1>25 DEF PortTaken, PortLeft
  <2>2. QED
    BY <2>1
<1>26. QED
  BY <1>1, <1>2, <1>3, <1>4, <1>5, <1>6, <1>7, <1>8, <1>9, <1>10, <1>11,
     <1>12, <1>13, <1>14, <1>15, <1>16, <1>17, <1>18, <1>19, <1>20, <1>21,
     <1>22, <1>23, <1>24, <1>25
     DEF Next, DaemonStep, CommandStep


\* As long as commands do not overlap and no start forks a daemon beside
\* another one, stop and restart find the daemon that serves in the file.
THEOREM StaysFindable == Spec => []Findable
<1> DEFINE IInv == TypeInv /\ FileInv /\ AloneInv /\ Orderly
<1>1. Init => IInv
  BY InitTypeInv, InitFileInv, InitAloneInv, InitOrderly
<1>2. IInv /\ [Next]_vars => IInv'
  BY NextTypeInv, NextFileInv, NextAloneInv, NextOrderly
<1>3. IInv => Findable
  BY DEF Orderly, FileFollows, Findable, Named
<1>4. QED
  BY <1>1, <1>2, <1>3, PTL DEF Spec

-----------------------------------------------------------------------------
(***************************************************************************)
(* Whom stop() signals.                                                    *)
(***************************************************************************)
\* A daemon on its way out is being waited for, so that the next command
\* finds it gone with its file.
Attended ==
  alone /\ single /\ untidy = {} /\ ~crowded =>
    /\ \A p \in Pid : daemon[p] \in {"cleanup", "exit"} =>
         \E s \in Shell : In(s, "wait") /\ command[s].pid = p
    /\ \A s \in Shell : In(s, "kill") =>
         daemon[command[s].pid] \in {"setup", "bind", "serve"}

LEMMA InitAttended == Init => Attended
BY DEF Init, Attended, In, Idle

LEMMA NextAttended ==
  ASSUME TypeInv, FileInv, AloneInv, Orderly, Attended, [Next]_vars
  PROVE  Attended'
<1> USE DaemonAssumption DEF TypeInv, TypeOK, HasPid, Command, Idle, fileVars,
        counters, history, At, Becomes, Alive, Busy, In, FileInv,
        Fresh, Named, AloneInv, OneCommand, BoundServes, Orderly,
        OneDaemon, FileFollows, CommandKnows, Attended
<1>1. ASSUME NEW p \in Pid, Register(p)
      PROVE  Attended'
  BY <1>1 DEF Register
<1>2. ASSUME NEW p \in Pid, Open(p)
      PROVE  Attended'
  BY <1>2 DEF Open
<1>3. ASSUME NEW p \in Pid, Write(p)
      PROVE  Attended'
  BY <1>3 DEF Write
<1>4. ASSUME NEW p \in Pid, Setup(p)
      PROVE  Attended'
  BY <1>4 DEF Setup
<1>5. ASSUME NEW p \in Pid, Bind(p)
      PROVE  Attended'
  <2>1. CASE bound = NoPid
    <3>1. /\ daemon[p] = "bind" /\ daemon' = [daemon EXCEPT ![p] = "serve"]
          /\ UNCHANGED <<command, alone, single, untidy>>
          /\ crowded' => crowded
      BY <1>5, <2>1 DEF Bind
    <3>2. QED
      BY <3>1
  <2>2. CASE bound # NoPid
    <3>1. crowded'
      BY <1>5, <2>2 DEF Bind
    <3>2. QED
      BY <3>1
  <2>3. QED
    BY <2>1, <2>2
<1>6. ASSUME NEW p \in Pid, Exits(p)
      PROVE  Attended'
  BY <1>6 DEF Exits
<1>7. ASSUME NEW p \in Pid, Survives(p)
      PROVE  Attended'
  BY <1>7 DEF Survives
<1>8. ASSUME NEW p \in Pid, Delpid(p)
      PROVE  Attended'
  BY <1>8 DEF Delpid, Unlinked
<1>9. ASSUME NEW p \in Pid, Crash(p)
      PROVE  Attended'
  BY <1>9 DEF Crash
<1>10. ASSUME NEW p \in Pid, Recycle(p)
       PROVE  Attended'
  BY <1>10 DEF Recycle
<1>11. ASSUME NEW p \in Pid, ForeignEnds(p)
       PROVE  Attended'
  BY <1>11 DEF ForeignEnds
<1>12. ASSUME NEW s \in Shell, NEW op \in {"start", "stop", "restart"},
             Begin(s, op)
       PROVE  Attended'
  <2>1. alone' => alone /\ \A t \in Shell : ~Busy(t)
    BY <1>12 DEF Begin
  <2>2. /\ \A t \in Shell \ {s} : command'[t] = command[t]
        /\ command'[s].pc \in {"read", "stop"}
        /\ UNCHANGED <<daemon, single, untidy, crowded>>
    BY <1>12 DEF Begin
  <2>3. QED
    BY <2>1, <2>2
<1>13. ASSUME NEW s \in Shell, NEW p \in Pid, Fork(s, p)
       PROVE  Attended'
  BY <1>13 DEF Fork, Goto, Ends
<1>14. ASSUME NEW s \in Shell, ReadPid(s)
       PROVE  Attended'
  BY <1>14 DEF ReadPid, Ends
<1>15. ASSUME NEW s \in Shell, Connected(s)
       PROVE  Attended'
  BY <1>15 DEF Connected, Ends
<1>16. ASSUME NEW s \in Shell, NotConnected(s)
       PROVE  Attended'
  BY <1>16 DEF NotConnected, Goto
<1>17. ASSUME NEW s \in Shell, StopRead(s)
       PROVE  Attended'
  BY <1>17 DEF StopRead, Stopped, Goto, Ends
<1>18. ASSUME NEW s \in Shell, Kill(s)
       PROVE  Attended'
  BY <1>18 DEF Kill, Terminate, Goto
<1>19. ASSUME NEW s \in Shell, KillNobody(s)
       PROVE  Attended'
  BY <1>19 DEF KillNobody, Goto
<1>20. ASSUME NEW s \in Shell, KillForeign(s)
       PROVE  Attended'
  BY <1>20 DEF KillForeign, Goto, Ends
<1>21. ASSUME NEW s \in Shell, Wait(s)
       PROVE  Attended'
  BY <1>21 DEF Wait, Stopped, Goto, Ends
<1>22. ASSUME NEW s \in Shell, Exists(s)
       PROVE  Attended'
  BY <1>22 DEF Exists, Stopped, Goto, Ends
<1>23. ASSUME NEW s \in Shell, Remove(s)
       PROVE  Attended'
  BY <1>23 DEF Remove, Unlinked, Stopped, Goto, Ends
<1>24. CASE UNCHANGED vars
  BY <1>24 DEF vars
<1>25. CASE PortTaken \/ PortLeft
  <2>1. UNCHANGED <<daemon, file, handles, command, alone, single, untidy,
                     crowded>>
    BY <1>25 DEF PortTaken, PortLeft
  <2>2. QED
    BY <2>1
<1>26. QED
  BY <1>1, <1>2, <1>3, <1>4, <1>5, <1>6, <1>7, <1>8, <1>9, <1>10, <1>11,
     <1>12, <1>13, <1>14, <1>15, <1>16, <1>17, <1>18, <1>19, <1>20, <1>21,
     <1>22, <1>23, <1>24, <1>25
     DEF Next, DaemonStep, CommandStep

\* As long as daemons end with their atexit functions and commands do not
\* overlap, stop() never sends its signal to a process of somebody else.
THEOREM SignalsItsOwn == Spec => SignalsDaemons
<1> DEFINE IInv == TypeInv /\ FileInv /\ AloneInv /\ Orderly /\ Attended
           Spares == \A s \in Shell :
             In(s, "kill") /\ ~In(s, "kill")' /\ At(command[s].pid, "foreign")
               => untidy # {} \/ crowded \/ ~alone \/ ~single
<1>1. Init => IInv
  BY InitTypeInv, InitFileInv, InitAloneInv, InitOrderly, InitAttended
<1>2. IInv /\ [Next]_vars => IInv'
  BY NextTypeInv, NextFileInv, NextAloneInv, NextOrderly, NextAttended
<1>3. IInv /\ [Next]_vars => [Spares]_vars
  BY DEF Attended, At, In
<1>4. QED
  BY <1>1, <1>2, <1>3, PTL DEF Spec, SignalsDaemons
=============================================================================
