------------------------------- MODULE Daemon -------------------------------
(***************************************************************************)
(* start, stop and restart of the service: mongo_orchestration/daemon.py   *)
(* and main, await_connection and MyDaemon.run of server.py, on POSIX.     *)
(*                                                                         *)
(* Commands are processes of a shell, and may overlap.  A start forks a    *)
(* daemon, which writes the pid file, installs its signal handlers and     *)
(* binds the port; the command and the daemon run side by side.  SIGTERM   *)
(* kills a daemon that has no handler yet, without its atexit functions,   *)
(* and so does SIGKILL at any time.  A process id may be used again by     *)
(* somebody else once its process is gone, and somebody else may listen on *)
(* the port at any time it is free: for await_connection that is as good   *)
(* as the daemon.                                                          *)
(*                                                                         *)
(* Simplifications: the file has one reader or writer in a step; what the  *)
(* handler does is in Registries: here it ends with SystemExit, or with an *)
(* exception that leaves the daemon as it was.  Windows and --no-fork are  *)
(* left out, and so is a user who removes the pid file.                    *)
(***************************************************************************)
EXTENDS Naturals, FiniteSets

CONSTANTS
  Pid,          \* the process ids of the daemons; bound: starts and restarts
  NoPid,        \* 0
  Shell,        \* who runs commands
  MaxCommands,  \* bound: commands
  MaxKills      \* bound: SIGKILLs

ASSUME DaemonAssumption ==
  /\ NoPid \notin Pid \cup {"absent", "empty", "foreign"}
  /\ Pid \cap {"absent", "empty", "foreign"} = {}
  /\ IsFiniteSet(Pid)
  /\ MaxCommands \in Nat
  /\ MaxKills \in Nat

VARIABLES
  daemon,    \* where the process with an id stands
  file,      \* the pid file: "absent", "empty", or what it names
  handles,   \* the processes that have this file open
  bound,     \* who listens on the port: a daemon, "foreign", or nobody
  command,   \* the command of a shell
  commands,  \* how many commands there have been
  starts,    \* how many of them may fork a daemon
  kills,     \* how many SIGKILLs
  alone,     \* history: no two commands have overlapped
  single,    \* history: no daemon has been forked beside another
  untidy,    \* history: daemons that ended without their atexit functions
  deaf,      \* history: who did not exit on SIGTERM, or was no daemon
  crowded    \* history: a daemon has found its port taken

fileVars == <<file, handles>>
counters == <<commands, starts, kills>>
history  == <<alone, single, untidy, deaf, crowded>>
vars == <<daemon, file, handles, bound, command, commands, starts, kills,
          alone, single, untidy, deaf, crowded>>

-----------------------------------------------------------------------------
Command == [op : {"none", "start", "stop", "restart"},
            pc : {"idle", "read", "await", "stop", "kill", "wait", "exists",
                  "remove"},
            pid : Pid \cup {NoPid}]

Idle == [op |-> "none", pc |-> "idle", pid |-> NoPid]

TypeOK ==
  /\ daemon \in [Pid -> {"none", "fork", "open", "write", "setup", "bind",
                         "serve", "cleanup", "exit", "gone", "foreign"}]
  /\ file \in Pid \cup {"absent", "empty"}
  /\ handles \subseteq Pid
  /\ bound \in Pid \cup {NoPid, "foreign"}
  /\ command \in [Shell -> Command]
  /\ commands \in 0..MaxCommands
  /\ starts \in 0..Cardinality(Pid)
  /\ kills \in 0..MaxKills
  /\ alone \in BOOLEAN
  /\ single \in BOOLEAN
  /\ untidy \subseteq Pid
  /\ deaf \subseteq Pid
  /\ crowded \in BOOLEAN

Init ==
  /\ daemon = [p \in Pid |-> "none"]
  /\ file = "absent"
  /\ handles = {}
  /\ bound = NoPid
  /\ command = [s \in Shell |-> Idle]
  /\ commands = 0
  /\ starts = 0
  /\ kills = 0
  /\ alone = TRUE
  /\ single = TRUE
  /\ untidy = {}
  /\ deaf = {}
  /\ crowded = FALSE

Alive(p) == daemon[p] \notin {"none", "gone", "foreign"}
Busy(s)  == command[s].pc # "idle"

-----------------------------------------------------------------------------
(***************************************************************************)
(* The daemon.                                                             *)
(***************************************************************************)
At(p, label)      == daemon[p] = label
Becomes(p, label) == daemon' = [daemon EXCEPT ![p] = label]

Unlinked == file' = "absent" /\ handles' = {}

\* atexit.register(self.delpid)
Register(p) ==
  /\ At(p, "fork")
  /\ Becomes(p, "open")
  /\ UNCHANGED <<fileVars, bound, command, counters, history>>

\* open(self.pidfile, 'w+') creates or truncates the file ...
Open(p) ==
  /\ At(p, "open")
  /\ Becomes(p, "write")
  /\ file' = "empty"
  /\ handles' = handles \cup {p}
  /\ UNCHANGED <<bound, command, counters, history>>

\* Mutant: what fork() returned in the child.
WriteForked(p) ==
  /\ At(p, "write")
  /\ Becomes(p, "setup")
  /\ file' = IF p \in handles THEN NoPid ELSE file
  /\ handles' = handles \ {p}
  /\ UNCHANGED <<bound, command, counters, history>>

\* ... and the id goes to the file that was opened, unlinked or not.
Write(p) ==
  /\ At(p, "write")
  /\ Becomes(p, "setup")
  /\ file' = IF p \in handles THEN p ELSE file
  /\ handles' = handles \ {p}
  /\ UNCHANGED <<bound, command, counters, history>>

\* setup(): the handlers of SIGTERM and SIGINT.
Setup(p) ==
  /\ At(p, "setup")
  /\ Becomes(p, "bind")
  /\ UNCHANGED <<fileVars, bound, command, counters, history>>

\* run(): one process can listen on the port, which may be somebody else;
\* for another it raises.
Bind(p) ==
  /\ At(p, "bind")
  /\ IF bound = NoPid THEN Becomes(p, "serve") /\ bound' = p
     ELSE Becomes(p, "exit") /\ UNCHANGED bound
  /\ crowded' = (crowded \/ bound # NoPid)
  /\ UNCHANGED <<fileVars, command, counters, alone, single, untidy, deaf>>

\* Mutant: os._exit(0), which calls no atexit function.
ExitsAtOnce(p) ==
  /\ At(p, "cleanup")
  /\ Becomes(p, "gone")
  /\ bound' = IF bound = p THEN NoPid ELSE bound
  /\ UNCHANGED <<fileVars, command, counters, history>>

\* cleanup_storage ends with sys.exit(0); the socket is closed.
Exits(p) ==
  /\ At(p, "cleanup")
  /\ Becomes(p, "exit")
  /\ bound' = IF bound = p THEN NoPid ELSE bound
  /\ UNCHANGED <<fileVars, command, counters, history>>

\* cleanup_storage raises, and the daemon serves on.
Survives(p) ==
  /\ At(p, "cleanup")
  /\ bound = p
  /\ Becomes(p, "serve")
  /\ deaf' = deaf \cup {p}
  /\ UNCHANGED <<fileVars, bound, command, counters, alone, single, untidy,
                 crowded>>

\* Mutant: the file is emptied, not removed.
DelpidEmpties(p) ==
  /\ At(p, "exit")
  /\ Becomes(p, "gone")
  /\ file' = IF file = "absent" THEN file ELSE "empty"
  /\ UNCHANGED <<handles, bound, command, counters, history>>

\* delpid(), and the process is gone.  The file may be another daemon's.
Delpid(p) ==
  /\ At(p, "exit")
  /\ Becomes(p, "gone")
  /\ Unlinked
  /\ UNCHANGED <<bound, command, counters, history>>

DaemonStep(p) ==
  \/ Register(p) \/ Open(p) \/ Write(p) \/ Setup(p) \/ Bind(p)
  \/ Exits(p) \/ Survives(p) \/ Delpid(p)

-----------------------------------------------------------------------------
(***************************************************************************)
(* The commands.                                                           *)
(***************************************************************************)
Begin(s, op) ==
  /\ ~Busy(s)
  /\ commands < MaxCommands
  /\ commands' = commands + 1
  /\ IF op = "stop" THEN UNCHANGED starts
     ELSE starts < Cardinality(Pid) /\ starts' = starts + 1
  /\ command' = [command EXCEPT ![s] =
       [Idle EXCEPT !.op = op, !.pc = IF op = "start" THEN "read" ELSE "stop"]]
  /\ alone' = (alone /\ \A t \in Shell : ~Busy(t))
  /\ UNCHANGED <<daemon, fileVars, bound, kills, single, untidy, deaf,
                 crowded>>

In(s, pc)   == command[s].pc = pc
Goto(s, pc) == command' = [command EXCEPT ![s].pc = pc]

Ends(s) == command' = [command EXCEPT ![s] = Idle]

\* start(): no file, so a daemon is forked; restart() does not wait for it.
Fork(s, p) ==
  /\ In(s, "read")
  /\ file = "absent"
  /\ At(p, "none")
  /\ Becomes(p, "fork")
  /\ single' = (single /\ \A q \in Pid : ~Alive(q))
  /\ IF command[s].op = "restart" THEN Ends(s)
     ELSE command' = [command EXCEPT ![s].pc = "await", ![s].pid = p]
  /\ UNCHANGED <<fileVars, bound, counters, alone, untidy, deaf, crowded>>

\* "Daemon already running?", or int('') raises a ValueError.
ReadPid(s) ==
  /\ In(s, "read")
  /\ file # "absent"
  /\ Ends(s)
  /\ UNCHANGED <<daemon, fileVars, bound, counters, history>>

\* await_connection: somebody listens on the port, whoever it is ...
Connected(s) ==
  /\ In(s, "await")
  /\ bound # NoPid
  /\ Ends(s)
  /\ UNCHANGED <<daemon, fileVars, bound, counters, history>>

\* ... or nobody did within five attempts: daemon.stop().
NotConnected(s) ==
  /\ In(s, "await")
  /\ bound = NoPid
  /\ Goto(s, "stop")
  /\ UNCHANGED <<daemon, fileVars, bound, counters, history>>

\* stop() returns: main ends, or restart() goes on with start().
Stopped(s) ==
  IF command[s].op = "restart" THEN Goto(s, "read") ELSE Ends(s)

\* "Daemon not running?", a ValueError, or the process id.
StopRead(s) ==
  /\ In(s, "stop")
  /\ CASE file = "absent" -> Stopped(s)
       [] file = "empty"  -> Ends(s)
       [] OTHER -> command' = [command EXCEPT ![s].pc = "kill", ![s].pid = file]
  /\ UNCHANGED <<daemon, fileVars, bound, counters, history>>

\* The default action of SIGTERM, the handler, or nothing new.
Terminate(p) ==
  /\ daemon' = [daemon EXCEPT ![p] =
       CASE @ \in {"fork", "open", "write", "setup"} -> "gone"
         [] @ \in {"bind", "serve"} -> "cleanup"
         [] OTHER -> @]
  /\ untidy' = IF daemon[p] \in {"fork", "open", "write", "setup"}
               THEN untidy \cup {p} ELSE untidy
  /\ handles' = IF At(p, "write") THEN handles \ {p} ELSE handles

\* Mutant: the file is removed as soon as the signal is sent.
KillUnlinks(s) ==
  /\ In(s, "kill")
  /\ Alive(command[s].pid)
  /\ Terminate(command[s].pid)
  /\ file' = "absent"
  /\ Goto(s, "wait")
  /\ UNCHANGED <<bound, counters, alone, single, deaf, crowded>>

\* os.kill(pid, SIGTERM)
Kill(s) ==
  /\ In(s, "kill")
  /\ Alive(command[s].pid)
  /\ Terminate(command[s].pid)
  /\ Goto(s, "wait")
  /\ UNCHANGED <<file, bound, counters, alone, single, deaf, crowded>>

\* ESRCH
KillNobody(s) ==
  /\ In(s, "kill")
  /\ At(command[s].pid, "gone")
  /\ Goto(s, "exists")
  /\ UNCHANGED <<daemon, fileVars, bound, counters, history>>

\* The process id is somebody else's; the signal is sent, or EPERM raised.
KillForeign(s) ==
  /\ In(s, "kill")
  /\ At(command[s].pid, "foreign")
  /\ deaf' = deaf \cup {command[s].pid}
  /\ Goto(s, "wait") \/ Ends(s)
  /\ UNCHANGED <<daemon, fileVars, bound, counters, alone, single, untidy,
                 crowded>>

\* Mutant: stop() waits for delpid() of the daemon.
WaitFile(s) ==
  /\ In(s, "wait")
  /\ file = "absent"
  /\ Stopped(s)
  /\ UNCHANGED <<daemon, fileVars, bound, counters, history>>

\* while is_unix_process_running(pid)
Wait(s) ==
  /\ In(s, "wait")
  /\ At(command[s].pid, "gone")
  /\ Stopped(s)
  /\ UNCHANGED <<daemon, fileVars, bound, counters, history>>

\* if os.path.exists(self.pidfile)
Exists(s) ==
  /\ In(s, "exists")
  /\ IF file = "absent" THEN Stopped(s) ELSE Goto(s, "remove")
  /\ UNCHANGED <<daemon, fileVars, bound, counters, history>>

\* os.remove(self.pidfile) raises when somebody else was first.
Remove(s) ==
  /\ In(s, "remove")
  /\ IF file = "absent" THEN Ends(s) ELSE Stopped(s)
  /\ Unlinked
  /\ UNCHANGED <<daemon, bound, counters, history>>

CommandStep(s) ==
  \/ \E p \in Pid : Fork(s, p)
  \/ ReadPid(s) \/ Connected(s) \/ NotConnected(s)
  \/ StopRead(s) \/ Kill(s) \/ KillNobody(s) \/ KillForeign(s)
  \/ Wait(s) \/ Exists(s) \/ Remove(s)

-----------------------------------------------------------------------------
(***************************************************************************)
(* The machine.                                                            *)
(***************************************************************************)
\* SIGKILL, or the daemon crashes.
Crash(p) ==
  /\ Alive(p)
  /\ kills < MaxKills
  /\ kills' = kills + 1
  /\ Becomes(p, "gone")
  /\ untidy' = untidy \cup {p}
  /\ handles' = handles \ {p}
  /\ bound' = IF bound = p THEN NoPid ELSE bound
  /\ UNCHANGED <<file, command, commands, starts, alone, single, deaf,
                 crowded>>

\* A process of somebody else gets the id, and ends.  Nobody notices unless
\* the file or a command has the id.
Noticed(p) == file = p \/ \E s \in Shell : command[s].pid = p

Recycle(p) ==
  /\ At(p, "gone")
  /\ Noticed(p)
  /\ Becomes(p, "foreign")
  /\ UNCHANGED <<fileVars, bound, command, counters, history>>

ForeignEnds(p) ==
  /\ At(p, "foreign")
  /\ Becomes(p, "gone")
  /\ UNCHANGED <<fileVars, bound, command, counters, history>>

\* Somebody else listens on the port, and leaves it.
PortTaken ==
  /\ bound = NoPid
  /\ bound' = "foreign"
  /\ UNCHANGED <<daemon, fileVars, command, counters, history>>

PortLeft ==
  /\ bound = "foreign"
  /\ bound' = NoPid
  /\ UNCHANGED <<daemon, fileVars, command, counters, history>>

Next ==
  \/ \E p \in Pid : DaemonStep(p) \/ Crash(p) \/ Recycle(p) \/ ForeignEnds(p)
  \/ PortTaken \/ PortLeft
  \/ \E s \in Shell :
       \/ \E op \in {"start", "stop", "restart"} : Begin(s, op)
       \/ CommandStep(s)

Spec == Init /\ [][Next]_vars

\* Daemons and commands run, as processes do.  A process that has ended is
\* seen as ended again and again until its id is in use for good.
Fairness ==
  /\ \A p \in Pid : WF_vars(DaemonStep(p))
  /\ \A s \in Shell : WF_vars(CommandStep(s)) /\ SF_vars(Wait(s))
  /\ \A p \in Pid : WF_vars(ForeignEnds(p))

FairSpec == Spec /\ Fairness

-----------------------------------------------------------------------------
(***************************************************************************)
(* Properties.                                                             *)
(***************************************************************************)
\* The daemon that serves is the one the pid file names, so that stop and
\* restart reach it, also after starts that gave up, failed stops and daemons
\* that were killed; unless commands overlapped, or a start forked a daemon
\* while another one was still on its way (daemonize_posix, start, stop).
Findable ==
  alone /\ single =>
    \A p \in Pid : daemon[p] \in {"serve", "cleanup"} /\ bound = p => file = p

\* The file names a process that is gone, or nobody, only when a daemon has
\* ended without its atexit functions, whatever commands overlap: start() does
\* not say "Daemon already running?" for nothing, and start() and stop() do
\* not fail for good on an empty file (delpid, daemonize_posix).
FileFresh ==
  untidy = {} =>
    /\ file \in Pid => Alive(file)
    /\ file = "empty" => \E p \in Pid : At(p, "write")

\* SIGTERM is sent to a process that is no daemon only after one has ended
\* without its atexit functions, or has found its port taken while a start
\* gave up on it, or in a race of commands or daemons (stop).
SignalsDaemons ==
  [][\A s \in Shell :
       In(s, "kill") /\ ~In(s, "kill")' /\ At(command[s].pid, "foreign") =>
         untidy # {} \/ crowded \/ ~alone \/ ~single]_vars

\* Every command ends, but for a stop whose daemon does not exit on SIGTERM,
\* or is none (stop, is_unix_process_running).
Returns ==
  \A s \in Shell : Busy(s) ~> ~Busy(s) \/ command[s].pid \in deaf
=============================================================================
