------------------------------ MODULE PortPool ------------------------------
(***************************************************************************)
(* The pool of TCP ports of mongo_orchestration/process.py: class PortPool *)
(* and the way Server.__init__ and Servers.remove use it.                  *)
(*                                                                         *)
(* Every Server constructor runs PortPool().port(check=True) in the thread *)
(* of the request (or of the executor) that constructs it, and no lock     *)
(* guards the two sets of the pool.  The processes of this module are the  *)
(* Server objects: pc[s] is where the constructor of s stands inside the   *)
(* pool.  A step is a stretch between two points where another thread can  *)
(* come in: one operation on a Python set (atomic under the interpreter    *)
(* lock) or one socket probe.                                              *)
(*                                                                         *)
(* Simplifications: the pool has one instance, and release_port's two set  *)
(* operations are one step.                                                *)
(***************************************************************************)
EXTENDS Naturals, FiniteSets

CONSTANTS
  Server,    \* the Server objects that may be constructed
  Port,      \* the port numbers
  NoPort,    \* a server that has no port (yet)
  Workers    \* how many threads can be inside the pool at once

ASSUME PoolAssumption ==
  /\ IsFiniteSet(Server)
  /\ NoPort \notin Port
  /\ Workers \in Nat \ {0}

VARIABLES
  id,        \* PortPool.__id is set
  range,     \* the ports of the last __init_range
  ports,     \* PortPool.__ports
  closed,    \* PortPool.__closed
  pc,        \* where the constructor of each server stands
  port,      \* the local (then the configured) port of each server
  ret,       \* where a server's constructor goes after refresh()
  snap,      \* refresh()'s local: closed | ports when it began
  todo,      \* the part of snap that refresh() has not probed yet
  opened,    \* the part of snap that refresh() found free
  up,        \* servers whose process listens on its port
  foreign,   \* ports that a process of somebody else listens on
  rescanned, \* history: some refresh() has begun since Init
  recycled,  \* history: some refresh() found a port free that a server holds
  dropped    \* history: ports that refresh(only_closed=True) has dropped

poolVars  == <<id, range, ports, closed>>
localVars == <<pc, port, ret, snap, todo, opened>>
envVars   == <<up, foreign>>
history   == <<rescanned, recycled, dropped>>
vars      == <<id, range, ports, closed, pc, port, ret, snap, todo, opened,
               up, foreign, rescanned, recycled, dropped>>

Label == {"idle", "new", "claim", "init_ports", "init_closed", "refresh",
          "probe", "refresh_closed", "port", "pop", "check", "close", "owner"}

\* The server has taken a port out of the pool, for good or for a check.
Holders == {s \in Server : pc[s] \in {"check", "close", "owner"}}

\* The server is somewhere inside a method of the pool.
Busy == {s \in Server : pc[s] \notin {"idle", "owner"}}

\* Nobody is inside the pool.
Quiet == Busy = {}

\* Some process is bound to p: what __check_port(p) finds out.
Listening(p) == p \in foreign \/ \E s \in up : port[s] = p

\* Some server has p.
Held(p) == \E s \in Holders : port[s] = p

\* The thread of s may have a socket bound to p: __check_port tries the port
\* by binding it.
Probing(s, p) ==
  \/ pc[s] = "probe" /\ p \in todo[s]
  \/ pc[s] = "check" /\ port[s] = p

\* What __check_port(p) may answer to the thread of s: a probe of another
\* thread can make a free port look taken.
Answers(s, p) ==
  {free \in BOOLEAN :
     IF free THEN ~Listening(p)
     ELSE Listening(p) \/ \E t \in Server \ {s} : Probing(t, p)}

TypeOK ==
  /\ id \in BOOLEAN
  /\ range \in SUBSET Port
  /\ ports \in SUBSET Port
  /\ closed \in SUBSET Port
  /\ pc \in [Server -> Label]
  /\ port \in [Server -> Port \cup {NoPort}]
  /\ ret \in [Server -> {"idle", "port", "pop"}]
  /\ snap \in [Server -> SUBSET Port]
  /\ todo \in [Server -> SUBSET Port]
  /\ opened \in [Server -> SUBSET Port]
  /\ up \in SUBSET Server
  /\ foreign \in SUBSET Port
  /\ rescanned \in BOOLEAN
  /\ recycled \in BOOLEAN
  /\ dropped \in SUBSET Port

-----------------------------------------------------------------------------
(***************************************************************************)
(* Initial states.  InitLocals: no request is being served.                *)
(***************************************************************************)
InitLocals ==
  /\ pc = [s \in Server |-> "idle"]
  /\ port = [s \in Server |-> NoPort]
  /\ ret = [s \in Server |-> "port"]
  /\ snap = [s \in Server |-> {}]
  /\ todo = [s \in Server |-> {}]
  /\ opened = [s \in Server |-> {}]
  /\ up = {}
  /\ foreign \in SUBSET Port
  /\ rescanned = FALSE
  /\ recycled = FALSE
  /\ dropped = {}

\* The pool has been built by an earlier call, which nobody else overlapped.
Init ==
  /\ InitLocals
  /\ id = TRUE
  /\ range = Port
  /\ ports = Port \ foreign
  /\ closed = foreign

\* The process has just started: the class attributes, no instance yet.
InitBoot ==
  /\ InitLocals
  /\ id = FALSE
  /\ range = Port
  /\ ports = {}
  /\ closed = {}

-----------------------------------------------------------------------------
(***************************************************************************)
(* The constructor PortPool(): only the first one runs __init_range.       *)
(***************************************************************************)
Goto(s, label) == pc' = [pc EXCEPT ![s] = label]

\* Server.__init_mongod / __init_mongos: 'port' not in cfg, ask the pool.
Call(s) ==
  /\ pc[s] = "idle"
  /\ Cardinality(Busy) < Workers
  /\ Goto(s, "new")
  /\ UNCHANGED <<poolVars, port, ret, snap, todo, opened, envVars, history>>

\* if not self.__id:
CheckId(s) ==
  /\ pc[s] = "new"
  /\ Goto(s, IF id THEN "port" ELSE "claim")
  /\ UNCHANGED <<poolVars, port, ret, snap, todo, opened, envVars, history>>

\* self.__id = id(self)
Claim(s) ==
  /\ pc[s] = "claim"
  /\ id' = TRUE
  /\ ret' = [ret EXCEPT ![s] = "port"]
  /\ Goto(s, "init_ports")
  /\ UNCHANGED <<range, ports, closed, port, snap, todo, opened, envVars,
                 history>>

\* self.__ports = set(range(min_port, max_port + 1))
InitPorts(s) ==
  /\ pc[s] = "init_ports"
  /\ ports' = range
  /\ dropped' = {}
  /\ Goto(s, "init_closed")
  /\ UNCHANGED <<id, range, closed, port, ret, snap, todo, opened, envVars,
                 rescanned, recycled>>

\* Mutant: the ports closed in the old range are kept.
InitClosedKeeps(s) ==
  /\ pc[s] = "init_closed"
  /\ Goto(s, "refresh")
  /\ UNCHANGED <<poolVars, port, ret, snap, todo, opened, envVars, history>>

\* self.__closed = set(), then refresh()
InitClosed(s) ==
  /\ pc[s] = "init_closed"
  /\ closed' = {}
  /\ Goto(s, "refresh")
  /\ UNCHANGED <<id, range, ports, port, ret, snap, todo, opened, envVars,
                 history>>

\* change_range(): __init_range again, with another set of ports.
ChangeRange(s, R) ==
  /\ pc[s] = "idle"
  /\ Cardinality(Busy) < Workers
  /\ id
  /\ range' = R
  /\ ret' = [ret EXCEPT ![s] = "idle"]
  /\ Goto(s, "init_ports")
  /\ UNCHANGED <<id, ports, closed, port, snap, todo, opened, envVars,
                 history>>

-----------------------------------------------------------------------------
(***************************************************************************)
(* refresh(): probe every port the pool knows, then rebuild both sets.     *)
(***************************************************************************)
\* ports = self.__closed.union(self.__ports)
Refresh(s) ==
  /\ pc[s] = "refresh"
  /\ snap' = [snap EXCEPT ![s] = closed \cup ports]
  /\ todo' = [todo EXCEPT ![s] = closed \cup ports]
  /\ opened' = [opened EXCEPT ![s] = {}]
  /\ rescanned' = TRUE
  /\ Goto(s, "probe")
  /\ UNCHANGED <<poolVars, port, ret, envVars, recycled, dropped>>

\* One call of __check_port by filter().
Probe(s, p) ==
  /\ pc[s] = "probe"
  /\ p \in todo[s]
  /\ todo' = [todo EXCEPT ![s] = @ \ {p}]
  /\ \E free \in Answers(s, p) :
       /\ opened' = [opened EXCEPT ![s] = IF free THEN @ \cup {p} ELSE @]
       /\ recycled' = (recycled \/ (free /\ Held(p)))
  /\ UNCHANGED <<poolVars, pc, port, ret, snap, envVars, rescanned, dropped>>

\* Mutant: the answers of the probes are ignored.
RefreshPortsAll(s) ==
  /\ pc[s] = "probe"
  /\ todo[s] = {}
  /\ ports' = snap[s]
  /\ Goto(s, "refresh_closed")
  /\ UNCHANGED <<id, range, closed, port, ret, snap, todo, opened, envVars,
                 history>>

\* self.__ports = set(filter(...)): the assignment, after the last probe.
RefreshPorts(s) ==
  /\ pc[s] = "probe"
  /\ todo[s] = {}
  /\ ports' = opened[s]
  /\ Goto(s, "refresh_closed")
  /\ UNCHANGED <<id, range, closed, port, ret, snap, todo, opened, envVars,
                 history>>

\* Mutant: the ports found open stay in the closed set.
RefreshClosedAll(s) ==
  /\ pc[s] = "refresh_closed"
  /\ closed' = snap[s]
  /\ snap' = [snap EXCEPT ![s] = {}]
  /\ opened' = [opened EXCEPT ![s] = {}]
  /\ Goto(s, ret[s])
  /\ UNCHANGED <<id, range, ports, port, ret, todo, envVars, history>>

\* self.__closed = ports.difference(self.__ports)
RefreshClosed(s) ==
  /\ pc[s] = "refresh_closed"
  /\ closed' = snap[s] \ ports
  /\ snap' = [snap EXCEPT ![s] = {}]
  /\ opened' = [opened EXCEPT ![s] = {}]
  /\ Goto(s, ret[s])
  /\ UNCHANGED <<id, range, ports, port, ret, todo, envVars, history>>

\* refresh(only_closed=True), called with nobody else inside.  filter() is
\* lazy: difference() uses the iterator up and union() is given an empty one.
RefreshOnlyClosed ==
  /\ Quiet
  /\ id
  /\ closed' = {p \in closed : Listening(p)}
  /\ dropped' = dropped \cup (closed \ closed')
  /\ UNCHANGED <<id, range, ports, localVars, envVars, rescanned, recycled>>

-----------------------------------------------------------------------------
(***************************************************************************)
(* port(check=True)                                                        *)
(***************************************************************************)
\* if not self.__ports: self.refresh()
TestEmpty(s) ==
  /\ pc[s] = "port"
  /\ Goto(s, IF ports = {} THEN "refresh" ELSE "pop")
  /\ ret' = [ret EXCEPT ![s] = "pop"]
  /\ UNCHANGED <<poolVars, port, snap, todo, opened, envVars, history>>

\* Mutant: the port is looked at and stays in the set.
PopPeeks(s, p) ==
  /\ pc[s] = "pop"
  /\ p \in ports
  /\ port' = [port EXCEPT ![s] = p]
  /\ Goto(s, "check")
  /\ UNCHANGED <<poolVars, ret, snap, todo, opened, envVars, history>>

\* port = self.__ports.pop(): which element is up to the set.
Pop(s, p) ==
  /\ pc[s] = "pop"
  /\ p \in ports
  /\ ports' = ports \ {p}
  /\ port' = [port EXCEPT ![s] = p]
  /\ Goto(s, "check")
  /\ UNCHANGED <<id, range, closed, ret, snap, todo, opened, envVars,
                 history>>

\* pop() from the empty set: IndexError, and there is no such server.
PopFails(s) ==
  /\ pc[s] = "pop"
  /\ ports = {}
  /\ Goto(s, "idle")
  /\ UNCHANGED <<poolVars, port, ret, snap, todo, opened, envVars, history>>

\* __check_port(port) answers True
CheckFree(s) ==
  /\ pc[s] = "check"
  /\ TRUE \in Answers(s, port[s])
  /\ Goto(s, "close")
  /\ UNCHANGED <<poolVars, port, ret, snap, todo, opened, envVars, history>>

\* Mutant: the local is cleared before release_port uses it.
CheckBusyLate(s) ==
  /\ pc[s] = "check"
  /\ FALSE \in Answers(s, port[s])
  /\ port' = [port EXCEPT ![s] = NoPort]
  /\ closed' = closed \ {port'[s]}
  /\ ports' = ports \cup {port'[s]}
  /\ Goto(s, "pop")
  /\ UNCHANGED <<id, range, ret, snap, todo, opened, envVars, history>>

\* Mutant: the first port found taken is an error.
CheckBusyGivesUp(s) ==
  /\ pc[s] = "check"
  /\ FALSE \in Answers(s, port[s])
  /\ closed' = closed \ {port[s]}
  /\ ports' = ports \cup {port[s]}
  /\ port' = [port EXCEPT ![s] = NoPort]
  /\ Goto(s, "idle")
  /\ UNCHANGED <<id, range, ret, snap, todo, opened, envVars, history>>

\* __check_port(port) answers False: release_port(port), then pop again
CheckBusy(s) ==
  /\ pc[s] = "check"
  /\ FALSE \in Answers(s, port[s])
  /\ closed' = closed \ {port[s]}
  /\ ports' = ports \cup {port[s]}
  /\ port' = [port EXCEPT ![s] = NoPort]
  /\ Goto(s, "pop")
  /\ UNCHANGED <<id, range, ret, snap, todo, opened, envVars, history>>

\* self.__closed.add(port); return port
Close(s) ==
  /\ pc[s] = "close"
  /\ closed' = closed \cup {port[s]}
  /\ Goto(s, "owner")
  /\ UNCHANGED <<id, range, ports, port, ret, snap, todo, opened, envVars,
                 history>>

-----------------------------------------------------------------------------
(***************************************************************************)
(* What happens to a port after the pool has handed it out.                *)
(***************************************************************************)
\* The process of s binds its port (Server.start).
Start(s) ==
  /\ pc[s] = "owner"
  /\ ~Listening(port[s])
  /\ up' = up \cup {s}
  /\ UNCHANGED <<poolVars, localVars, foreign, history>>

\* The process of s ends: Server.stop, or a crash.
Stop(s) ==
  /\ s \in up
  /\ up' = up \ {s}
  /\ UNCHANGED <<poolVars, localVars, foreign, history>>

\* Servers.remove: stop the process; nothing is given back to the pool.
Remove(s) ==
  /\ pc[s] = "owner"
  /\ up' = up \ {s}
  /\ port' = [port EXCEPT ![s] = NoPort]
  /\ Goto(s, "idle")
  /\ UNCHANGED <<poolVars, ret, snap, todo, opened, foreign, history>>

ForeignBinds(p) ==
  /\ ~Listening(p)
  /\ foreign' = foreign \cup {p}
  /\ UNCHANGED <<poolVars, localVars, up, history>>

ForeignCloses(p) ==
  /\ foreign' = foreign \ {p}
  /\ p \in foreign
  /\ UNCHANGED <<poolVars, localVars, up, history>>

-----------------------------------------------------------------------------
\* One step of the thread that constructs s, once it has entered the pool.
Step(s) ==
  \/ CheckId(s)
  \/ Claim(s)
  \/ InitPorts(s)
  \/ InitClosed(s)
  \/ Refresh(s)
  \/ \E p \in Port : Probe(s, p)
  \/ RefreshPorts(s)
  \/ RefreshClosed(s)
  \/ TestEmpty(s)
  \/ \E p \in Port : Pop(s, p)
  \/ PopFails(s)
  \/ CheckFree(s)
  \/ CheckBusy(s)
  \/ Close(s)

Environment ==
  \/ \E s \in Server : Start(s) \/ Stop(s) \/ Remove(s)
  \/ \E p \in Port : ForeignBinds(p) \/ ForeignCloses(p)

Next ==
  \/ \E s \in Server : Call(s) \/ Step(s)
  \/ Environment

\* With the two methods that only callers outside mongo_orchestration use.
NextPublic ==
  \/ Next
  \/ \E s \in Server, R \in SUBSET Port : ChangeRange(s, R)
  \/ RefreshOnlyClosed

Spec       == Init /\ [][Next]_vars
SpecBoot   == InitBoot /\ [][Next]_vars
SpecPublic == InitBoot /\ [][NextPublic]_vars

\* A thread inside the pool keeps running.  set.pop() goes round the hash
\* table, so an element that is there at every pop is popped some time.
Fairness ==
  \A s \in Server :
    /\ WF_vars(Step(s))
    /\ \A p \in Port : SF_vars(Pop(s, p))

FairSpec == Spec /\ Fairness

-----------------------------------------------------------------------------
(***************************************************************************)
(* Properties.                                                             *)
(***************************************************************************)
\* No refresh() can have broken the bookkeeping: it only ran with one thread
\* in the pool and met no port that was handed out but not bound, or, with
\* several threads, it has not run.
Undisturbed == (Workers = 1 /\ ~recycled) \/ ~rescanned

\* Two servers never get the same port from the pool, however their
\* constructors interleave (PortPool.port), as long as no refresh() has
\* disturbed it: the port is the server's identity for clients.
GrantedOnce ==
  Undisturbed =>
    \A s, t \in Holders : port[s] = port[t] => s = t

\* Between calls every port of the range is in exactly one of the two sets: a
\* port that is popped, found taken, released or rescanned is never lost, but
\* for what refresh(only_closed=True) finds open and drops (PortPool.port,
\* release_port, refresh).
Conserved ==
  Quiet /\ id /\ (Workers = 1 \/ ~rescanned) =>
    /\ ports \cup closed = range \ dropped
    /\ ports \cap closed = {}

\* After change_range a port that is handed out comes from the new range
\* (PortPool.change_range), also when the old one's ports are still in use.
FromRange ==
  [][\A s \in Server :
       pc[s] = "close" /\ pc'[s] = "owner" => port'[s] \in range]_vars

\* port(check=True) finds a port that is in the pool and stays free, however
\* many of the other ports are taken by other processes (PortPool.port).
FindsFreePort ==
  \A s \in Server, p \in Port :
    [](pc[s] = "pop" /\ p \in ports /\ [](~Listening(p)) => <>(pc[s] = "owner"))

\* What each server has of the pool, for the specification of what a pool
\* promises.
Given == [s \in Server |-> IF s \in Holders THEN port[s] ELSE NoPort]

Allocator == INSTANCE PortAllocator
               WITH given <- Given, disturbed <- ~Undisturbed

\* However the constructors interleave, the two sets and the probes implement
\* a pool that hands each server, in one step, a port nobody else has, and
\* never changes the port of a server that keeps it (PortPool.port, refresh,
\* release_port), up to a disturbing refresh().
Allocates == Allocator!Spec
=============================================================================
