---------------------------- MODULE PortAllocator ----------------------------
(***************************************************************************)
(* What a pool of ports promises to the servers that ask it for a port: a  *)
(* server is given a port that no other server has, in one step, and keeps *)
(* that very port until it gives it up.  The promise ends, for the whole   *)
(* pool, when the pool is disturbed.  PortPool implements this with two    *)
(* sets, socket probes and no lock.                                        *)
(***************************************************************************)
CONSTANTS Server, Port, NoPort

VARIABLES
  given,     \* the port each server has
  disturbed  \* the pool no longer knows which ports are taken

Free(p) == \A s \in Server : given[s] # p

Init ==
  /\ given = [s \in Server |-> NoPort]
  /\ disturbed = FALSE

Grant(s, p) ==
  /\ given[s] = NoPort
  /\ disturbed \/ Free(p)
  /\ given' = [given EXCEPT ![s] = p]
  /\ UNCHANGED disturbed

Release(s) ==
  /\ given' = [given EXCEPT ![s] = NoPort]
  /\ UNCHANGED disturbed

Disturb ==
  /\ disturbed' = TRUE
  /\ UNCHANGED given

Next ==
  \/ \E s \in Server, p \in Port : Grant(s, p)
  \/ \E s \in Server : Release(s)
  \/ Disturb

Spec == Init /\ [][Next]_<<given, disturbed>>
=============================================================================
