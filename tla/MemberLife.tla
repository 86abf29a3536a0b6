----------------------------- MODULE MemberLife -----------------------------
(***************************************************************************)
(* What the membership of a replica set promises: a host joins the         *)
(* configuration with a server that is registered for it, the              *)
(* configuration changes by one host at a time, so that no request undoes  *)
(* what another one did, and a server is removed when its host has left,   *)
(* or the replica set is not stored any more.  After a gap, a lost         *)
(* connection, a set that was stored again or a port that was handed out   *)
(* again too early it promises nothing.                                    *)
(* ReplicaSet implements this.                                             *)
(***************************************************************************)
CONSTANT Host

VARIABLES
  members,   \* the hosts of the replica set configuration
  servers,   \* the hosts that have a registered server
  open,      \* the replica set is stored
  disturbed  \* something has happened that the handlers do not repair

Init ==
  /\ members \subseteq Host
  /\ servers = members
  /\ open = TRUE
  /\ disturbed = FALSE

Make(h) ==
  /\ h \notin servers
  /\ open => h \notin members
  /\ servers' = servers \cup {h}
  /\ UNCHANGED <<members, open, disturbed>>

Join(h) ==
  /\ h \in servers \ members
  /\ members' = members \cup {h}
  /\ UNCHANGED <<servers, open, disturbed>>

Leave(h) ==
  /\ members' = members \ {h}
  /\ UNCHANGED <<servers, open, disturbed>>

Retire(h) ==
  /\ open => h \notin members
  /\ servers' = servers \ {h}
  /\ UNCHANGED <<members, open, disturbed>>

Close ==
  /\ open' = FALSE
  /\ UNCHANGED <<members, servers, disturbed>>

Disturb == disturbed' = TRUE

Next ==
  \/ \E h \in Host : Make(h) \/ Join(h) \/ Leave(h) \/ Retire(h)
  \/ Close
  \/ Disturb

Spec == Init /\ [][Next]_<<members, servers, open, disturbed>>

\* Who is a member has a registered server.
Served == open /\ ~disturbed => members \subseteq servers
=============================================================================
