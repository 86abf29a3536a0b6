----------------------------- MODULE MCServers ------------------------------
(***************************************************************************)
(* Small instances of Servers for TLC.                                     *)
(***************************************************************************)
EXTENDS Servers, TLC

Symmetry ==
  Permutations(Id) \cup Permutations(Obj) \cup Permutations(Pid)
    \cup Permutations(Thread)

\* Servers that no registry, request or process refers to.
Dead == Obj \ (Registered \cup InHand \cup {os[p].obj : p \in Pid})

\* What not every server has or meets: a login, a crash and the repair after
\* it, a second config file.
Special(o) ==
  server[o].login \/ server[o].old \/ server[o].lock
    \/ server[o].repair # "none"

\* One server at a time is more than plain.
Relevant == \A o, u \in Obj \ Dead : Special(o) /\ Special(u) => o = u

\* Of a dead server only what is left of it matters: Construct gives all its
\* fields new values.
View ==
  <<storage, os, thread, failed \ Dead, lost,
    [o \in Obj |->
       IF o \notin Dead THEN server[o]
       ELSE [server[o] EXCEPT !.proc = NoPid, !.login = FALSE,
                              !.restart_required = FALSE, !.auth = FALSE,
                              !.users = FALSE, !.lock = FALSE, !.old = FALSE]]>>
=============================================================================
