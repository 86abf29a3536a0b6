----------------------------- MODULE ServerLife -----------------------------
(***************************************************************************)
(* What the registry of single servers promises: a server is made, named,  *)
(* and leaves once; only a server that has not left runs, as one process   *)
(* at a time; and after it has been secured it runs with authentication    *)
(* only.  Servers implements this when clients wait for their replies.     *)
(***************************************************************************)
CONSTANTS Id, Obj, Pid, NoProcess

VARIABLES
  place,   \* where each server is: "out", "making", or the id that names it
  running, \* what each process id runs: NoProcess, or [obj, auth]: a server,
           \* and whether it runs with authentication
  hard     \* the servers that have been secured

Runs(p, o) == running[p] # NoProcess /\ running[p].obj = o
Still(o)   == \A p \in Pid : ~Runs(p, o)

Init ==
  /\ place = [o \in Obj |-> "out"]
  /\ running = [p \in Pid |-> NoProcess]
  /\ hard = {}

Make(o) ==
  /\ place[o] = "out"
  /\ Still(o)
  /\ place' = [place EXCEPT ![o] = "making"]
  /\ hard' = hard \ {o}
  /\ UNCHANGED running

\* The creation failed; what it has started may be left behind.
Abandon(o) ==
  /\ place[o] = "making"
  /\ place' = [place EXCEPT ![o] = "out"]
  /\ UNCHANGED <<running, hard>>

Enter(o, i) ==
  /\ place[o] = "making"
  /\ \A u \in Obj : place[u] # i
  /\ place' = [place EXCEPT ![o] = i]
  /\ UNCHANGED <<running, hard>>

Leave(o) ==
  /\ place[o] \in Id
  /\ place' = [place EXCEPT ![o] = "out"]
  /\ UNCHANGED <<running, hard>>

Launch(p, o, auth) ==
  /\ place[o] # "out"
  /\ running[p] = NoProcess
  /\ Still(o)
  /\ o \in hard => auth
  /\ running' = [running EXCEPT ![p] = [obj |-> o, auth |-> auth]]
  /\ UNCHANGED <<place, hard>>

End(p) ==
  /\ running' = [running EXCEPT ![p] = NoProcess]
  /\ UNCHANGED <<place, hard>>

Secure(o) ==
  /\ place[o] # "out"
  /\ Still(o)
  /\ hard' = hard \cup {o}
  /\ UNCHANGED <<place, running>>

Next ==
  \/ \E o \in Obj : Make(o) \/ Abandon(o) \/ Leave(o) \/ Secure(o)
  \/ \E o \in Obj, i \in Id : Enter(o, i)
  \/ \E p \in Pid, o \in Obj, auth \in BOOLEAN : Launch(p, o, auth)
  \/ \E p \in Pid : End(p)

Spec == Init /\ [][Next]_<<place, running, hard>>
=============================================================================
