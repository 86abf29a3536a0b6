----------------------------- MODULE MCPortPool -----------------------------
(***************************************************************************)
(* Small instances of PortPool for TLC.                                    *)
(***************************************************************************)
EXTENDS PortPool, TLC

\* Servers are interchangeable, and so are ports: nothing orders either.
Symmetry == Permutations(Server) \cup Permutations(Port)
=============================================================================
