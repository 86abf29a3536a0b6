------------------------------ MODULE MCDaemon ------------------------------
(***************************************************************************)
(* An instance of Daemon for TLC: two shells and two daemons.              *)
(***************************************************************************)
EXTENDS Daemon

CONSTANTS p1, p2, s1, s2

MCPid   == {p1, p2}
MCShell == {s1, s2}
=============================================================================
