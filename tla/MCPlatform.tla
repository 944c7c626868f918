----------------------------- MODULE MCPlatform -----------------------------
(***************************************************************************)
(* A small instance of Platform: a process with a worker and one without.  *)
(***************************************************************************)
EXTENDS Platform

CONSTANTS p1, p2, m1
=============================================================================
