----------------------------- MODULE MCPlatform -----------------------------
(* Small instances of Platform for TLC. *)
EXTENDS Platform

CONSTANTS r1, r2, a1

MCAppOf == [r \in Requests |-> a1]

\* r2 repeats r1.
MCRetryOf == [r \in Requests |-> IF r = r2 THEN r1 ELSE r]
=============================================================================
