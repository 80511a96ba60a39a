------------------------------ MODULE MCIngest ------------------------------
(* Small instances of Ingest for TLC. *)
EXTENDS Ingest

CONSTANTS r1, r2, r3, a1, a2

\* Two requests compete for one application; a third, malformed one names the
\* other application.
MCAppOf == [r \in Requests |-> IF r = r3 THEN a2 ELSE a1]
=============================================================================
