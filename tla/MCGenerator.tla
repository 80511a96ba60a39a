---------------------------- MODULE MCGenerator -----------------------------
(* Small instances of Generator for TLC. *)
EXTENDS Generator

\* The second event goes to the second application, the others to the first.
MCAppOf == [r \in Requests |-> IF r = 2 /\ MaxApps > 1 THEN 2 ELSE 1]
=============================================================================
