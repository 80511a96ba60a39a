------------------------------ MODULE MCWorker ------------------------------
(* Small instances of Worker for TLC. *)
EXTENDS Worker, TLC

CONSTANTS m1, m2, m3, e1, e2

\* m2 carries the same event as m1 (an event that was published again, such
\* as a dead letter moved back by hand), the case flush deduplicates for;
\* other messages are alone with their event.
MCEventOf == [m \in Messages |-> IF m \in {m1, m2} THEN e1 ELSE e2]

\* The two carriers of e1 are interchangeable.
CarrierSymmetry == Permutations({m1, m2})

\* Two Workers are interchangeable, and so are m1 with e1 and m3 with e2.
SwapMessages == m1 :> m3 @@ m3 :> m1 @@ e1 :> e2 @@ e2 :> e1
RaceSymmetry ==
    Permutations(Workers) \cup {SwapMessages @@ p : p \in Permutations(Workers)}
=============================================================================
