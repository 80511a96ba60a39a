----------------------------- MODULE MCRegistry -----------------------------
(* Small instances of Registry for TLC. *)
EXTENDS Registry, TLC

CONSTANTS c1, c2, g1

Body(json, name, publisher, category) ==
    [json |-> json, name |-> name, publisher |-> publisher, category |-> category]

\* Clean and padded fields, blank ones in each place, and a refused body.
MCBodies ==
    LET x == <<"x">>
        padded == <<Space, BadByte, Space>>
    IN  {Body("object", x, x, x), Body("object", padded, x, padded),
         Body("object", <<Space>>, x, x), Body("object", x, <<>>, x),
         Body("object", x, x, <<Space>>), Body("other", x, x, x)}

CreateSymmetry == Permutations({c1, c2})
=============================================================================
