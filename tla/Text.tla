-------------------------------- MODULE Text --------------------------------
(* Strings as sequences of characters, and how Go and JSON treat them. *)
EXTENDS Naturals, Sequences, FiniteSetsExt

Space == " "
BadByte == "bad"             \* a byte that is not UTF-8
Replacement == "replacement" \* U+FFFD

\* strings.TrimSpace
TrimSpace(s) ==
    LET visible == {i \in DOMAIN s : s[i] # Space}
    IN  IF visible = {} THEN <<>> ELSE SubSeq(s, Min(visible), Max(visible))

\* encoding/json decodes what is not UTF-8 to the replacement character.
DecodeString(s) == [i \in DOMAIN s |-> IF s[i] = BadByte THEN Replacement ELSE s[i]]
=============================================================================
