---------------------------- MODULE MCEventPath -----------------------------
(* Small instances of EventPath for TLC. *)
EXTENDS EventPath

\* Times in zones on both sides of UTC, around the zero time and the edges of
\* what JSON can write and of what DateTime64 can hold.
MCTimes ==
    [wall : {0, 1, 4, 5, 6, 8, 9, 12, 13, 15, 16}, zone : {-2, 0, 2}]

MCInputs ==
    [json : {"object"}, app : {"nil", "a", "unknown"},
     type : {"install", "purchase", "other"},
     country : {<<>>, <<Space>>, <<Space, "U", BadByte, Space>>},
     platform : {"ios", "other"}, revenue : {-1, 1}, timestamp : MCTimes]
    \cup
    [json : {"other"}, app : {"a"}, type : {"install"}, country : {<<"U">>},
     platform : {"android"}, revenue : {0}, timestamp : {[wall |-> 9, zone |-> 0]}]
=============================================================================
