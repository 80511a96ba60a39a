---------------------------- MODULE MCAnalytics -----------------------------
(* A small instance of Analytics for TLC. *)
EXTENDS Analytics

Row(app, type, country, platform, revenue, time) ==
    [app |-> app, type |-> type, country |-> country, platform |-> platform,
     revenue |-> revenue, time |-> time]

\* Two ticks per day: rows at the first and the last tick of days 0 and 1, three
\* applications that can tie, and purchases whose sum exceeds Int64Range.
MCRowData ==
    <<Row(1, "install", "RS", "ios", 0, 1),
      Row(2, "install", "RS", "android", 0, 2),
      Row(2, "install", "US", "ios", 0, 3),
      Row(3, "install", "RS", "ios", 0, 0),
      Row(1, "purchase", "RS", "ios", 3, 0),
      Row(1, "purchase", "US", "ios", 3, 3)>>
=============================================================================
