--------------------------- MODULE EventDelivery ----------------------------
(***************************************************************************)
(* What the queue, the Workers and ClickHouse promise together, without    *)
(* sessions, batches, goroutines or faults: a published message stays      *)
(* pending until it is acknowledged, which needs its event to be stored,   *)
(* or dead-lettered; only published events are stored, and none is lost.   *)
(***************************************************************************)
CONSTANTS Messages, Events, EventOf, PoisonMessages

VARIABLES
    status,   \* unpublished, pending, acked or dead, per message
    stored    \* events with at least one row

Init ==
    /\ status = [m \in Messages |-> "unpublished"]
    /\ stored = {}

Publish(m) ==
    /\ status[m] = "unpublished"
    /\ status' = [status EXCEPT ![m] = "pending"]
    /\ UNCHANGED stored

\* Any part of the published events is written, in one step.
Store ==
    \E S \in SUBSET {m \in Messages \ PoisonMessages : status[m] # "unpublished"} :
      /\ stored' = stored \cup {EventOf[m] : m \in S}
      /\ UNCHANGED status

Acknowledge(m) ==
    /\ status[m] = "pending"
    /\ m \notin PoisonMessages
    /\ EventOf[m] \in stored
    /\ status' = [status EXCEPT ![m] = "acked"]
    /\ UNCHANGED stored

DeadLetter(m) ==
    /\ status[m] = "pending"
    /\ status' = [status EXCEPT ![m] = "dead"]
    /\ UNCHANGED stored

Next ==
    \/ Store
    \/ \E m \in Messages : Publish(m) \/ Acknowledge(m) \/ DeadLetter(m)

Spec == Init /\ [][Next]_<<status, stored>>
=============================================================================
