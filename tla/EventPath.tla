----------------------------- MODULE EventPath ------------------------------
(***************************************************************************)
(* The data of one event from the request body to its row: decodeJSON and  *)
(* Ingest (internal/event), Publish and Receive (internal/rabbitmq) and    *)
(* InsertBatch (internal/clickhouse).  Three representations follow each   *)
(* other, Go values, JSON and a ClickHouse row, and what the first accepts *)
(* the others need not.  Ingest and Worker model the concurrency and the   *)
(* faults around these steps.                                              *)
(***************************************************************************)
EXTENDS Text, Integers

CONSTANTS
    Inputs,          \* request bodies: json and the fields of Input
    Registered,      \* applications in the registry
    FirstYear,       \* ticks: wall-clock times of the years 0 to 9999, the
    LastYear,        \*   ones RFC 3339 can write
    FirstStorable,   \* ticks: the range of DateTime64(3), within the years
    LastStorable,
    TicksPerMs,      \* ticks per millisecond
    ZeroTime         \* the tick of the zero time.Time, year 1 in UTC

ASSUME EventPathAssumption ==
    /\ FirstYear <= ZeroTime /\ ZeroTime < FirstStorable
    /\ FirstStorable <= LastStorable /\ LastStorable <= LastYear
    /\ TicksPerMs \in Nat \ {0}
    /\ ZeroTime \in Int /\ FirstYear \in Int /\ LastYear \in Int
    /\ FirstStorable \in Int /\ LastStorable \in Int
    /\ \A in \in Inputs : in.timestamp.wall \in Int /\ in.timestamp.zone \in Int

VARIABLES
    input,    \* the request body
    stage,    \* request, check, publish, queue, batch, stored, dead, rejected
              \* or refused
    answer,   \* HTTP status, 0 if none yet
    event,    \* the Event of the API, then of the Worker
    row       \* the row

vars == <<input, stage, answer, event, row>>

NoEvent == [id |-> "nil"]

Init ==
    /\ input \in Inputs
    /\ stage = "request"
    /\ answer = 0
    /\ event = NoEvent
    /\ row = NoEvent

Refuse(code) == stage' = "refused" /\ answer' = code

-----------------------------------------------------------------------------
(* Values.  A time is a wall-clock reading and the offset of its zone. *)

Instant(t) == t.wall - t.zone

\* Mutant: UTC() relabels the wall-clock reading.
WallClockKept(t) == [t EXCEPT !.zone = 0]

\* time.Time.UTC
InUTC(t) == [wall |-> Instant(t), zone |-> 0]

IsZero(t) == Instant(t) = ZeroTime

\* Wall-clock times time.Time.MarshalJSON can write.
Writable(t) == t.wall \in FirstYear .. LastYear

\* Mutant: the payload has whole milliseconds.
MillisecondsOnly(t) == [t EXCEPT !.wall = @ - (@ % TicksPerMs)]

\* RFC 3339 with nanoseconds, written and read back.
JSONTime(t) == t

\* validateInput
ValidInput(e) ==
    /\ e.app # "nil"
    /\ e.type \in {"install", "session", "purchase"}
    /\ TrimSpace(e.country) # <<>>
    /\ e.platform \in {"android", "ios"}
    /\ e.type = "purchase" => e.revenue >= 0
    /\ ~IsZero(e.timestamp)

-----------------------------------------------------------------------------
(* The API. *)

\* The Event Ingest makes of a decoded body.
Accepted(in) ==
    [id |-> "new", app |-> in.app, type |-> in.type,
     country |-> TrimSpace(DecodeString(in.country)), platform |-> in.platform,
     revenue |-> in.revenue, timestamp |-> InUTC(in.timestamp)]

\* decodeJSON and validateInput answer 400 or let the event pass.
Validate ==
    /\ stage = "request"
    /\ \/ /\ input.json # "object" \/ ~ValidInput(Accepted(input))
          /\ Refuse(400)
          /\ UNCHANGED event
       \/ /\ input.json = "object" /\ ValidInput(Accepted(input))
          /\ stage' = "check"
          /\ event' = Accepted(input)
          /\ UNCHANGED answer
    /\ UNCHANGED <<input, row>>

\* AppRepository.Exists
CheckApp ==
    /\ stage = "check"
    /\ \/ Refuse(500)
       \/ event.app \notin Registered /\ Refuse(404)
       \/ event.app \in Registered /\ stage' = "publish" /\ UNCHANGED answer
    /\ UNCHANGED <<input, event, row>>

\* json.Marshal succeeds.
Marshals(e) == Writable(e.timestamp)

\* Publish: a payload is queued and confirmed, or not, in which case it may be
\* queued all the same; an event that cannot be marshalled is not published.
Publish ==
    /\ stage = "publish"
    /\ \/ ~Marshals(event) /\ Refuse(500)
       \/ Marshals(event) /\ stage' = "queue" /\ answer' \in {202, 500}
       \/ Marshals(event) /\ Refuse(500)
    /\ UNCHANGED <<input, event, row>>

-----------------------------------------------------------------------------
(* The Worker. *)

\* json.Unmarshal succeeds on a payload that was written.
Unmarshals(e) == Writable(e.timestamp)

Decoded(e) == [e EXCEPT !.timestamp = JSONTime(@)]

\* event.Validate
Valid(e) == e.id # "nil" /\ ValidInput(e)

\* Consumer.Receive decodes and validates; a poison message is rejected.
Receive ==
    /\ stage = "queue"
    /\ stage' = IF Unmarshals(event) /\ Valid(Decoded(event))
                THEN "batch" ELSE "rejected"
    /\ event' = Decoded(event)
    /\ UNCHANGED <<input, answer, row>>

\* The milliseconds next to a time, one of which DateTime64(3) keeps.
Milliseconds(t) ==
    {tick \in Instant(t) - TicksPerMs + 1 .. Instant(t) + TicksPerMs - 1 :
       tick % TicksPerMs = 0}

\* Append takes times a DateTime64(3) can hold.
Storable(e) == Instant(e.timestamp) \in FirstStorable .. LastStorable

\* InsertBatch: the row has milliseconds; an event Append refuses, or whose
\* batch cannot be inserted, is dead-lettered with its batch after MaxAttempts.
InsertBatch ==
    /\ stage = "batch"
    /\ \/ /\ Storable(event)
          /\ stage' = "stored"
          /\ \E tick \in Milliseconds(event.timestamp) :
               row' = [event EXCEPT !.timestamp = [wall |-> tick, zone |-> 0]]
       \/ stage' = "dead" /\ UNCHANGED row
    /\ UNCHANGED <<input, answer, event>>

Next == Validate \/ CheckApp \/ Publish \/ Receive \/ InsertBatch

Spec == Init /\ [][Next]_vars

-----------------------------------------------------------------------------
(* Properties. *)

\* What the API publishes the Worker can read and finds valid: trimming, the
\* conversion to UTC and the way through JSON turn no event the API accepted
\* into a poison message, at any edge of the times JSON can write.
PublishedIsNeverPoison == stage # "rejected"

\* The row says what the client sent: the same instant to the millisecond, the
\* trimmed country, the other fields as they were; and only for a body that
\* is valid and names a registered application.
RowIsInput ==
    stage = "stored" =>
      /\ answer \in {202, 500}
      /\ input.json = "object" /\ input.app \in Registered
      /\ row.app = input.app /\ row.type = input.type
      /\ row.platform = input.platform /\ row.revenue = input.revenue
      /\ row.country = TrimSpace(DecodeString(input.country)) /\ row.country # <<>>
      /\ LET drift == Instant(row.timestamp) - Instant(input.timestamp)
         IN  -TicksPerMs < drift /\ drift < TicksPerMs
=============================================================================
