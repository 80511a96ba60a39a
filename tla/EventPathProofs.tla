-------------------------- MODULE EventPathProofs ---------------------------
(***************************************************************************)
(* Proofs about EventPath for any inputs, any resolution of time and any   *)
(* range of storable times.                                                *)
(***************************************************************************)
EXTENDS EventPath, TLAPS

-----------------------------------------------------------------------------
(* The inductive invariant. *)

Stages == {"request", "check", "publish", "queue", "batch", "stored", "dead",
           "refused"}

\* Past the validation the event is what Ingest made of a valid body: the
\* conversions of Publish and Receive return it unchanged.
EventIsAccepted ==
    stage \in {"check", "publish", "queue", "batch", "stored"} =>
      /\ input.json = "object"
      /\ event = Accepted(input)
      /\ ValidInput(event)

\* Past the existence check the application is registered, and a published
\* event has a time JSON can write.
PublishedIsChecked ==
    /\ stage \in {"publish", "queue", "batch", "stored"} => input.app \in Registered
    /\ stage \in {"queue", "batch", "stored"} =>
         Marshals(event) /\ answer \in {202, 500}

\* The row is the event with a time less than a millisecond away.
RowIsEvent ==
    stage = "stored" =>
      \E tick \in Milliseconds(event.timestamp) :
        row = [event EXCEPT !.timestamp = [wall |-> tick, zone |-> 0]]

IndInv ==
    /\ input \in Inputs
    /\ stage \in Stages
    /\ EventIsAccepted /\ PublishedIsChecked /\ RowIsEvent

-----------------------------------------------------------------------------
\* A decoded payload is the event that was encoded.
LEMMA JSONRoundTrip ==
    ASSUME NEW in \in Inputs
    PROVE  Decoded(Accepted(in)) = Accepted(in)
  BY DEF Decoded, Accepted, JSONTime

\* Trimming does not make an empty string visible.
LEMMA TrimOfEmpty == TrimSpace(<<>>) = <<>>
  <1>1. {i \in DOMAIN <<>> : <<>>[i] # Space} = {}
    OBVIOUS
  <1> QED BY <1>1 DEF TrimSpace

LEMMA InitIndInv == Init => IndInv
  BY DEF Init, IndInv, Stages, EventIsAccepted, PublishedIsChecked, RowIsEvent

LEMMA NextIndInv == IndInv /\ [Next]_vars => IndInv'
  <1> SUFFICES ASSUME IndInv, [Next]_vars PROVE IndInv'
    OBVIOUS
  <1> USE DEF IndInv, Stages, EventIsAccepted, PublishedIsChecked, RowIsEvent
  <1>1. CASE Validate
    BY <1>1 DEF Validate, Refuse
  <1>2. CASE CheckApp
    <2>1. event.app = input.app
      BY <1>2 DEF CheckApp, Accepted
    <2> QED BY <1>2, <2>1 DEF CheckApp, Refuse
  <1>3. CASE Publish
    BY <1>3 DEF Publish, Refuse
  <1>4. CASE Receive
    <2>1. Decoded(event) = event
      BY <1>4, JSONRoundTrip DEF Receive
    <2>2. Unmarshals(event) /\ Valid(Decoded(event))
      <3>1. event.id # "nil"
        BY <1>4 DEF Receive, Accepted
      <3> QED BY <1>4, <2>1, <3>1 DEF Receive, Marshals, Unmarshals, Valid
    <2> QED BY <1>4, <2>1, <2>2 DEF Receive
  <1>5. CASE InsertBatch
    BY <1>5 DEF InsertBatch
  <1>6. CASE UNCHANGED vars
    BY <1>6 DEF vars
  <1> QED BY <1>1, <1>2, <1>3, <1>4, <1>5, <1>6 DEF Next

LEMMA InductiveInvariant == Spec => []IndInv
  BY InitIndInv, NextIndInv, PTL DEF Spec

-----------------------------------------------------------------------------
\* Whatever the API publishes, at any edge of the time range, the consumer can
\* decode and finds valid.
THEOREM NoPoisonFromApi == Spec => []PublishedIsNeverPoison
  <1>1. IndInv => PublishedIsNeverPoison
    BY DEF IndInv, Stages, PublishedIsNeverPoison
  <1> QED BY <1>1, InductiveInvariant, PTL

\* A stored row has the fields of its request and a time less than a
\* millisecond away from the instant the client sent, in any time zone.
THEOREM RowsAreFaithful == Spec => []RowIsInput
  <1>1. IndInv => RowIsInput
    <2> SUFFICES ASSUME IndInv, stage = "stored" PROVE RowIsInput
      BY DEF RowIsInput
    <2> USE DEF IndInv, EventIsAccepted, PublishedIsChecked, RowIsEvent
    <2>1. PICK tick \in Milliseconds(event.timestamp) :
            row = [event EXCEPT !.timestamp = [wall |-> tick, zone |-> 0]]
      OBVIOUS
    <2>2. event = Accepted(input) /\ event.timestamp = InUTC(input.timestamp)
      BY DEF Accepted
    <2>3. row.timestamp = [wall |-> tick, zone |-> 0]
      BY <2>1, <2>2 DEF Accepted
    <2>4. input.timestamp.wall \in Int /\ input.timestamp.zone \in Int
      BY EventPathAssumption
    <2>5. Instant(event.timestamp) = Instant(input.timestamp)
      BY <2>2, <2>4 DEF InUTC, Instant
    <2>6. tick \in Int /\ Instant(input.timestamp) \in Int /\ Instant(row.timestamp) = tick
      BY <2>1, <2>3, <2>4, <2>5 DEF Milliseconds, Instant
    <2>7. /\ -TicksPerMs < tick - Instant(input.timestamp)
          /\ tick - Instant(input.timestamp) < TicksPerMs
      BY <2>1, <2>5, <2>6, EventPathAssumption DEF Milliseconds
    <2>8. /\ row.app = input.app /\ row.type = input.type
          /\ row.platform = input.platform /\ row.revenue = input.revenue
          /\ row.country = TrimSpace(DecodeString(input.country))
      BY <2>1, <2>2 DEF Accepted
    <2>9. row.country # <<>>
      <3>1. TrimSpace(event.country) # <<>>
        BY DEF ValidInput
      <3>2. row.country = event.country
        BY <2>2, <2>8 DEF Accepted
      <3> QED BY <3>1, <3>2, TrimOfEmpty
    <2> QED BY <2>6, <2>7, <2>8, <2>9 DEF RowIsInput
  <1> QED BY <1>1, InductiveInvariant, PTL
=============================================================================
