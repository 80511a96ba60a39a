------------------------------ MODULE Platform ------------------------------
(***************************************************************************)
(* The path of an event through the whole platform: clients that retry,    *)
(* the API process of Ingest, which may end and be started again, and what *)
(* EventDelivery promises for the queue, the Workers and ClickHouse.       *)
(*                                                                         *)
(* Each attempt of a client is a request of its own, for which Ingest      *)
(* makes a new event ID: the Worker cannot recognise a retry of an event   *)
(* that was queued although its client was told otherwise.                 *)
(***************************************************************************)
EXTENDS Ingest

CONSTANTS
    RetryOf,     \* the attempt each request repeats, itself if it is the first
    MaxRestarts  \* bound on starts of the API after the first

ASSUME PlatformAssumption ==
    /\ RetryOf \in [Requests -> Requests]
    /\ \A r \in Requests : RetryOf[RetryOf[r]] = RetryOf[r]
    /\ MaxRestarts \in Nat

VARIABLES
    seen,      \* the status the client of each request read, 0 if none yet
    status,    \* EventDelivery: unpublished, pending, acked or dead
    stored,    \* EventDelivery: events with at least one row
    restarts   \* history: starts of the API after the first

Delivery == INSTANCE EventDelivery WITH
    Messages <- Requests, Events <- Requests, EventOf <- [r \in Requests |-> r],
    PoisonMessages <- {}

deliveryVars == <<status, stored>>
platformVars == <<vars, seen, deliveryVars, restarts>>

\* The client gave up without an answer.
Lost == 1

PlatformInit ==
    /\ Init
    /\ Delivery!Init
    /\ seen = [r \in Requests |-> 0]
    /\ restarts = 0

-----------------------------------------------------------------------------
(* Clients (external). *)

\* A first attempt is sent at any time, a retry when the attempt it repeats
\* was not accepted as far as the client knows.
Sent(r) == RetryOf[r] = r \/ seen[RetryOf[r]] \notin {0, 202}

\* The client reads the response.
Receive(r) ==
    /\ seen[r] = 0
    /\ answer[r] # 0
    /\ seen' = [seen EXCEPT ![r] = answer[r]]
    /\ UNCHANGED <<vars, deliveryVars, restarts>>

\* The client stops waiting, or its connection breaks; the request may not
\* have arrived yet, and may be answered already.
GiveUp(r) ==
    /\ Sent(r)
    /\ seen[r] = 0
    /\ seen' = [seen EXCEPT ![r] = Lost]
    /\ UNCHANGED <<vars, deliveryVars, restarts>>

-----------------------------------------------------------------------------
(* The API, the queue and the Workers. *)

\* The API is started again: NewPublisher connects, and the requests of the
\* process that ended are never answered.
Restart ==
    /\ server = "exited"
    /\ restarts < MaxRestarts
    /\ restarts' = restarts + 1
    /\ server' = "serving" /\ outcome' = "none"
    /\ holder' = {} /\ publisher' = "open" /\ link' = "up"
    /\ phase' = [r \in Requests |-> IF phase[r] = "idle" THEN "idle" ELSE "answered"]
    /\ UNCHANGED <<apps, answer, gone, wire, queued, confirm, seen>>

\* What an API step put into the queue is pending from then on.
Enqueue ==
    /\ status' = [r \in Requests |->
                    IF r \in queued' \ queued THEN "pending" ELSE status[r]]
    /\ UNCHANGED stored

ApiStep ==
    /\ \/ \E a \in Apps : CreateApp(a)
       \/ \E r \in Requests : \/ Sent(r) /\ Arrive(r)
                              \/ Handler(r) \/ BrokerReplies(r)
                              \/ seen[r] = Lost /\ ClientGone(r)
       \/ LoseLink \/ ListenerFails \/ Shutdown \/ Terminate \/ Crash
    /\ UNCHANGED <<seen, restarts>>

DeliveryStep ==
    /\ \/ Delivery!Store
       \/ \E r \in Requests : Delivery!Acknowledge(r) \/ Delivery!DeadLetter(r)
    /\ UNCHANGED <<vars, seen, restarts>>

PlatformNext ==
    \/ (ApiStep \/ Restart) /\ Enqueue
    \/ DeliveryStep
    \/ \E r \in Requests : Receive(r) \/ GiveUp(r)

PlatformSpec == PlatformInit /\ [][PlatformNext]_platformVars

\* The Workers settle what is pending (EventuallySettled of Worker); neither
\* the API nor the clients need do anything.
Settle(r) ==
    /\ Delivery!Acknowledge(r) \/ Delivery!DeadLetter(r)
    /\ UNCHANGED <<vars, seen, restarts>>

PlatformFairSpec == PlatformSpec /\ \A r \in Requests : WF_platformVars(Settle(r))

-----------------------------------------------------------------------------
(* Properties. *)

\* Two attempts of the same event are both queued only if the client could not
\* know that the earlier one was: it got 500 or no answer.  202, 400 and 404
\* are final, across crashes and restarts of the API, so retrying only after
\* 500 or silence duplicates no event needlessly.
DuplicateNeedsDoubt ==
    \A r, s \in queued :
      RetryOf[s] = r /\ r # s => seen[r] \in {500, Lost}

\* Rows are written only for events of registered applications whose client
\* was not told 400 or 404.
StoredIsRegistered ==
    \A r \in stored :
      AppOf[r] \in apps /\ r \notin BadRequests /\ seen[r] \notin {400, 404}

\* Every event a client was told is accepted ends in a row or in the
\* dead-letter queue, even if the API dies right after the answer.
AcceptedIsSettled ==
    \A r \in Requests :
      seen[r] = 202 ~> (status[r] = "acked" /\ r \in stored) \/ status[r] = "dead"
=============================================================================
