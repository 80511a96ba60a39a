------------------------------- MODULE Broker -------------------------------
(***************************************************************************)
(* RabbitMQ as internal/rabbitmq uses it: one durable main queue whose     *)
(* rejected messages go to a dead-letter queue, one AMQP session per       *)
(* Worker process with manual acknowledgements and a prefetch limit, and   *)
(* the amqp091 client's half of that session.                              *)
(*                                                                         *)
(* Queue order is abstracted: no property tells two orders apart, so the   *)
(* queue is the set of ready messages and the broker may deliver any.      *)
(***************************************************************************)
EXTENDS Naturals, FiniteSets

CONSTANTS
    Messages,    \* publications to the main queue
    Workers,     \* Worker processes (process slots: a slot may be restarted)
    Prefetch,    \* basic.qos prefetch count of a session
    MaxFaults    \* bound on crashes and connection losses in one behaviour

ASSUME BrokerAssumption ==
    /\ IsFiniteSet(Messages)
    /\ Prefetch \in Nat \ {0}
    /\ MaxFaults \in Nat
    /\ Workers \cap {"unpublished", "ready", "acked", "dead"} = {}

VARIABLES
    loc,         \* where each message is: unpublished, ready (in the main
                 \* queue), acked (gone), dead (in the dead-letter queue), or
                 \* the Worker whose session holds it unacknowledged
    sessions,    \* Workers whose session the broker considers open
    subscribed,  \* Workers whose basic.consume subscription is active
    connected,   \* Workers whose client library considers the session open
    inbox,       \* deliveries buffered by the client library, per Worker
    acks,        \* basic.ack frames in transit to the broker, per Worker
    rejects,     \* basic.reject(requeue=false) frames in transit, per Worker
    redelivered, \* history: messages that were requeued at least once
    faults       \* history: crashes and connection losses so far

brokerVars == <<loc, sessions, subscribed, connected, inbox, acks, rejects,
                redelivered, faults>>

\* Deliveries the broker counts as unacknowledged on w's session.
Held(w) == {m \in Messages : loc[m] = w}

BrokerInit ==
    /\ loc = [m \in Messages |-> "unpublished"]
    /\ sessions = {}
    /\ subscribed = {}
    /\ connected = {}
    /\ inbox = [w \in Workers |-> {}]
    /\ acks = [w \in Workers |-> {}]
    /\ rejects = [w \in Workers |-> {}]
    /\ redelivered = {}
    /\ faults = 0

-----------------------------------------------------------------------------
\* A persistent message is routed to the main queue.
Enqueue(m) ==
    /\ loc[m] = "unpublished"
    /\ loc' = [loc EXCEPT ![m] = "ready"]
    /\ UNCHANGED <<sessions, subscribed, connected, inbox, acks, rejects,
                   redelivered, faults>>

\* NewConsumer: dial, channel, declareTopology, Qos, Consume.  Either all of
\* it succeeds or the process exits before it holds a delivery.
OpenSession(w) ==
    /\ w \notin sessions
    /\ sessions' = sessions \cup {w}
    /\ connected' = connected \cup {w}
    /\ subscribed' = subscribed \cup {w}
    /\ UNCHANGED <<loc, inbox, acks, rejects, redelivered, faults>>

\* The prefetch limit NewConsumer sets with Qos.
QosLimit == Prefetch

\* The broker pushes a ready message while the prefetch limit allows it.
Deliver(w) ==
    /\ w \in sessions \cap subscribed
    /\ Cardinality(Held(w)) < QosLimit
    /\ \E m \in Messages :
         /\ loc[m] = "ready"
         /\ loc' = [loc EXCEPT ![m] = w]
         /\ inbox' = IF w \in connected
                     THEN [inbox EXCEPT ![w] = @ \cup {m}]
                     ELSE inbox
    /\ UNCHANGED <<sessions, subscribed, connected, acks, rejects,
                   redelivered, faults>>

\* A basic.ack frame arrives: the message is removed for good.
SettleAck(w) ==
    /\ \E m \in acks[w] :
         /\ acks' = [acks EXCEPT ![w] = @ \ {m}]
         /\ loc' = [loc EXCEPT ![m] = "acked"]
    /\ UNCHANGED <<sessions, subscribed, connected, inbox, rejects,
                   redelivered, faults>>

\* Where a rejected delivery goes: rejectDelivery asks for no requeue, and
\* declareTopology gives the main queue a dead-letter exchange and routing
\* key that are bound to the dead-letter queue.
RejectTarget == "dead"

\* A basic.reject frame arrives.
SettleReject(w) ==
    /\ \E m \in rejects[w] :
         /\ rejects' = [rejects EXCEPT ![w] = @ \ {m}]
         /\ loc' = [loc EXCEPT ![m] = RejectTarget]
    /\ UNCHANGED <<sessions, subscribed, connected, inbox, acks,
                   redelivered, faults>>

\* The main queue after w's session ends: what it held is ready again.
Requeue(w) ==
    [m \in Messages |-> IF loc[m] = w THEN "ready" ELSE loc[m]]

\* Mutant: frames of a dead session stay in transit.
SessionEndsFramesSurvive(w) ==
    /\ sessions' = sessions \ {w}
    /\ loc' = Requeue(w)
    /\ redelivered' = redelivered \cup Held(w)
    /\ UNCHANGED <<acks, rejects>>

\* The broker ends w's session: it requeues every unacknowledged delivery
\* and never sees the frames still in transit.
SessionEnds(w) ==
    /\ sessions' = sessions \ {w}
    /\ loc' = Requeue(w)
    /\ redelivered' = redelivered \cup Held(w)
    /\ acks' = [acks EXCEPT ![w] = {}]
    /\ rejects' = [rejects EXCEPT ![w] = {}]

\* The broker drops a session: the network fails, the broker restarts (queue
\* and messages are durable), or the client's process is gone.
LoseSession(w) ==
    /\ w \in sessions
    /\ \/ w \notin connected /\ faults' = faults
       \/ w \in connected /\ faults < MaxFaults /\ faults' = faults + 1
    /\ SessionEnds(w)
    /\ UNCHANGED <<subscribed, connected, inbox>>

\* The client library notices that the connection is gone, by heartbeat or
\* socket error, before or after the broker does.  Its buffering goroutine
\* may still hand over some of the deliveries it holds; the rest is dropped.
NoticeLoss(w) ==
    /\ w \in connected
    /\ \/ w \notin sessions /\ faults' = faults
       \/ w \in sessions /\ faults < MaxFaults /\ faults' = faults + 1
    /\ connected' = connected \ {w}
    /\ \E kept \in SUBSET inbox[w] : inbox' = [inbox EXCEPT ![w] = kept]
    /\ UNCHANGED <<loc, sessions, subscribed, acks, rejects, redelivered>>

-----------------------------------------------------------------------------
\* Mutant: a frame outlives its session.
SendAckAlways(w, m) ==
    acks' = [acks EXCEPT ![w] = @ \cup {m}]

\* Frames a client writes: they reach an open session, and are lost without
\* an error when the broker has already dropped it.
SendAck(w, m) ==
    acks' = IF w \in sessions THEN [acks EXCEPT ![w] = @ \cup {m}] ELSE acks

\* Mutant: an undecodable delivery is skipped without being rejected.
RejectSkipped(w, m) == UNCHANGED rejects

SendReject(w, m) ==
    rejects' = IF w \in sessions
               THEN [rejects EXCEPT ![w] = @ \cup {m}]
               ELSE rejects

\* A synchronous request (cancel, close) returns: the broker answered, or the
\* client knows that the connection is closed (amqp.ErrClosed).
Answered(w) == w \in sessions \/ w \notin connected

\* The client's delivery channel is closed and drained.
DeliveriesClosed(w) ==
    /\ inbox[w] = {}
    /\ w \notin connected \cap subscribed

BrokerTypeOK ==
    /\ loc \in [Messages ->
                  {"unpublished", "ready", "acked", "dead"} \cup Workers]
    /\ sessions \in SUBSET Workers
    /\ subscribed \in SUBSET Workers
    /\ connected \in SUBSET Workers
    /\ inbox \in [Workers -> SUBSET Messages]
    /\ acks \in [Workers -> SUBSET Messages]
    /\ rejects \in [Workers -> SUBSET Messages]
    /\ redelivered \in SUBSET Messages
    /\ faults \in 0 .. MaxFaults
=============================================================================
