------------------------------- MODULE Worker -------------------------------
(***************************************************************************)
(* The Worker processes (cmd/worker, internal/worker, the consumer side of *)
(* internal/rabbitmq, internal/clickhouse InsertBatch) over the Broker.    *)
(*                                                                         *)
(* A Worker process is two goroutines: the receiver (Worker.receive and    *)
(* Consumer.Receive, control point recv) passes deliveries through a       *)
(* buffered channel to the processor (Worker.Run and flush, control point  *)
(* pc), which batches them, inserts each batch into ClickHouse and then    *)
(* acknowledges it.  SIGTERM cancels the process context; a separate       *)
(* receive context is cancelled only by the processor.                     *)
(*                                                                         *)
(* Batches and the channel are sets: one session delivers a message at     *)
(* most once, and no property depends on the order inside them.            *)
(***************************************************************************)
EXTENDS Broker

CONSTANTS
    Events,             \* event IDs
    EventOf,            \* the event each message carries
    PoisonMessages,     \* messages that do not decode or fail event.Validate
    BatchSize,          \* worker.BatchSize: flush trigger, channel capacity
    MaxInsertAttempts,  \* worker.MaxInsertAttempts
    MaxSignals          \* bound on SIGTERM/SIGINT deliveries

ASSUME WorkerAssumption ==
    /\ EventOf \in [Messages -> Events]
    /\ PoisonMessages \subseteq Messages
    /\ BatchSize \in Nat \ {0}
    /\ MaxInsertAttempts \in Nat \ {0}
    /\ MaxSignals \in Nat

VARIABLES
    pc,           \* the processor's control point
    batch,        \* Run's batch
    todo,         \* batch entries the ack or reject loop has not visited
    attempt,      \* flush's attempt counter
    timer,        \* Workers whose batch timer is armed
    failed,       \* Workers whose Run will return an error
    receiverDone, \* Workers whose processor has seen the receiver's result
    recv,         \* the receiver's control point; "done" once it has sent
                  \* its result and closed the channel
    hand,         \* the delivery the receiver is passing on (at most one)
    chan,         \* the buffered deliveries channel
    signalled,    \* Workers whose process context is cancelled
    cancelled,    \* Workers whose receive context is cancelled
    signals,      \* history: signals so far
    rows,         \* ClickHouse: stored rows per event ID
    ambiguous     \* history: messages of a batch whose insert reported failure

runVars == <<pc, batch, todo, attempt, timer, failed, receiverDone>>
recvVars == <<recv, hand>>
ctxVars == <<signalled, cancelled, signals>>
storeVars == <<rows, ambiguous>>
workerVars == <<runVars, recvVars, chan, ctxVars, storeVars>>
vars == <<brokerVars, workerVars>>

\* Where the events of a set of messages end up.
EventsOf(S) == {EventOf[m] : m \in S}
Valid == Messages \ PoisonMessages

WorkerInit ==
    /\ pc = [w \in Workers |-> "down"]
    /\ batch = [w \in Workers |-> {}]
    /\ todo = [w \in Workers |-> {}]
    /\ attempt = [w \in Workers |-> 1]
    /\ timer = {}
    /\ failed = {}
    /\ receiverDone = {}
    /\ recv = [w \in Workers |-> "done"]
    /\ hand = [w \in Workers |-> {}]
    /\ chan = [w \in Workers |-> {}]
    /\ signalled = {}
    /\ cancelled = {}
    /\ signals = 0
    /\ rows = [e \in Events |-> 0]
    /\ ambiguous = {}

Init == BrokerInit /\ WorkerInit

-----------------------------------------------------------------------------
(* The process. *)

\* cmd/worker run: a process starts (or its supervisor restarts it), connects
\* and enters Worker.Run.
Start(w) ==
    /\ pc[w] = "down"
    /\ OpenSession(w)
    /\ pc' = [pc EXCEPT ![w] = "select"]
    /\ recv' = [recv EXCEPT ![w] = "top"]
    /\ UNCHANGED <<batch, todo, attempt, timer, failed, receiverDone, hand,
                   chan, ctxVars, storeVars>>

\* The process is gone with all its memory.
ProcessEnds(w) ==
    /\ pc' = [pc EXCEPT ![w] = "down"]
    /\ batch' = [batch EXCEPT ![w] = {}]
    /\ todo' = [todo EXCEPT ![w] = {}]
    /\ attempt' = [attempt EXCEPT ![w] = 1]
    /\ timer' = timer \ {w}
    /\ failed' = failed \ {w}
    /\ receiverDone' = receiverDone \ {w}
    /\ recv' = [recv EXCEPT ![w] = "done"]
    /\ hand' = [hand EXCEPT ![w] = {}]
    /\ chan' = [chan EXCEPT ![w] = {}]
    /\ signalled' = signalled \ {w}
    /\ cancelled' = cancelled \ {w}
    /\ connected' = connected \ {w}
    /\ inbox' = [inbox EXCEPT ![w] = {}]
    /\ UNCHANGED <<signals, storeVars>>

\* The process dies at any point; frames it wrote may still arrive.
Crash(w) ==
    /\ pc[w] # "down"
    /\ faults < MaxFaults
    /\ faults' = faults + 1
    /\ ProcessEnds(w)
    /\ UNCHANGED <<loc, sessions, subscribed, acks, rejects, redelivered>>

\* SIGINT or SIGTERM cancels the process context.
Signal(w) ==
    /\ pc[w] # "down"
    /\ w \notin signalled
    /\ signals < MaxSignals
    /\ signals' = signals + 1
    /\ signalled' = signalled \cup {w}
    /\ UNCHANGED <<brokerVars, runVars, recvVars, chan, cancelled, storeVars>>

-----------------------------------------------------------------------------
(* The receiver goroutine. *)

\* The receiver reports an error and closes the channel.
ReceiverReturns(w) ==
    /\ recv' = [recv EXCEPT ![w] = "done"]
    /\ hand' = [hand EXCEPT ![w] = {}]

\* Receive passes its context check and waits for a delivery.
RecvTop(w) ==
    /\ recv[w] = "top"
    /\ w \notin cancelled
    /\ recv' = [recv EXCEPT ![w] = "select"]
    /\ UNCHANGED <<brokerVars, runVars, hand, chan, ctxVars, storeVars>>

\* Receive sees the cancelled receive context, at the check or in the select.
RecvCancelled(w) ==
    /\ recv[w] \in {"top", "select"}
    /\ w \in cancelled
    /\ ReceiverReturns(w)
    /\ UNCHANGED <<brokerVars, runVars, chan, ctxVars, storeVars>>

\* Receive finds the delivery channel closed.
RecvClosed(w) ==
    /\ recv[w] = "select"
    /\ DeliveriesClosed(w)
    /\ ReceiverReturns(w)
    /\ UNCHANGED <<brokerVars, runVars, chan, ctxVars, storeVars>>

\* Mutant: validation refuses every event.
EverythingUnusable == Messages

\* What json.Unmarshal and event.Validate refuse in Receive.
Unusable == PoisonMessages

\* Receive takes a delivery that does not decode or validate, rejects it and
\* goes on; it returns an error if the rejection fails.
RecvPoison(w) ==
    /\ recv[w] = "select"
    /\ \E m \in inbox[w] \cap Unusable :
         /\ inbox' = [inbox EXCEPT ![w] = @ \ {m}]
         /\ \/ /\ w \in connected
               /\ SendReject(w, m)
               /\ recv' = [recv EXCEPT ![w] = "top"]
               /\ UNCHANGED hand
            \/ /\ w \notin connected
               /\ ReceiverReturns(w)
               /\ UNCHANGED rejects
    /\ UNCHANGED <<loc, sessions, subscribed, connected, acks, redelivered,
                   faults, runVars, chan, ctxVars, storeVars>>

\* Receive takes a valid event and returns it to receive.
RecvEvent(w) ==
    /\ recv[w] = "select"
    /\ \E m \in inbox[w] \cap Valid :
         /\ inbox' = [inbox EXCEPT ![w] = @ \ {m}]
         /\ hand' = [hand EXCEPT ![w] = {m}]
    /\ recv' = [recv EXCEPT ![w] = "send"]
    /\ UNCHANGED <<loc, sessions, subscribed, connected, acks, rejects,
                   redelivered, faults, runVars, chan, ctxVars, storeVars>>

\* Mutant: the delivery is dropped instead of being passed on.
DropDelivery(w) == UNCHANGED chan

\* deliveries <- delivery
PassOn(w) == chan' = [chan EXCEPT ![w] = @ \cup hand[w]]

\* The delivery goes into the channel: at once (first select) or when the
\* processor has made room (second select).
SendDelivery(w) ==
    /\ recv[w] \in {"send", "blocked"}
    /\ Cardinality(chan[w]) < BatchSize
    /\ PassOn(w)
    /\ hand' = [hand EXCEPT ![w] = {}]
    /\ recv' = [recv EXCEPT ![w] = "top"]
    /\ UNCHANGED <<brokerVars, runVars, ctxVars, storeVars>>

\* The first select finds the channel full.
SendFull(w) ==
    /\ recv[w] = "send"
    /\ Cardinality(chan[w]) >= BatchSize
    /\ recv' = [recv EXCEPT ![w] = "blocked"]
    /\ UNCHANGED <<brokerVars, runVars, hand, chan, ctxVars, storeVars>>

\* The second select gives up when the receive context is cancelled: the
\* delivery in hand is dropped unacknowledged.
SendAborted(w) ==
    /\ recv[w] = "blocked"
    /\ w \in cancelled
    /\ ReceiverReturns(w)
    /\ UNCHANGED <<brokerVars, runVars, chan, ctxVars, storeVars>>

-----------------------------------------------------------------------------
(* The processor: the select of Run. *)

\* Mutant: the first delivery of a batch does not arm the timer.
TimerNotArmed(w) == UNCHANGED timer

\* The first delivery of a batch arms the timer.
ArmTimer(w) == timer' = IF batch[w] = {} THEN timer \cup {w} ELSE timer

\* A delivery joins the batch: the first one arms the timer, the one that
\* fills the batch stops the timer and flushes.
TakeDelivery(w) ==
    /\ pc[w] = "select"
    /\ \E m \in chan[w] :
         /\ chan' = [chan EXCEPT ![w] = @ \ {m}]
         /\ batch' = [batch EXCEPT ![w] = @ \cup {m}]
    /\ IF Cardinality(batch'[w]) >= BatchSize
       THEN /\ timer' = timer \ {w}
            /\ pc' = [pc EXCEPT ![w] = "insert"]
       ELSE ArmTimer(w) /\ UNCHANGED pc
    /\ UNCHANGED <<brokerVars, recvVars, todo, attempt, failed, receiverDone,
                   ctxVars, storeVars>>

\* The batch timer fires.
TimerFires(w) ==
    /\ pc[w] = "select"
    /\ w \in timer
    /\ timer' = timer \ {w}
    /\ pc' = [pc EXCEPT ![w] = "insert"]
    /\ UNCHANGED <<brokerVars, recvVars, chan, batch, todo, attempt, failed,
                   receiverDone, ctxVars, storeVars>>

\* Mutant: what is left in the channel is not looked at.
ChannelLeftFull(w) == recv[w] = "done"

\* The deliveries channel is closed and empty.
ChannelFinished(w) == recv[w] = "done" /\ chan[w] = {}

\* The channel is closed: shut down if the context is cancelled too, else
\* return the receiver's error and leave the batch unacknowledged.
ReceiverEnded(w) ==
    /\ pc[w] = "select"
    /\ ChannelFinished(w)
    /\ receiverDone' = receiverDone \cup {w}
    /\ \/ /\ w \in signalled
          /\ pc' = [pc EXCEPT ![w] = "stop"]
          /\ UNCHANGED failed
       \/ /\ w \notin signalled
          /\ pc' = [pc EXCEPT ![w] = "return"]
          /\ failed' = failed \cup {w}
    /\ UNCHANGED <<brokerVars, recvVars, chan, batch, todo, attempt, timer,
                   ctxVars, storeVars>>

\* The process context is cancelled.
CtxDone(w) ==
    /\ pc[w] = "select"
    /\ w \in signalled
    /\ pc' = [pc EXCEPT ![w] = "stop"]
    /\ UNCHANGED <<brokerVars, recvVars, chan, batch, todo, attempt, timer,
                   failed, receiverDone, ctxVars, storeVars>>

\* The final flush, which an empty batch skips.
FinalFlush(w) == pc' = [pc EXCEPT ![w] = IF batch[w] = {} THEN "return"
                                                          ELSE "insert"]

\* Mutant: the receiver is not told to stop.
ReceiverNotCancelled(w) == UNCHANGED cancelled

\* cancelReceive()
CancelReceive(w) == cancelled' = cancelled \cup {w}

\* stopConsumer cancels the subscription; then the receiver is cancelled and
\* drained unless it has already ended.
StopConsumer(w) ==
    /\ pc[w] = "stop"
    /\ Answered(w)
    /\ subscribed' = subscribed \ {w}
    /\ \/ /\ w \in receiverDone
          /\ FinalFlush(w)
          /\ UNCHANGED cancelled
       \/ /\ w \notin receiverDone
          /\ CancelReceive(w)
          /\ pc' = [pc EXCEPT ![w] = "drain"]
    /\ UNCHANGED <<loc, sessions, connected, inbox, acks, rejects,
                   redelivered, faults, recvVars, chan, batch, todo, attempt,
                   timer, failed, receiverDone, signalled, signals, storeVars>>

\* The drain loop moves the channel's content to the batch.
DrainOne(w) ==
    /\ pc[w] = "drain"
    /\ \E m \in chan[w] :
         /\ chan' = [chan EXCEPT ![w] = @ \ {m}]
         /\ batch' = [batch EXCEPT ![w] = @ \cup {m}]
    /\ UNCHANGED <<brokerVars, recvVars, pc, todo, attempt, timer, failed,
                   receiverDone, ctxVars, storeVars>>

\* The drain loop ends when the channel is closed and empty.
DrainDone(w) ==
    /\ pc[w] = "drain"
    /\ ChannelFinished(w)
    /\ receiverDone' = receiverDone \cup {w}
    /\ timer' = timer \ {w}
    /\ FinalFlush(w)
    /\ UNCHANGED <<brokerVars, recvVars, chan, batch, todo, attempt, failed,
                   ctxVars, storeVars>>

-----------------------------------------------------------------------------
(* The processor: flush. *)

\* InsertBatch commits one row per distinct event of S.
Commit(S) ==
    rows' = [e \in Events |-> IF e \in S THEN rows[e] + 1 ELSE rows[e]]

\* InsertBatch succeeds with the batch's deduplicated events.
InsertSucceeds(w) ==
    /\ pc[w] = "insert"
    /\ Commit(EventsOf(batch[w]))
    /\ todo' = [todo EXCEPT ![w] = batch[w]]
    /\ attempt' = [attempt EXCEPT ![w] = 1]
    /\ pc' = [pc EXCEPT ![w] = "ack"]
    /\ UNCHANGED <<brokerVars, recvVars, chan, batch, timer, failed,
                   receiverDone, ctxVars, ambiguous>>

\* Mutant: one attempt too many.
AttemptsOffByOne(w) == attempt[w] <= MaxInsertAttempts

\* The loop condition of flush after a failed attempt.
AttemptsLeft(w) == attempt[w] < MaxInsertAttempts

\* Mutant: the batch is acknowledged although its insert failed.
AckAfterFailure == "ack"

\* What flush does with the batch when all attempts failed.
AfterInsertFailure == "reject"

\* InsertBatch returns an error: nothing, everything (the answer was lost) or
\* some partitions' part of the batch is stored.  flush tries again after its
\* backoff, or rejects the batch when the attempts are used up.
InsertFails(w) ==
    /\ pc[w] = "insert"
    /\ \E S \in SUBSET EventsOf(batch[w]) : Commit(S)
    /\ ambiguous' = ambiguous \cup batch[w]
    /\ \/ /\ AttemptsLeft(w)
          /\ attempt' = [attempt EXCEPT ![w] = @ + 1]
          /\ UNCHANGED <<pc, todo, failed>>
       \/ /\ ~AttemptsLeft(w)
          /\ attempt' = [attempt EXCEPT ![w] = 1]
          /\ todo' = [todo EXCEPT ![w] = batch[w]]
          /\ pc' = [pc EXCEPT ![w] = AfterInsertFailure]
          /\ failed' = failed \cup {w}
    /\ UNCHANGED <<brokerVars, recvVars, chan, batch, timer, receiverDone,
                   ctxVars>>

\* One turn of the acknowledgement loop, which goes on after an error.
AckOne(w) ==
    /\ pc[w] = "ack"
    /\ \E m \in todo[w] :
         /\ todo' = [todo EXCEPT ![w] = @ \ {m}]
         /\ \/ w \in connected /\ SendAck(w, m) /\ UNCHANGED failed
            \/ w \notin connected /\ failed' = failed \cup {w}
                                  /\ UNCHANGED acks
    /\ UNCHANGED <<loc, sessions, subscribed, connected, inbox, rejects,
                   redelivered, faults, recvVars, chan, pc, batch, attempt,
                   timer, receiverDone, ctxVars, storeVars>>

\* Mutant: Run keeps the batch it has flushed.
BatchKept(w) == batch[w]

\* batch = batch[:0]
BatchAfterFlush(w) == {}

\* flush returns: to the select with an empty batch, or out of Run after an
\* error or the final flush.
AcksDone(w) ==
    /\ pc[w] = "ack"
    /\ todo[w] = {}
    /\ \/ /\ w \in failed \cup receiverDone
          /\ pc' = [pc EXCEPT ![w] = "return"]
          /\ UNCHANGED batch
       \/ /\ w \notin failed \cup receiverDone
          /\ pc' = [pc EXCEPT ![w] = "select"]
          /\ batch' = [batch EXCEPT ![w] = BatchAfterFlush(w)]
    /\ UNCHANGED <<brokerVars, recvVars, chan, todo, attempt, timer, failed,
                   receiverDone, ctxVars, storeVars>>

\* One turn of rejectBatch, which goes on after an error.
RejectOne(w) ==
    /\ pc[w] = "reject"
    /\ \E m \in todo[w] :
         /\ todo' = [todo EXCEPT ![w] = @ \ {m}]
         /\ \/ w \in connected /\ SendReject(w, m)
            \/ w \notin connected /\ UNCHANGED rejects
    /\ UNCHANGED <<loc, sessions, subscribed, connected, inbox, acks,
                   redelivered, faults, recvVars, chan, pc, batch, attempt,
                   timer, failed, receiverDone, ctxVars, storeVars>>

RejectsDone(w) ==
    /\ pc[w] = "reject"
    /\ todo[w] = {}
    /\ pc' = [pc EXCEPT ![w] = "return"]
    /\ UNCHANGED <<brokerVars, recvVars, chan, batch, todo, attempt, timer,
                   failed, receiverDone, ctxVars, storeVars>>

-----------------------------------------------------------------------------
(* The processor: leaving Run and the process. *)

\* Run's deferred function cancels a receiver that is still running.
Return(w) ==
    /\ pc[w] = "return"
    /\ \/ /\ w \in receiverDone
          /\ pc' = [pc EXCEPT ![w] = "close"]
          /\ UNCHANGED cancelled
       \/ /\ w \notin receiverDone
          /\ pc' = [pc EXCEPT ![w] = "discard"]
          /\ CancelReceive(w)
    /\ UNCHANGED <<brokerVars, recvVars, chan, batch, todo, attempt, timer,
                   failed, receiverDone, signalled, signals, storeVars>>

\* It throws away what the receiver still passes on ...
Discard(w) ==
    /\ pc[w] = "discard"
    /\ \E m \in chan[w] : chan' = [chan EXCEPT ![w] = @ \ {m}]
    /\ UNCHANGED <<brokerVars, recvVars, runVars, ctxVars, storeVars>>

\* ... and waits for its result.
DiscardDone(w) ==
    /\ pc[w] = "discard"
    /\ ChannelFinished(w)
    /\ pc' = [pc EXCEPT ![w] = "close"]
    /\ UNCHANGED <<brokerVars, recvVars, chan, batch, todo, attempt, timer,
                   failed, receiverDone, ctxVars, storeVars>>

\* Consumer.Close and process exit.  The broker handles the close after the
\* frames written before it; on a dead connection Close returns at once.
CloseConsumer(w) ==
    /\ pc[w] = "close"
    /\ \/ /\ w \in sessions \cap connected
          /\ acks[w] = {} /\ rejects[w] = {}
          /\ SessionEnds(w)
       \/ /\ w \notin connected
          /\ UNCHANGED <<sessions, loc, redelivered, acks, rejects>>
    /\ subscribed' = subscribed \ {w}
    /\ ProcessEnds(w)
    /\ UNCHANGED faults

-----------------------------------------------------------------------------
\* Steps of the receiver, of the processor, and of the broker and the client
\* library (external).
Receiver(w) ==
    \/ RecvTop(w) \/ RecvCancelled(w) \/ RecvClosed(w) \/ RecvPoison(w)
    \/ RecvEvent(w) \/ SendDelivery(w) \/ SendFull(w) \/ SendAborted(w)

Processor(w) ==
    \/ TakeDelivery(w) \/ TimerFires(w) \/ ReceiverEnded(w) \/ CtxDone(w)
    \/ StopConsumer(w) \/ DrainOne(w) \/ DrainDone(w)
    \/ InsertSucceeds(w) \/ InsertFails(w)
    \/ AckOne(w) \/ AcksDone(w) \/ RejectOne(w) \/ RejectsDone(w)
    \/ Return(w) \/ Discard(w) \/ DiscardDone(w) \/ CloseConsumer(w)

BrokerStep(w) ==
    /\ \/ Deliver(w) \/ SettleAck(w) \/ SettleReject(w)
       \/ LoseSession(w) \/ NoticeLoss(w)
    /\ UNCHANGED workerVars

Publish(m) == Enqueue(m) /\ UNCHANGED workerVars

Next ==
    \/ \E m \in Messages : Publish(m)
    \/ \E w \in Workers :
         \/ Start(w) \/ Signal(w) \/ Crash(w)
         \/ Receiver(w) \/ Processor(w) \/ BrokerStep(w)

Spec == Init /\ [][Next]_vars

(***************************************************************************)
(* Fairness.  Goroutines run, the broker and the client library make       *)
(* progress on what they hold, a dead connection is noticed (heartbeats),  *)
(* and a supervisor restarts a stopped process.  Nothing forces a          *)
(* publication, a signal, a crash or the loss of a live connection.        *)
(***************************************************************************)
Fairness ==
    \A w \in Workers :
      /\ WF_vars(Start(w))
      /\ WF_vars(Receiver(w))
      /\ WF_vars(Processor(w))
      /\ WF_vars(Deliver(w) /\ UNCHANGED workerVars)
      /\ WF_vars(SettleAck(w) /\ UNCHANGED workerVars)
      /\ WF_vars(SettleReject(w) /\ UNCHANGED workerVars)
      /\ WF_vars(w \notin connected /\ LoseSession(w) /\ UNCHANGED workerVars)
      /\ WF_vars(w \notin sessions /\ NoticeLoss(w) /\ UNCHANGED workerVars)

FairSpec == Spec /\ Fairness

-----------------------------------------------------------------------------
(* Properties. *)

Stored == {e \in Events : rows[e] > 0}

\* Batch entries the processor still has to acknowledge or reject.
Unsettled(w) ==
    IF pc[w] \in {"select", "stop", "drain", "insert"} THEN batch[w] ELSE todo[w]

\* Deliveries w's process holds and has not answered.
InMemory(w) == inbox[w] \cup hand[w] \cup chan[w] \cup Unsettled(w)

TypeOK ==
    /\ BrokerTypeOK
    /\ pc \in [Workers -> {"down", "select", "stop", "drain", "insert", "ack",
                           "reject", "return", "discard", "close"}]
    /\ recv \in [Workers -> {"top", "select", "send", "blocked", "done"}]
    /\ batch \in [Workers -> SUBSET Valid]
    /\ todo \in [Workers -> SUBSET Valid]
    /\ hand \in [Workers -> SUBSET Valid]
    /\ chan \in [Workers -> SUBSET Valid]
    /\ attempt \in [Workers -> 1 .. MaxInsertAttempts]
    /\ timer \in SUBSET Workers
    /\ failed \in SUBSET Workers
    /\ receiverDone \in SUBSET Workers
    /\ signalled \in SUBSET Workers
    /\ cancelled \in SUBSET Workers
    /\ signals \in 0 .. MaxSignals
    /\ rows \in [Events -> Nat]
    /\ ambiguous \in SUBSET Valid

\* At-least-once storage: a message the broker has forgotten after an
\* acknowledgement is a valid event with a row in ClickHouse, whatever
\* crashes, lost connections and shutdowns happened on the way.
AckedIsStored ==
    \A m \in Messages :
      loc[m] = "acked" => m \in Valid /\ EventOf[m] \in Stored

\* A message is dead-lettered only if it is unusable (Consumer.Receive) or was
\* in a batch whose insert failed (flush, rejectBatch).
DeadLetterIsJustified ==
    \A m \in Messages :
      loc[m] = "dead" => m \in PoisonMessages \cup ambiguous

\* An acknowledgement or rejection in transit settles a delivery its own
\* session still holds, and only one of them is sent: a Worker that keeps a
\* batch across the loss of its session cannot settle a redelivery.
SettlementsOutstanding ==
    \A w \in Workers :
      /\ acks[w] \cup rejects[w] \subseteq Held(w)
      /\ acks[w] \cap rejects[w] = {}

\* While Run is working on a live session, every unacknowledged delivery is
\* somewhere between the client library and an answer in transit: no path of
\* Receive, receive, Run or flush forgets one and leaks its prefetch slot.
NoDeliveryForgotten ==
    \A w \in sessions \cap connected :
      pc[w] \notin {"down", "return", "discard", "close"}
      /\ ~(recv[w] = "done" /\ w \in cancelled /\ Prefetch > BatchSize)
      => Held(w) = InMemory(w) \cup acks[w] \cup rejects[w]

\* The comment in receive: a channel sized to the prefetch has room for all
\* in-flight work, so the receiver never blocks on it (and never reaches the
\* select that drops a delivery); nor does shutdown build an oversized batch.
BufferHasRoom ==
    Prefetch <= BatchSize =>
      \A w \in Workers : recv[w] # "blocked" /\ Cardinality(batch[w]) <= BatchSize

\* Graceful shutdown: a Run that ends without an error on a live session has
\* answered every delivery its receiver took from the client library.
GracefulShutdownDrains ==
    Prefetch <= BatchSize =>
      \A w \in sessions \cap connected :
        pc[w] = "close" /\ w \notin failed
        => Held(w) = inbox[w] \cup acks[w] \cup rejects[w]

\* An event has more rows than publications only if one of its publications
\* was redelivered or took part in an insert that reported failure.
DuplicatesExplained ==
    \A e \in Events :
      LET carriers == {m \in Valid : EventOf[m] = e}
      IN  rows[e] > Cardinality(carriers)
          => carriers \cap (redelivered \cup ambiguous) # {}

\* Every published message is eventually stored and acknowledged, or
\* dead-lettered: no batch waits for a timer that is not armed, no delivery
\* is requeued for ever, no goroutine waits for another for ever.
EventuallySettled ==
    \A m \in Messages : loc[m] # "unpublished" ~> loc[m] \in {"acked", "dead"}

\* A process that is asked to stop eventually exits.
ShutdownCompletes ==
    \A w \in Workers : w \in signalled ~> pc[w] = "down"

\* The abstract status of each message: a session's hold on it, the number of
\* redeliveries and the Worker do not show.
Status ==
    [m \in Messages |-> IF loc[m] \in {"unpublished", "acked", "dead"}
                        THEN loc[m] ELSE "pending"]

Delivery == INSTANCE EventDelivery WITH status <- Status, stored <- Stored

\* The Workers over the broker implement EventDelivery: every step, of any
\* Worker, is an abstract step or is invisible.
ImplementsDelivery == Delivery!Spec
=============================================================================
