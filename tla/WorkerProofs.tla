---------------------------- MODULE WorkerProofs ----------------------------
(***************************************************************************)
(* Proofs about Worker, for every set of messages, events and Workers and  *)
(* every prefetch, batch size and bound: type correctness, at-least-once   *)
(* storage, justified dead-lettering, sound acknowledgements and           *)
(* rejections in transit; then room in the receiver's channel, deliveries  *)
(* accounted for during shutdown, explained duplicates and the refinement  *)
(* of EventDelivery.                                                       *)
(***************************************************************************)
EXTENDS Worker, FiniteSetTheorems, TLAPS

-----------------------------------------------------------------------------
(* The inductive invariant, per Worker. *)

\* A process that is down holds nothing.
DownIsEmpty ==
    \A w \in Workers :
      pc[w] = "down" => /\ w \notin connected
                        /\ inbox[w] = {} /\ hand[w] = {} /\ chan[w] = {}
                        /\ batch[w] = {} /\ todo[w] = {}

\* Only the two settlement loops have entries left to visit.
TodoInLoops ==
    \A w \in Workers : pc[w] \notin {"ack", "reject"} => todo[w] = {}

\* A delivery is in one place of its process at a time.
PlacesApart ==
    \A w \in Workers :
      /\ inbox[w] \cap (hand[w] \cup chan[w] \cup Unsettled(w)) = {}
      /\ hand[w] \cap (chan[w] \cup Unsettled(w)) = {}
      /\ chan[w] \cap Unsettled(w) = {}

\* On a live session, what the process holds is unacknowledged at the broker
\* and no answer to it is under way.
MemoryIsOwed ==
    \A w \in sessions \cap connected :
      InMemory(w) \subseteq Held(w) \ (acks[w] \cup rejects[w])

\* What is being acknowledged, or is acknowledged in transit, is stored.
AcksAreStored ==
    \A w \in Workers :
      /\ \A m \in acks[w] : m \in Valid /\ EventOf[m] \in Stored
      /\ pc[w] = "ack" => \A m \in todo[w] : EventOf[m] \in Stored

\* What is being rejected, or is rejected in transit, deserves it.
RejectsAreJustified ==
    \A w \in Workers :
      /\ rejects[w] \subseteq PoisonMessages \cup ambiguous
      /\ pc[w] = "reject" => todo[w] \subseteq ambiguous

IndInv ==
    /\ TypeOK
    /\ DownIsEmpty /\ TodoInLoops /\ PlacesApart
    /\ MemoryIsOwed /\ SettlementsOutstanding
    /\ AcksAreStored /\ RejectsAreJustified
    /\ AckedIsStored /\ DeadLetterIsJustified

-----------------------------------------------------------------------------
LEMMA InitTypeOK == Init => TypeOK
  BY BrokerAssumption, WorkerAssumption
  DEF Init, BrokerInit, WorkerInit, TypeOK, BrokerTypeOK

\* Every action keeps the types: entries of a batch come from the channel,
\* those from the receiver's hand, and that holds valid events only.
LEMMA NextTypeOK == TypeOK /\ [Next]_vars => TypeOK'
  <1> SUFFICES ASSUME TypeOK, [Next]_vars PROVE TypeOK'
    OBVIOUS
  <1> USE DEF TypeOK, BrokerTypeOK
  <1> USE DEF runVars, recvVars, ctxVars, storeVars, brokerVars, workerVars
  <1>1. ASSUME NEW m \in Messages, Publish(m) PROVE TypeOK'
    BY <1>1 DEF Publish, Enqueue
  <1>2. ASSUME NEW w \in Workers, Start(w) PROVE TypeOK'
    BY <1>2 DEF Start, OpenSession
  <1>3. ASSUME NEW w \in Workers, Signal(w) PROVE TypeOK'
    BY <1>3, WorkerAssumption DEF Signal
  <1>4. ASSUME NEW w \in Workers, Crash(w) PROVE TypeOK'
    BY <1>4, BrokerAssumption, WorkerAssumption DEF Crash, ProcessEnds
  <1>5. ASSUME NEW w \in Workers, RecvTop(w) PROVE TypeOK'
    BY <1>5 DEF RecvTop
  <1>6. ASSUME NEW w \in Workers, RecvCancelled(w) PROVE TypeOK'
    BY <1>6 DEF RecvCancelled, ReceiverReturns
  <1>7. ASSUME NEW w \in Workers, RecvClosed(w) PROVE TypeOK'
    BY <1>7 DEF RecvClosed, ReceiverReturns
  <1>8. ASSUME NEW w \in Workers, RecvPoison(w) PROVE TypeOK'
    BY <1>8 DEF RecvPoison, Unusable, SendReject, ReceiverReturns, Valid
  <1>9. ASSUME NEW w \in Workers, RecvEvent(w) PROVE TypeOK'
    BY <1>9 DEF RecvEvent, Valid
  <1>10. ASSUME NEW w \in Workers, SendDelivery(w) PROVE TypeOK'
    BY <1>10 DEF SendDelivery, PassOn
  <1>11. ASSUME NEW w \in Workers, SendFull(w) PROVE TypeOK'
    BY <1>11 DEF SendFull
  <1>12. ASSUME NEW w \in Workers, SendAborted(w) PROVE TypeOK'
    BY <1>12 DEF SendAborted, ReceiverReturns
  <1>13. ASSUME NEW w \in Workers, TakeDelivery(w) PROVE TypeOK'
    BY <1>13 DEF TakeDelivery, ArmTimer
  <1>14. ASSUME NEW w \in Workers, TimerFires(w) PROVE TypeOK'
    BY <1>14 DEF TimerFires
  <1>15. ASSUME NEW w \in Workers, ReceiverEnded(w) PROVE TypeOK'
    BY <1>15 DEF ReceiverEnded, ChannelFinished
  <1>16. ASSUME NEW w \in Workers, CtxDone(w) PROVE TypeOK'
    BY <1>16 DEF CtxDone
  <1>17. ASSUME NEW w \in Workers, StopConsumer(w) PROVE TypeOK'
    BY <1>17 DEF StopConsumer, CancelReceive, FinalFlush
  <1>18. ASSUME NEW w \in Workers, DrainOne(w) PROVE TypeOK'
    BY <1>18 DEF DrainOne
  <1>19. ASSUME NEW w \in Workers, DrainDone(w) PROVE TypeOK'
    BY <1>19 DEF DrainDone, ChannelFinished, FinalFlush
  <1>20. ASSUME NEW w \in Workers, InsertSucceeds(w) PROVE TypeOK'
    BY <1>20, WorkerAssumption DEF InsertSucceeds, Commit, EventsOf
  <1>21. ASSUME NEW w \in Workers, InsertFails(w) PROVE TypeOK'
    BY <1>21, WorkerAssumption DEF InsertFails, AttemptsLeft,
      AfterInsertFailure, Commit, EventsOf
  <1>22. ASSUME NEW w \in Workers, AckOne(w) PROVE TypeOK'
    BY <1>22 DEF AckOne, SendAck, Valid
  <1>23. ASSUME NEW w \in Workers, AcksDone(w) PROVE TypeOK'
    BY <1>23 DEF AcksDone, BatchAfterFlush
  <1>24. ASSUME NEW w \in Workers, RejectOne(w) PROVE TypeOK'
    BY <1>24 DEF RejectOne, SendReject, Valid
  <1>25. ASSUME NEW w \in Workers, RejectsDone(w) PROVE TypeOK'
    BY <1>25 DEF RejectsDone
  <1>26. ASSUME NEW w \in Workers, Return(w) PROVE TypeOK'
    BY <1>26 DEF Return, CancelReceive
  <1>27. ASSUME NEW w \in Workers, Discard(w) PROVE TypeOK'
    BY <1>27 DEF Discard
  <1>28. ASSUME NEW w \in Workers, DiscardDone(w) PROVE TypeOK'
    BY <1>28 DEF DiscardDone, ChannelFinished
  <1>29. ASSUME NEW w \in Workers, CloseConsumer(w) PROVE TypeOK'
    BY <1>29, WorkerAssumption DEF CloseConsumer, ProcessEnds, SessionEnds,
       Requeue, Held
  <1>30. ASSUME NEW w \in Workers, Deliver(w), UNCHANGED workerVars PROVE TypeOK'
    BY <1>30 DEF Deliver
  <1>31. ASSUME NEW w \in Workers, SettleAck(w), UNCHANGED workerVars PROVE TypeOK'
    BY <1>31 DEF SettleAck
  <1>32. ASSUME NEW w \in Workers, SettleReject(w), UNCHANGED workerVars PROVE TypeOK'
    BY <1>32 DEF SettleReject, RejectTarget
  <1>33. ASSUME NEW w \in Workers, LoseSession(w), UNCHANGED workerVars PROVE TypeOK'
    BY <1>33, BrokerAssumption DEF LoseSession, SessionEnds, Requeue, Held
  <1>34. ASSUME NEW w \in Workers, NoticeLoss(w), UNCHANGED workerVars PROVE TypeOK'
    BY <1>34, BrokerAssumption DEF NoticeLoss
  <1>35. CASE UNCHANGED vars
    BY <1>35 DEF vars
  <1> QED BY <1>1, <1>2, <1>3, <1>4, <1>5, <1>6, <1>7, <1>8, <1>9, <1>10,
     <1>11, <1>12, <1>13, <1>14, <1>15, <1>16, <1>17, <1>18, <1>19, <1>20,
     <1>21, <1>22, <1>23, <1>24, <1>25, <1>26, <1>27, <1>28, <1>29, <1>30,
     <1>31, <1>32, <1>33, <1>34, <1>35 DEF Next, Receiver, Processor,
     BrokerStep

-----------------------------------------------------------------------------
LEMMA InitIndInv == Init => IndInv
  BY InitTypeOK, BrokerAssumption
  DEF Init, BrokerInit, WorkerInit, IndInv, DownIsEmpty, TodoInLoops,
      PlacesApart, MemoryIsOwed, SettlementsOutstanding, AcksAreStored,
      RejectsAreJustified, AckedIsStored, DeadLetterIsJustified, Unsettled

\* The processor moves on between two loops, with no entry left to visit.
LEMMA OnlyPcMoves ==
    ASSUME NEW w \in Workers, IndInv, TypeOK', todo[w] = {},
           pc[w] \in {"select", "stop", "drain", "reject", "discard"},
           pc[w] \in {"reject", "discard"} => pc'[w] \in {"return", "close"},
           pc'[w] \in {"stop", "drain", "insert", "return", "close"},
           \A v \in Workers \ {w} : pc'[v] = pc[v],
           UNCHANGED <<loc, sessions, connected, inbox, acks, rejects, hand,
                       chan, batch, todo, storeVars>>
    PROVE  IndInv'
  <1>1. DownIsEmpty'
    BY DEF IndInv, DownIsEmpty
  <1>2. TodoInLoops'
    BY DEF IndInv, TodoInLoops
  <1>3. \A v \in Workers : Unsettled(v)' \subseteq Unsettled(v)
    BY DEF Unsettled
  <1>4. PlacesApart'
    BY <1>3 DEF IndInv, PlacesApart
  <1>5. MemoryIsOwed'
    <2>1. sessions \subseteq Workers
      BY DEF IndInv, TypeOK, BrokerTypeOK
    <2>2. \A v \in Workers : InMemory(v)' \subseteq InMemory(v)
      BY <1>3 DEF InMemory
    <2> QED BY <2>1, <2>2 DEF IndInv, MemoryIsOwed, Held
  <1>6. SettlementsOutstanding'
    BY DEF IndInv, SettlementsOutstanding, Held
  <1>7. AcksAreStored'
    BY DEF IndInv, AcksAreStored, Stored, storeVars
  <1>8. RejectsAreJustified'
    BY DEF IndInv, RejectsAreJustified, storeVars
  <1>9. AckedIsStored' /\ DeadLetterIsJustified'
    BY DEF IndInv, AckedIsStored, DeadLetterIsJustified, Stored, storeVars
  <1> QED BY <1>1, <1>2, <1>4, <1>5, <1>6, <1>7, <1>8, <1>9 DEF IndInv

\* The steps of the processor that only move its control.
LEMMA MovesOnIndInv ==
    ASSUME NEW w \in Workers, IndInv, TypeOK',
           \/ TimerFires(w) \/ ReceiverEnded(w) \/ CtxDone(w) \/ StopConsumer(w)
           \/ DrainDone(w) \/ RejectsDone(w) \/ DiscardDone(w)
    PROVE  IndInv'
  <1>1. pc \in [Workers -> {"down", "select", "stop", "drain", "insert", "ack",
                           "reject", "return", "discard", "close"}]
    BY DEF IndInv, TypeOK
  <1>2. pc[w] \notin {"ack", "reject"} => todo[w] = {}
    BY DEF IndInv, TodoInLoops
  <1> USE DEF brokerVars, recvVars
  <1>3. CASE TimerFires(w)
    BY <1>1, <1>2, <1>3, OnlyPcMoves DEF TimerFires
  <1>4. CASE ReceiverEnded(w)
    BY <1>1, <1>2, <1>4, OnlyPcMoves DEF ReceiverEnded
  <1>5. CASE CtxDone(w)
    BY <1>1, <1>2, <1>5, OnlyPcMoves DEF CtxDone
  <1>6. CASE StopConsumer(w)
    BY <1>1, <1>2, <1>6, OnlyPcMoves DEF StopConsumer, FinalFlush
  <1>7. CASE DrainDone(w)
    BY <1>1, <1>2, <1>7, OnlyPcMoves DEF DrainDone, FinalFlush
  <1>8. CASE RejectsDone(w)
    BY <1>1, <1>2, <1>8, OnlyPcMoves DEF RejectsDone
  <1>9. CASE DiscardDone(w)
    BY <1>1, <1>2, <1>9, OnlyPcMoves DEF DiscardDone
  <1> QED BY <1>3, <1>4, <1>5, <1>6, <1>7, <1>8, <1>9

\* A process ends, with its session or before the broker notices.
LEMMA ProcessGone ==
    ASSUME NEW w \in Workers, IndInv, TypeOK', ProcessEnds(w),
           UNCHANGED <<loc, sessions, acks, rejects>> \/ SessionEnds(w)
    PROVE  IndInv'
  <1>1. /\ pc'[w] = "down" /\ w \notin connected' /\ inbox'[w] = {}
        /\ hand'[w] = {} /\ chan'[w] = {} /\ batch'[w] = {} /\ todo'[w] = {}
    BY DEF ProcessEnds, IndInv, TypeOK, BrokerTypeOK
  <1>2. ASSUME NEW v \in Workers, v # w
        PROVE  /\ pc'[v] = pc[v] /\ (v \in connected' <=> v \in connected)
               /\ inbox'[v] = inbox[v] /\ hand'[v] = hand[v] /\ chan'[v] = chan[v]
               /\ batch'[v] = batch[v] /\ todo'[v] = todo[v]
    BY <1>2 DEF ProcessEnds, IndInv, TypeOK, BrokerTypeOK
  <1>3. UNCHANGED <<rows, ambiguous>>
    BY DEF ProcessEnds, storeVars
  <1>4. /\ sessions' \subseteq sessions /\ sessions \subseteq Workers
        /\ \A v \in Workers : acks'[v] \subseteq acks[v] /\ rejects'[v] \subseteq rejects[v]
    BY DEF SessionEnds, IndInv, TypeOK, BrokerTypeOK
  <1>5. /\ \A v \in Workers : v # w => Held(v)' = Held(v)
        /\ Held(w)' = Held(w) \/ (acks'[w] = {} /\ rejects'[w] = {})
    <2>1. CASE UNCHANGED <<loc, sessions, acks, rejects>>
      <3>1. \A v \in Workers : v # w => Held(v)' = Held(v)
        BY <2>1 DEF Held
      <3>2. Held(w)' = Held(w)
        BY <2>1 DEF Held
      <3> QED BY <3>1, <3>2
    <2>2. CASE SessionEnds(w)
      <3>1. acks'[w] = {} /\ rejects'[w] = {}
        BY <2>2 DEF SessionEnds, IndInv, TypeOK, BrokerTypeOK
      <3>2. \A v \in Workers : v # w => Held(v)' = Held(v)
        BY <2>2, BrokerAssumption DEF SessionEnds, Requeue, Held
      <3> QED BY <3>1, <3>2
    <2> QED BY <2>1, <2>2
  <1>6. \A m \in Messages : loc'[m] \in {"acked", "dead"} => loc[m] = loc'[m]
    BY DEF SessionEnds, Requeue
  <1>7. DownIsEmpty' /\ TodoInLoops'
    BY <1>1, <1>2 DEF IndInv, DownIsEmpty, TodoInLoops
  <1>8. Unsettled(w)' = {} /\ \A v \in Workers : v # w => Unsettled(v)' = Unsettled(v)
    BY <1>1, <1>2 DEF Unsettled
  <1>9. PlacesApart'
    BY <1>1, <1>2, <1>8 DEF IndInv, PlacesApart
  <1>10. MemoryIsOwed'
    <2>1. \A v \in Workers : v # w => InMemory(v)' = InMemory(v)
      BY <1>2, <1>8 DEF InMemory
    <2> QED BY <1>1, <1>2, <1>4, <1>5, <2>1 DEF IndInv, MemoryIsOwed
  <1>11. SettlementsOutstanding'
    <2>1. \A v \in Workers : /\ acks[v] \cup rejects[v] \subseteq Held(v)
                             /\ acks[v] \cap rejects[v] = {}
      BY DEF IndInv, SettlementsOutstanding
    <2>2. \A v \in Workers : /\ (acks[v] \cup rejects[v])' \subseteq Held(v)'
                             /\ (acks[v] \cap rejects[v])' = {}
      BY <1>4, <1>5, <2>1
    <2> QED BY <2>2 DEF SettlementsOutstanding
  <1>12. AcksAreStored' /\ RejectsAreJustified'
    BY <1>1, <1>2, <1>3, <1>4 DEF IndInv, AcksAreStored, RejectsAreJustified, Stored
  <1>13. AckedIsStored' /\ DeadLetterIsJustified'
    BY <1>3, <1>6 DEF IndInv, AckedIsStored, DeadLetterIsJustified, Stored
  <1> QED BY <1>7, <1>9, <1>10, <1>11, <1>12, <1>13 DEF IndInv

\* A process starts with nothing and leaves nothing behind.
LEMMA ProcessIndInv ==
    ASSUME NEW w \in Workers, IndInv, TypeOK', Start(w) \/ Signal(w) \/ Crash(w)
    PROVE  IndInv'
  <1> USE DEF IndInv, TypeOK, BrokerTypeOK, Valid
  <1> USE DEF DownIsEmpty, TodoInLoops, PlacesApart, MemoryIsOwed,
              SettlementsOutstanding, AcksAreStored, RejectsAreJustified,
              AckedIsStored, DeadLetterIsJustified
  <1> USE DEF Held, InMemory, Unsettled, Stored
  <1> USE DEF runVars, recvVars, ctxVars, storeVars, brokerVars, workerVars
  <1>1. ASSUME Start(w) PROVE IndInv'
    BY <1>1 DEF Start, OpenSession
  <1>2. ASSUME Signal(w) PROVE IndInv'
    BY <1>2 DEF Signal
  <1>3. ASSUME Crash(w) PROVE IndInv'
    BY <1>3, ProcessGone DEF Crash
  <1> QED BY <1>1, <1>2, <1>3 DEF IndInv

\* The receiver moves a delivery from inbox to hand to channel, or answers it.
LEMMA ReceiverIndInv ==
    ASSUME NEW w \in Workers, IndInv, TypeOK', Receiver(w)
    PROVE  IndInv'
  <1> USE DEF IndInv, TypeOK, BrokerTypeOK, Valid
  <1> USE DEF DownIsEmpty, TodoInLoops, PlacesApart, MemoryIsOwed,
              SettlementsOutstanding, AcksAreStored, RejectsAreJustified,
              AckedIsStored, DeadLetterIsJustified
  <1> USE DEF Held, InMemory, Unsettled, Stored
  <1> USE DEF runVars, recvVars, ctxVars, storeVars, brokerVars, workerVars
  <1>1. ASSUME RecvTop(w) PROVE IndInv'
    BY <1>1 DEF RecvTop
  <1>2. ASSUME RecvCancelled(w) PROVE IndInv'
    BY <1>2 DEF RecvCancelled, ReceiverReturns
  <1>3. ASSUME RecvClosed(w) PROVE IndInv'
    BY <1>3 DEF RecvClosed, ReceiverReturns
  <1>4. ASSUME RecvPoison(w) PROVE IndInv'
    <2>1. DownIsEmpty' /\ TodoInLoops' /\ PlacesApart'
      BY <1>4 DEF RecvPoison, ReceiverReturns
    <2>2. MemoryIsOwed' /\ SettlementsOutstanding'
      <3>1. CASE w \in connected
        <4>1. MemoryIsOwed'
          BY <1>4, <3>1 DEF RecvPoison, Unusable, SendReject
        <4>2. SettlementsOutstanding'
          BY <1>4, <3>1 DEF RecvPoison, Unusable, SendReject
        <4> QED BY <4>1, <4>2
      <3>2. CASE w \notin connected
        BY <1>4, <3>2 DEF RecvPoison, ReceiverReturns
      <3> QED BY <3>1, <3>2
    <2>3. AcksAreStored' /\ RejectsAreJustified'
      <3>1. AcksAreStored'
        BY <1>4 DEF RecvPoison
      <3>2. RejectsAreJustified'
        BY <1>4 DEF RecvPoison, Unusable, SendReject
      <3> QED BY <3>1, <3>2
    <2>4. AckedIsStored' /\ DeadLetterIsJustified'
      BY <1>4 DEF RecvPoison
    <2> QED BY <2>1, <2>2, <2>3, <2>4
  <1>5. ASSUME RecvEvent(w) PROVE IndInv'
    <2>1. DownIsEmpty' /\ TodoInLoops' /\ PlacesApart'
      BY <1>5 DEF RecvEvent
    <2>2. MemoryIsOwed' /\ SettlementsOutstanding'
      BY <1>5 DEF RecvEvent
    <2>3. AcksAreStored' /\ RejectsAreJustified'
      BY <1>5 DEF RecvEvent
    <2>4. AckedIsStored' /\ DeadLetterIsJustified'
      BY <1>5 DEF RecvEvent
    <2> QED BY <2>1, <2>2, <2>3, <2>4
  <1>6. ASSUME SendDelivery(w) PROVE IndInv'
    BY <1>6 DEF SendDelivery, PassOn
  <1>7. ASSUME SendFull(w) PROVE IndInv'
    BY <1>7 DEF SendFull
  <1>8. ASSUME SendAborted(w) PROVE IndInv'
    BY <1>8 DEF SendAborted, ReceiverReturns
  <1> QED BY <1>1, <1>2, <1>3, <1>4, <1>5, <1>6, <1>7, <1>8 DEF Receiver

\* The processor moves a delivery from channel to batch and answers it once,
\* after its event is stored or its insert has failed for good.
LEMMA ProcessorIndInv ==
    ASSUME NEW w \in Workers, IndInv, TypeOK', Processor(w)
    PROVE  IndInv'
  <1>1. ASSUME \/ TimerFires(w) \/ ReceiverEnded(w) \/ CtxDone(w) \/ StopConsumer(w)
               \/ DrainDone(w) \/ RejectsDone(w) \/ DiscardDone(w)
        PROVE  IndInv'
    BY <1>1, MovesOnIndInv
  <1>2. ASSUME CloseConsumer(w) PROVE IndInv'
    BY <1>2, ProcessGone DEF CloseConsumer
  <1> USE DEF IndInv, TypeOK, BrokerTypeOK, Valid
  <1> USE DEF DownIsEmpty, TodoInLoops, PlacesApart, MemoryIsOwed,
              SettlementsOutstanding, AcksAreStored, RejectsAreJustified,
              AckedIsStored, DeadLetterIsJustified
  <1> USE DEF Held, InMemory, Unsettled, Stored
  <1> USE DEF runVars, recvVars, ctxVars, storeVars, brokerVars, workerVars
  <1>3. ASSUME TakeDelivery(w) PROVE IndInv'
    <2>1. DownIsEmpty' /\ TodoInLoops' /\ PlacesApart'
      BY <1>3 DEF TakeDelivery, ArmTimer
    <2>2. MemoryIsOwed' /\ SettlementsOutstanding'
      BY <1>3 DEF TakeDelivery, ArmTimer
    <2>3. AcksAreStored' /\ RejectsAreJustified'
      BY <1>3 DEF TakeDelivery, ArmTimer
    <2>4. AckedIsStored' /\ DeadLetterIsJustified'
      BY <1>3 DEF TakeDelivery, ArmTimer
    <2> QED BY <2>1, <2>2, <2>3, <2>4
  <1>4. ASSUME DrainOne(w) PROVE IndInv'
    <2>1. DownIsEmpty' /\ TodoInLoops' /\ PlacesApart'
      BY <1>4 DEF DrainOne
    <2>2. MemoryIsOwed' /\ SettlementsOutstanding'
      BY <1>4 DEF DrainOne
    <2>3. AcksAreStored' /\ RejectsAreJustified'
      BY <1>4 DEF DrainOne
    <2>4. AckedIsStored' /\ DeadLetterIsJustified'
      BY <1>4 DEF DrainOne
    <2> QED BY <2>1, <2>2, <2>3, <2>4
  <1>5. ASSUME InsertSucceeds(w) PROVE IndInv'
    <2>1. DownIsEmpty' /\ TodoInLoops' /\ PlacesApart'
      BY <1>5, WorkerAssumption DEF InsertSucceeds, Commit, EventsOf
    <2>2. MemoryIsOwed' /\ SettlementsOutstanding'
      BY <1>5, WorkerAssumption DEF InsertSucceeds, Commit, EventsOf
    <2>3. AcksAreStored' /\ RejectsAreJustified'
      BY <1>5, WorkerAssumption DEF InsertSucceeds, Commit, EventsOf
    <2>4. AckedIsStored' /\ DeadLetterIsJustified'
      BY <1>5, WorkerAssumption DEF InsertSucceeds, Commit, EventsOf
    <2> QED BY <2>1, <2>2, <2>3, <2>4
  <1>6. ASSUME InsertFails(w) PROVE IndInv'
    <2>1. CASE AttemptsLeft(w)
      <3>1. UNCHANGED <<pc, todo, failed>>
        BY <1>6, <2>1 DEF InsertFails
      <3>2. DownIsEmpty' /\ TodoInLoops' /\ PlacesApart'
        BY <1>6, <3>1 DEF InsertFails
      <3>3. MemoryIsOwed' /\ SettlementsOutstanding'
        BY <1>6, <3>1 DEF InsertFails
      <3>4. AcksAreStored' /\ RejectsAreJustified'
        BY <1>6, <3>1, WorkerAssumption DEF InsertFails, Commit, EventsOf
      <3>5. AckedIsStored' /\ DeadLetterIsJustified'
        BY <1>6, <3>1, WorkerAssumption DEF InsertFails, Commit, EventsOf
      <3> QED BY <3>2, <3>3, <3>4, <3>5
    <2>2. CASE ~AttemptsLeft(w)
      <3>1. /\ pc' = [pc EXCEPT ![w] = "reject"]
            /\ todo' = [todo EXCEPT ![w] = batch[w]]
        BY <1>6, <2>2 DEF InsertFails, AfterInsertFailure
      <3>2. DownIsEmpty' /\ TodoInLoops' /\ PlacesApart'
        BY <1>6, <3>1 DEF InsertFails
      <3>3. MemoryIsOwed' /\ SettlementsOutstanding'
        BY <1>6, <3>1 DEF InsertFails
      <3>4. AcksAreStored' /\ RejectsAreJustified'
        BY <1>6, <3>1, WorkerAssumption DEF InsertFails, Commit, EventsOf
      <3>5. AckedIsStored' /\ DeadLetterIsJustified'
        BY <1>6, <3>1, WorkerAssumption DEF InsertFails, Commit, EventsOf
      <3> QED BY <3>2, <3>3, <3>4, <3>5
    <2> QED BY <2>1, <2>2
  <1>7. ASSUME AckOne(w) PROVE IndInv'
    <2>1. DownIsEmpty' /\ TodoInLoops' /\ PlacesApart'
      BY <1>7 DEF AckOne, SendAck
    <2>2. MemoryIsOwed' /\ SettlementsOutstanding'
      BY <1>7 DEF AckOne, SendAck
    <2>3. AcksAreStored' /\ RejectsAreJustified'
      BY <1>7 DEF AckOne, SendAck
    <2>4. AckedIsStored' /\ DeadLetterIsJustified'
      BY <1>7 DEF AckOne, SendAck
    <2> QED BY <2>1, <2>2, <2>3, <2>4
  <1>8. ASSUME AcksDone(w) PROVE IndInv'
    <2>1. DownIsEmpty' /\ TodoInLoops' /\ PlacesApart'
      BY <1>8 DEF AcksDone, BatchAfterFlush
    <2>2. MemoryIsOwed' /\ SettlementsOutstanding'
      BY <1>8 DEF AcksDone, BatchAfterFlush
    <2>3. AcksAreStored' /\ RejectsAreJustified'
      BY <1>8 DEF AcksDone, BatchAfterFlush
    <2>4. AckedIsStored' /\ DeadLetterIsJustified'
      BY <1>8 DEF AcksDone, BatchAfterFlush
    <2> QED BY <2>1, <2>2, <2>3, <2>4
  <1>9. ASSUME RejectOne(w) PROVE IndInv'
    <2>1. DownIsEmpty' /\ TodoInLoops' /\ PlacesApart'
      BY <1>9 DEF RejectOne, SendReject
    <2>2. MemoryIsOwed' /\ SettlementsOutstanding'
      BY <1>9 DEF RejectOne, SendReject
    <2>3. AcksAreStored' /\ RejectsAreJustified'
      BY <1>9 DEF RejectOne, SendReject
    <2>4. AckedIsStored' /\ DeadLetterIsJustified'
      BY <1>9 DEF RejectOne, SendReject
    <2> QED BY <2>1, <2>2, <2>3, <2>4
  <1>10. ASSUME Return(w) PROVE IndInv'
    <2>1. DownIsEmpty' /\ TodoInLoops' /\ PlacesApart'
      BY <1>10 DEF Return, CancelReceive
    <2>2. MemoryIsOwed' /\ SettlementsOutstanding'
      BY <1>10 DEF Return, CancelReceive
    <2>3. AcksAreStored' /\ RejectsAreJustified'
      BY <1>10 DEF Return, CancelReceive
    <2>4. AckedIsStored' /\ DeadLetterIsJustified'
      BY <1>10 DEF Return, CancelReceive
    <2> QED BY <2>1, <2>2, <2>3, <2>4
  <1>11. ASSUME Discard(w) PROVE IndInv'
    BY <1>11 DEF Discard
  <1> QED BY <1>1, <1>2, <1>3, <1>4, <1>5, <1>6, <1>7, <1>8, <1>9, <1>10, <1>11 DEF Processor

\* The broker settles what its session holds, and forgets frames with it.
LEMMA BrokerIndInv ==
    ASSUME NEW w \in Workers, IndInv, TypeOK', BrokerStep(w)
    PROVE  IndInv'
  <1> USE DEF IndInv, TypeOK, BrokerTypeOK, Valid
  <1> USE DEF DownIsEmpty, TodoInLoops, PlacesApart, MemoryIsOwed,
              SettlementsOutstanding, AcksAreStored, RejectsAreJustified,
              AckedIsStored, DeadLetterIsJustified
  <1> USE DEF Held, InMemory, Unsettled, Stored
  <1> USE DEF runVars, recvVars, ctxVars, storeVars, brokerVars, workerVars
  <1>1. ASSUME Deliver(w), UNCHANGED workerVars PROVE IndInv'
    <2>1. DownIsEmpty' /\ TodoInLoops' /\ PlacesApart'
      BY <1>1, BrokerAssumption DEF Deliver
    <2>2. MemoryIsOwed' /\ SettlementsOutstanding'
      BY <1>1, BrokerAssumption DEF Deliver
    <2>3. AcksAreStored' /\ RejectsAreJustified'
      BY <1>1, BrokerAssumption DEF Deliver
    <2>4. AckedIsStored' /\ DeadLetterIsJustified'
      BY <1>1, BrokerAssumption DEF Deliver
    <2> QED BY <2>1, <2>2, <2>3, <2>4
  <1>2. ASSUME SettleAck(w), UNCHANGED workerVars PROVE IndInv'
    <2>1. DownIsEmpty' /\ TodoInLoops' /\ PlacesApart'
      BY <1>2, BrokerAssumption DEF SettleAck
    <2>2. MemoryIsOwed' /\ SettlementsOutstanding'
      BY <1>2, BrokerAssumption DEF SettleAck
    <2>3. AcksAreStored' /\ RejectsAreJustified'
      BY <1>2, BrokerAssumption DEF SettleAck
    <2>4. AckedIsStored' /\ DeadLetterIsJustified'
      BY <1>2, BrokerAssumption DEF SettleAck
    <2> QED BY <2>1, <2>2, <2>3, <2>4
  <1>3. ASSUME SettleReject(w), UNCHANGED workerVars PROVE IndInv'
    <2>1. DownIsEmpty' /\ TodoInLoops' /\ PlacesApart'
      BY <1>3, BrokerAssumption DEF SettleReject, RejectTarget
    <2>2. MemoryIsOwed' /\ SettlementsOutstanding'
      BY <1>3, BrokerAssumption DEF SettleReject, RejectTarget
    <2>3. AcksAreStored' /\ RejectsAreJustified'
      BY <1>3, BrokerAssumption DEF SettleReject, RejectTarget
    <2>4. AckedIsStored' /\ DeadLetterIsJustified'
      BY <1>3, BrokerAssumption DEF SettleReject, RejectTarget
    <2> QED BY <2>1, <2>2, <2>3, <2>4
  <1>4. ASSUME LoseSession(w), UNCHANGED workerVars PROVE IndInv'
    <2>1. DownIsEmpty' /\ TodoInLoops' /\ PlacesApart'
      BY <1>4, BrokerAssumption DEF LoseSession, SessionEnds, Requeue
    <2>2. MemoryIsOwed' /\ SettlementsOutstanding'
      BY <1>4, BrokerAssumption DEF LoseSession, SessionEnds, Requeue
    <2>3. AcksAreStored' /\ RejectsAreJustified'
      BY <1>4, BrokerAssumption DEF LoseSession, SessionEnds, Requeue
    <2>4. AckedIsStored' /\ DeadLetterIsJustified'
      BY <1>4, BrokerAssumption DEF LoseSession, SessionEnds, Requeue
    <2> QED BY <2>1, <2>2, <2>3, <2>4
  <1>5. ASSUME NoticeLoss(w), UNCHANGED workerVars PROVE IndInv'
    BY <1>5 DEF NoticeLoss
  <1> QED BY <1>1, <1>2, <1>3, <1>4, <1>5 DEF BrokerStep

LEMMA NextIndInv == IndInv /\ [Next]_vars => IndInv'
  <1> SUFFICES ASSUME IndInv, [Next]_vars PROVE IndInv'
    OBVIOUS
  <1>1. TypeOK'
    BY NextTypeOK DEF IndInv
  <1>2. ASSUME NEW m \in Messages, Publish(m) PROVE IndInv'
    BY <1>1, <1>2, BrokerAssumption
    DEF Publish, Enqueue, IndInv, TypeOK, BrokerTypeOK, workerVars, runVars,
        recvVars, ctxVars, storeVars, DownIsEmpty, TodoInLoops, PlacesApart,
        MemoryIsOwed, SettlementsOutstanding, AcksAreStored,
        RejectsAreJustified, AckedIsStored, DeadLetterIsJustified, Unsettled,
        InMemory, Held, Stored
  <1>3. CASE UNCHANGED vars
    BY <1>1, <1>3
    DEF vars, brokerVars, workerVars, runVars, recvVars, ctxVars, storeVars,
        IndInv, DownIsEmpty, TodoInLoops, PlacesApart, MemoryIsOwed,
        SettlementsOutstanding, AcksAreStored, RejectsAreJustified,
        AckedIsStored, DeadLetterIsJustified, Unsettled, InMemory, Held, Stored
  <1> QED
    BY <1>1, <1>2, <1>3, ProcessIndInv, ReceiverIndInv, ProcessorIndInv,
       BrokerIndInv DEF Next

LEMMA InductiveInvariant == Spec => []IndInv
  BY InitIndInv, NextIndInv, PTL DEF Spec

-----------------------------------------------------------------------------
\* Every reachable state is well typed; in particular a batch never holds a
\* message that Consumer.Receive should have rejected, and flush never counts
\* past MaxInsertAttempts.
THEOREM TypeCorrect == Spec => []TypeOK
  BY InitTypeOK, NextTypeOK, PTL DEF Spec

\* At-least-once storage: the broker never forgets a message whose event is
\* not in ClickHouse, under any interleaving of crashes, connection losses and
\* shutdowns of any number of Workers.
THEOREM AtLeastOnce == Spec => []AckedIsStored
  BY InductiveInvariant, PTL DEF IndInv

\* Only unusable messages and messages of a failed insert are dead-lettered.
THEOREM DeadLettersJustified == Spec => []DeadLetterIsJustified
  BY InductiveInvariant, PTL DEF IndInv

\* No answer in transit refers to a delivery that its session does not hold,
\* and none is answered both ways.
THEOREM AnswersAreSound == Spec => []SettlementsOutstanding
  BY InductiveInvariant, PTL DEF IndInv

-----------------------------------------------------------------------------
(***************************************************************************)
(* The comment in Worker.receive: a channel with room for a whole prefetch *)
(* never blocks the receiver, so shutdown never drops a delivery the       *)
(* consumer has returned and never builds an oversized batch.              *)
(***************************************************************************)

\* What a session holds, what its process keeps in memory after the session
\* is lost, and what a batch grew to are all limited by the prefetch.
WithinPrefetch ==
    \A w \in Workers :
      /\ Cardinality(Held(w)) <= Prefetch
      /\ Cardinality(InMemory(w)) <= Prefetch
      /\ Cardinality(batch[w]) <= Prefetch

\* A receiver that is passing on a delivery has one in hand.
HandIsFull ==
    \A w \in Workers : recv[w] \in {"send", "blocked"} => hand[w] # {}

NeverBlocked ==
    Prefetch <= BatchSize => \A w \in Workers : recv[w] # "blocked"

BufferInv == WithinPrefetch /\ HandIsFull /\ NeverBlocked

-----------------------------------------------------------------------------
LEMMA SubsetBound ==
    ASSUME NEW S, NEW T, IsFiniteSet(T), S \subseteq T, NEW n \in Nat,
           Cardinality(T) <= n
    PROVE  Cardinality(S) <= n
  BY FS_Subset, FS_CardinalityType

\* How one step changes what v's session holds and what v's process holds.
\* Only a delivery adds, and it adds to both while the prefetch allows it.
LEMMA HoldingsGrowByDelivery ==
    ASSUME IndInv, IndInv', [Next]_vars, NEW v \in Workers
    PROVE  /\ \/ Held(v)' \subseteq Held(v)
              \/ \E m \in Messages : /\ Held(v)' = Held(v) \cup {m}
                                     /\ Cardinality(Held(v)) < Prefetch
           /\ InMemory(v)' \subseteq InMemory(v) \/ InMemory(v)' \subseteq Held(v)'
           /\ batch'[v] \subseteq batch[v] \/ batch'[v] \subseteq InMemory(v)'
  <1> DEFINE Goal == /\ Held(v)' \subseteq Held(v)
                     /\ InMemory(v)' \subseteq InMemory(v)
                     /\ \/ batch'[v] \subseteq batch[v]
                        \/ batch'[v] \subseteq InMemory(v)'
  <1> USE DEF IndInv, TypeOK, BrokerTypeOK
  <1> USE DEF runVars, recvVars, ctxVars, storeVars, brokerVars, workerVars
  <1>1. ASSUME NEW m \in Messages, Publish(m) PROVE Goal
    BY <1>1, BrokerAssumption
    DEF Publish, Enqueue, Held, InMemory, Unsettled
  <1>2. ASSUME NEW w \in Workers, Start(w) \/ Signal(w) \/ Crash(w) PROVE Goal
    BY <1>2 DEF Start, OpenSession, Signal, Crash, ProcessEnds, Held, InMemory,
       Unsettled, TodoInLoops, DownIsEmpty
  <1>3. ASSUME NEW w \in Workers, Receiver(w) PROVE Goal
    BY <1>3 DEF Receiver, RecvTop, RecvCancelled, RecvClosed, RecvPoison,
      Unusable, RecvEvent, SendDelivery, PassOn, SendFull, SendAborted,
      ReceiverReturns, Held, InMemory, Unsettled
  <1>4. ASSUME NEW w \in Workers, Processor(w) PROVE Goal
    <2> USE DEF Held, InMemory, Unsettled
    <2>1. ASSUME TakeDelivery(w) \/ DrainOne(w) \/ Discard(w) PROVE Goal
      BY <2>1 DEF TakeDelivery, ArmTimer, DrainOne, Discard
    <2>2. ASSUME TimerFires(w) \/ ReceiverEnded(w) \/ CtxDone(w) \/ StopConsumer(w)
                 \/ DrainDone(w)
          PROVE  Goal
      BY <2>2 DEF TimerFires, ReceiverEnded, ChannelFinished, CtxDone,
        StopConsumer, CancelReceive, DrainDone, FinalFlush, TodoInLoops
    <2>3. ASSUME InsertSucceeds(w) \/ InsertFails(w) PROVE Goal
      BY <2>3 DEF InsertSucceeds, InsertFails, AttemptsLeft,
        AfterInsertFailure
    <2>4. ASSUME AckOne(w) \/ AcksDone(w) \/ RejectOne(w) \/ RejectsDone(w) PROVE Goal
      BY <2>4 DEF AckOne, AcksDone, BatchAfterFlush, RejectOne, RejectsDone
    <2>5. ASSUME Return(w) \/ DiscardDone(w) PROVE Goal
      BY <2>5 DEF Return, CancelReceive, DiscardDone, ChannelFinished
    <2>6. ASSUME CloseConsumer(w) PROVE Goal
      BY <2>6, BrokerAssumption
      DEF CloseConsumer, ProcessEnds, SessionEnds, Requeue
    <2> QED BY <1>4, <2>1, <2>2, <2>3, <2>4, <2>5, <2>6 DEF Processor
  <1>5. ASSUME NEW w \in Workers, Deliver(w), UNCHANGED workerVars
        PROVE  /\ \/ Held(v)' \subseteq Held(v)
                  \/ \E m \in Messages : /\ Held(v)' = Held(v) \cup {m}
                                         /\ Cardinality(Held(v)) < Prefetch
               /\ InMemory(v)' \subseteq InMemory(v) \/ InMemory(v)' \subseteq Held(v)'
               /\ batch'[v] \subseteq batch[v]
    <2>1. PICK m \in Messages : loc[m] = "ready" /\ loc' = [loc EXCEPT ![m] = w]
      BY <1>5 DEF Deliver
    <2>2. CASE v = w
      <3>1. Held(v)' = Held(v) \cup {m}
        BY <2>1, <2>2 DEF Held
      <3>2. Cardinality(Held(v)) < Prefetch
        BY <1>5, <2>2 DEF Deliver, QosLimit
      <3>3. CASE v \in connected
        BY <1>5, <2>2, <3>1, <3>2, <3>3 DEF Deliver, MemoryIsOwed
      <3>4. CASE v \notin connected
        BY <1>5, <2>2, <3>1, <3>2, <3>4 DEF Deliver, InMemory, Unsettled
      <3> QED BY <3>3, <3>4
    <2>3. CASE v # w
      BY <1>5, <2>1, <2>3 DEF Deliver, Held, InMemory, Unsettled
    <2> QED BY <2>2, <2>3
  <1>6. ASSUME NEW w \in Workers, SettleAck(w) \/ SettleReject(w),
               UNCHANGED workerVars
        PROVE  Goal
    BY <1>6, BrokerAssumption
    DEF SettleAck, SettleReject, RejectTarget, Held, InMemory, Unsettled
  <1>7. ASSUME NEW w \in Workers, LoseSession(w) \/ NoticeLoss(w),
               UNCHANGED workerVars
        PROVE  Goal
    BY <1>7, BrokerAssumption
    DEF LoseSession, SessionEnds, Requeue, NoticeLoss, Held, InMemory, Unsettled
  <1>8. CASE UNCHANGED vars
    BY <1>8 DEF vars, Held, InMemory, Unsettled
  <1> QED
    BY <1>1, <1>2, <1>3, <1>4, <1>5, <1>6, <1>7, <1>8 DEF Next, BrokerStep

LEMMA NextWithinPrefetch ==
    ASSUME IndInv, IndInv', WithinPrefetch, [Next]_vars
    PROVE  WithinPrefetch'
  <1> SUFFICES ASSUME NEW v \in Workers
               PROVE  /\ Cardinality(Held(v)') <= Prefetch
                      /\ Cardinality(InMemory(v)') <= Prefetch
                      /\ Cardinality(batch'[v]) <= Prefetch
    BY DEF WithinPrefetch
  <1>1. /\ Held(v) \subseteq Messages /\ Held(v)' \subseteq Messages
        /\ InMemory(v) \subseteq Messages /\ InMemory(v)' \subseteq Messages
        /\ batch[v] \subseteq Messages
    BY DEF IndInv, TypeOK, BrokerTypeOK, Valid, Held, InMemory, Unsettled
  <1>2. /\ IsFiniteSet(Held(v)) /\ IsFiniteSet(Held(v)')
        /\ IsFiniteSet(InMemory(v)) /\ IsFiniteSet(InMemory(v)')
        /\ IsFiniteSet(batch[v])
    BY <1>1, BrokerAssumption, FS_Subset
  <1>3. Cardinality(Held(v)) \in Nat /\ Prefetch \in Nat
    BY <1>2, BrokerAssumption, FS_CardinalityType
  <1>4. Cardinality(Held(v)') <= Prefetch
    <2>1. CASE Held(v)' \subseteq Held(v)
      BY <1>2, <1>3, <2>1, SubsetBound DEF WithinPrefetch
    <2>2. ASSUME NEW m \in Messages, Held(v)' = Held(v) \cup {m},
                 Cardinality(Held(v)) < Prefetch
          PROVE  Cardinality(Held(v)') <= Prefetch
      BY <1>2, <1>3, <2>2, FS_AddElement
    <2> QED BY <2>1, <2>2, HoldingsGrowByDelivery
  <1>5. Cardinality(InMemory(v)') <= Prefetch
    BY <1>2, <1>3, <1>4, SubsetBound, HoldingsGrowByDelivery DEF WithinPrefetch
  <1>6. Cardinality(batch'[v]) <= Prefetch
    BY <1>2, <1>3, <1>5, SubsetBound, HoldingsGrowByDelivery DEF WithinPrefetch
  <1> QED BY <1>4, <1>5, <1>6

-----------------------------------------------------------------------------
\* With a delivery in hand, the channel holds less than a prefetch.
LEMMA RoomWhileSending ==
    ASSUME IndInv, WithinPrefetch, HandIsFull, Prefetch <= BatchSize,
           NEW w \in Workers, recv[w] = "send"
    PROVE  Cardinality(chan[w]) < BatchSize
  <1>1. PICK m \in hand[w] : TRUE
    BY DEF HandIsFull
  <1>2. /\ chan[w] \subseteq Messages /\ m \in Messages
        /\ InMemory(w) \subseteq Messages
    BY <1>1 DEF IndInv, TypeOK, BrokerTypeOK, Valid, InMemory, Unsettled
  <1>3. IsFiniteSet(chan[w]) /\ IsFiniteSet(InMemory(w))
    BY <1>2, BrokerAssumption, FS_Subset
  <1>4. m \notin chan[w] /\ chan[w] \cup {m} \subseteq InMemory(w)
    BY <1>1 DEF IndInv, PlacesApart, InMemory
  <1>5. Cardinality(chan[w] \cup {m}) <= Prefetch
    BY <1>3, <1>4, SubsetBound, BrokerAssumption DEF WithinPrefetch
  <1>6. Cardinality(chan[w] \cup {m}) = Cardinality(chan[w]) + 1
    BY <1>3, <1>4, FS_AddElement
  <1>7. Cardinality(chan[w]) \in Nat
    BY <1>3, FS_CardinalityType
  <1> QED BY <1>5, <1>6, <1>7, BrokerAssumption, WorkerAssumption

LEMMA NextReceiver ==
    ASSUME IndInv, BufferInv, [Next]_vars
    PROVE  HandIsFull' /\ NeverBlocked'
  <1> USE DEF IndInv, TypeOK, BrokerTypeOK, HandIsFull, NeverBlocked
  <1> USE DEF runVars, recvVars, ctxVars, storeVars, brokerVars, workerVars
  <1>1. ASSUME NEW w \in Workers, SendFull(w) PROVE HandIsFull' /\ NeverBlocked'
    <2>1. Prefetch <= BatchSize => Cardinality(chan[w]) < BatchSize
      BY <1>1, RoomWhileSending DEF BufferInv, SendFull
    <2>2. Cardinality(chan[w]) \in Nat
      BY BrokerAssumption, FS_Subset, FS_CardinalityType DEF Valid
    <2>3. ~(Prefetch <= BatchSize)
      BY <1>1, <2>1, <2>2, WorkerAssumption DEF SendFull
    <2> QED BY <1>1, <2>3 DEF SendFull, BufferInv
  <1>2. ASSUME NEW w \in Workers, Receiver(w), ~SendFull(w)
        PROVE  HandIsFull' /\ NeverBlocked'
    <2> USE DEF BufferInv, ReceiverReturns
    <2>1. ASSUME RecvTop(w) \/ SendDelivery(w) PROVE HandIsFull' /\ NeverBlocked'
      BY <2>1 DEF RecvTop, SendDelivery, PassOn
    <2>2. ASSUME RecvCancelled(w) \/ RecvClosed(w) \/ SendAborted(w)
          PROVE  HandIsFull' /\ NeverBlocked'
      BY <2>2 DEF RecvCancelled, RecvClosed, SendAborted
    <2>3. ASSUME RecvPoison(w) PROVE HandIsFull' /\ NeverBlocked'
      BY <2>3 DEF RecvPoison, Unusable
    <2>4. ASSUME RecvEvent(w) PROVE HandIsFull' /\ NeverBlocked'
      <3>1. PICK m \in inbox[w] : hand' = [hand EXCEPT ![w] = {m}]
        BY <2>4 DEF RecvEvent
      <3>2. recv' = [recv EXCEPT ![w] = "send"]
        BY <2>4 DEF RecvEvent
      <3> QED BY <3>1, <3>2
    <2> QED BY <1>2, <2>1, <2>2, <2>3, <2>4 DEF Receiver
  <1>3. ASSUME NEW w \in Workers, Start(w) \/ Crash(w) \/ CloseConsumer(w)
        PROVE  HandIsFull' /\ NeverBlocked'
    BY <1>3 DEF BufferInv, Start, Crash, CloseConsumer, ProcessEnds
  <1>4. CASE UNCHANGED recvVars
    BY <1>4 DEF BufferInv
  <1>5. ASSUME NEW w \in Workers, Processor(w), ~CloseConsumer(w)
        PROVE  UNCHANGED recvVars
    BY <1>5 DEF Processor, TakeDelivery, ArmTimer, TimerFires, ReceiverEnded,
      ChannelFinished, CtxDone, StopConsumer, CancelReceive, DrainOne,
      DrainDone, InsertSucceeds, InsertFails, AttemptsLeft, AfterInsertFailure,
      AckOne, AcksDone, BatchAfterFlush, RejectOne, RejectsDone, Return,
      Discard, DiscardDone
  <1> QED
    BY <1>1, <1>2, <1>3, <1>4, <1>5 DEF Next, Signal, BrokerStep, Publish, vars

LEMMA InitBufferInv == Init => BufferInv
  <1>1. ASSUME Init, NEW w \in Workers
        PROVE  Held(w) = {} /\ InMemory(w) = {} /\ batch[w] = {}
    BY <1>1, BrokerAssumption
    DEF Init, BrokerInit, WorkerInit, Held, InMemory, Unsettled
  <1> QED
    BY <1>1, FS_EmptySet, BrokerAssumption
    DEF Init, WorkerInit, BufferInv, WithinPrefetch, HandIsFull, NeverBlocked

LEMMA NextBufferInv == IndInv /\ IndInv' /\ BufferInv /\ [Next]_vars => BufferInv'
  BY NextWithinPrefetch, NextReceiver DEF BufferInv

LEMMA BufferInvariant == Spec => []BufferInv
  BY InductiveInvariant, InitBufferInv, NextBufferInv, PTL DEF Spec

\* For any prefetch up to the channel's capacity, in particular for the code's
\* Qos(BatchSize), the receiver never blocks on the channel and no batch
\* exceeds BatchSize, whatever crashes, losses and shutdowns happen.
THEOREM PrefetchFitsBuffer == Spec => []BufferHasRoom
  <1>1. IndInv /\ BufferInv => BufferHasRoom
    <2> SUFFICES ASSUME IndInv, BufferInv, Prefetch <= BatchSize, NEW w \in Workers
                 PROVE  recv[w] # "blocked" /\ Cardinality(batch[w]) <= BatchSize
      BY DEF BufferHasRoom
    <2>1. Cardinality(batch[w]) \in Nat
      BY BrokerAssumption, FS_Subset, FS_CardinalityType DEF IndInv, TypeOK, Valid
    <2> QED
      BY <2>1, BrokerAssumption, WorkerAssumption
      DEF BufferInv, WithinPrefetch, NeverBlocked
  <1> QED BY <1>1, InductiveInvariant, BufferInvariant, PTL

-----------------------------------------------------------------------------
(***************************************************************************)
(* Shutdown and duplicates: no delivery of a healthy session is forgotten, *)
(* a Run that returns without an error has answered everything, and a row  *)
(* beyond the events carried was stored by a delivery that came again.     *)
(***************************************************************************)

(* No delivery is forgotten. *)

\* The receiver's hand is empty unless it is passing a delivery on.
HandOnlyWhileSending ==
    \A w \in Workers : recv[w] \notin {"send", "blocked"} => hand[w] = {}

\* The broker holds deliveries for open sessions only.
HeldBySession ==
    \A w \in Workers : w \notin sessions => Held(w) = {}

\* The processor saw the receiver's result after it had emptied the channel.
EndedReceiver ==
    \A w \in receiverDone : pc[w] # "down" /\ recv[w] = "done" /\ chan[w] = {}

\* Run is left early, with the receiver still running, only with an error.
FailureIsRecorded ==
    \A w \in Workers :
      \/ pc[w] = "reject"
      \/ pc[w] \in {"return", "discard", "close"} /\ w \notin receiverDone
      => w \in failed

\* The half of NoDeliveryForgotten that MemoryIsOwed does not give.
HeldIsTraced ==
    \A w \in sessions \cap connected :
      pc[w] \notin {"down", "return", "discard", "close"}
      /\ ~(recv[w] = "done" /\ w \in cancelled /\ Prefetch > BatchSize)
      => Held(w) \subseteq InMemory(w) \cup acks[w] \cup rejects[w]

\* What remains of it when Run has ended without an error.
ReturnedIsAnswered ==
    \A w \in sessions \cap connected :
      pc[w] \in {"return", "discard", "close"} /\ w \notin failed
      /\ ~(Prefetch > BatchSize)
      => Held(w) \subseteq inbox[w] \cup acks[w] \cup rejects[w]

ControlInv ==
    HandOnlyWhileSending /\ HeldBySession /\ EndedReceiver /\ FailureIsRecorded

TraceInv == HeldIsTraced /\ ReturnedIsAnswered

LEMMA NextControlInv ==
    ASSUME IndInv, ControlInv, [Next]_vars
    PROVE  ControlInv'
  <1> USE DEF IndInv, TypeOK, BrokerTypeOK, Held
  <1> USE DEF ControlInv, HandOnlyWhileSending, HeldBySession, EndedReceiver,
              FailureIsRecorded
  <1> USE DEF runVars, recvVars, ctxVars, storeVars, brokerVars, workerVars
  <1>1. ASSUME NEW m \in Messages, Publish(m) PROVE ControlInv'
    BY <1>1, BrokerAssumption DEF Publish, Enqueue
  <1>2. ASSUME NEW w \in Workers, Start(w) \/ Signal(w) \/ Crash(w)
        PROVE  ControlInv'
    BY <1>2 DEF Start, OpenSession, Signal, Crash, ProcessEnds, DownIsEmpty
  <1>3. ASSUME NEW w \in Workers, Receiver(w) PROVE ControlInv'
    <2> USE DEF ReceiverReturns
    <2>1. ASSUME RecvTop(w) \/ RecvCancelled(w) \/ RecvClosed(w) PROVE ControlInv'
      BY <2>1 DEF RecvTop, RecvCancelled, RecvClosed
    <2>2. ASSUME RecvPoison(w) PROVE ControlInv'
      BY <2>2 DEF RecvPoison, Unusable
    <2>3. ASSUME RecvEvent(w) PROVE ControlInv'
      BY <2>3 DEF RecvEvent
    <2>4. ASSUME SendDelivery(w) \/ SendFull(w) \/ SendAborted(w) PROVE ControlInv'
      BY <2>4 DEF SendDelivery, PassOn, SendFull, SendAborted
    <2> QED BY <1>3, <2>1, <2>2, <2>3, <2>4 DEF Receiver
  <1>4. ASSUME NEW w \in Workers, Processor(w) PROVE ControlInv'
    <2>1. ASSUME TakeDelivery(w) \/ DrainOne(w) \/ Discard(w) PROVE ControlInv'
      BY <2>1 DEF TakeDelivery, ArmTimer, DrainOne, Discard
    <2>2. ASSUME TimerFires(w) \/ ReceiverEnded(w) \/ CtxDone(w) PROVE ControlInv'
      BY <2>2 DEF TimerFires, ReceiverEnded, ChannelFinished, CtxDone
    <2>3. ASSUME StopConsumer(w) \/ DrainDone(w) PROVE ControlInv'
      BY <2>3 DEF StopConsumer, CancelReceive, DrainDone, ChannelFinished, FinalFlush
    <2>4. ASSUME InsertSucceeds(w) \/ InsertFails(w) PROVE ControlInv'
      BY <2>4 DEF InsertSucceeds, InsertFails, AttemptsLeft, AfterInsertFailure
    <2>5. ASSUME AckOne(w) \/ AcksDone(w) \/ RejectOne(w) \/ RejectsDone(w)
          PROVE  ControlInv'
      BY <2>5 DEF AckOne, AcksDone, BatchAfterFlush, RejectOne, RejectsDone
    <2>6. ASSUME Return(w) \/ DiscardDone(w) PROVE ControlInv'
      BY <2>6 DEF Return, CancelReceive, DiscardDone, ChannelFinished
    <2>7. ASSUME CloseConsumer(w) PROVE ControlInv'
      BY <2>7, BrokerAssumption
      DEF CloseConsumer, ProcessEnds, SessionEnds, Requeue
    <2> QED BY <1>4, <2>1, <2>2, <2>3, <2>4, <2>5, <2>6, <2>7 DEF Processor
  <1>5. ASSUME NEW w \in Workers, BrokerStep(w) PROVE ControlInv'
    <2>1. ASSUME Deliver(w), UNCHANGED workerVars PROVE ControlInv'
      BY <2>1, BrokerAssumption DEF Deliver
    <2>2. ASSUME SettleAck(w) \/ SettleReject(w), UNCHANGED workerVars
          PROVE  ControlInv'
      BY <2>2, BrokerAssumption DEF SettleAck, SettleReject, RejectTarget
    <2>3. ASSUME LoseSession(w) \/ NoticeLoss(w), UNCHANGED workerVars
          PROVE  ControlInv'
      BY <2>3, BrokerAssumption DEF LoseSession, NoticeLoss, SessionEnds, Requeue
    <2> QED BY <1>5, <2>1, <2>2, <2>3 DEF BrokerStep
  <1>6. CASE UNCHANGED vars
    BY <1>6 DEF vars
  <1> QED BY <1>1, <1>2, <1>3, <1>4, <1>5, <1>6 DEF Next

LEMMA NextTraceInv ==
    ASSUME IndInv, IndInv', NeverBlocked, ControlInv, TraceInv, [Next]_vars
    PROVE  TraceInv'
  <1> USE BrokerAssumption, WorkerAssumption
  <1> USE DEF IndInv, TypeOK, BrokerTypeOK, Held, InMemory, Unsettled
  <1> USE DEF TraceInv, HeldIsTraced, ReturnedIsAnswered
  <1> USE DEF runVars, recvVars, ctxVars, storeVars, brokerVars, workerVars
  <1>1. ASSUME NEW m \in Messages, Publish(m) PROVE TraceInv'
    BY <1>1 DEF Publish, Enqueue
  <1>2. ASSUME NEW w \in Workers, Start(w) PROVE TraceInv'
    BY <1>2 DEF Start, OpenSession, ControlInv, HeldBySession
  <1>3. ASSUME NEW w \in Workers, Signal(w) \/ Crash(w) PROVE TraceInv'
    BY <1>3 DEF Signal, Crash, ProcessEnds
  <1>4. ASSUME NEW w \in Workers, Receiver(w) PROVE TraceInv'
    <2> USE DEF ReceiverReturns, ControlInv, HandOnlyWhileSending
    <2>1. ASSUME RecvTop(w) \/ SendFull(w) PROVE TraceInv'
      BY <2>1 DEF RecvTop, SendFull
    <2>2. ASSUME RecvCancelled(w) \/ RecvClosed(w) PROVE TraceInv'
      BY <2>2 DEF RecvCancelled, RecvClosed
    <2>3. ASSUME RecvPoison(w) PROVE TraceInv'
      BY <2>3 DEF RecvPoison, Unusable, SendReject
    <2>4. ASSUME RecvEvent(w) PROVE TraceInv'
      BY <2>4 DEF RecvEvent, EndedReceiver, FailureIsRecorded
    <2>5. ASSUME SendDelivery(w) PROVE TraceInv'
      BY <2>5 DEF SendDelivery, PassOn
    <2>6. ASSUME SendAborted(w) PROVE TraceInv'
      BY <2>6 DEF SendAborted, NeverBlocked
    <2> QED BY <1>4, <2>1, <2>2, <2>3, <2>4, <2>5, <2>6 DEF Receiver
  <1>5. ASSUME NEW w \in Workers, Processor(w) PROVE TraceInv'
    <2> USE DEF ControlInv, EndedReceiver, HandOnlyWhileSending, FailureIsRecorded
    <2>1. ASSUME TakeDelivery(w) PROVE TraceInv'
      BY <2>1 DEF TakeDelivery, ArmTimer
    <2>2. ASSUME DrainOne(w) \/ Discard(w) PROVE TraceInv'
      BY <2>2 DEF DrainOne, Discard
    <2>3. ASSUME TimerFires(w) \/ ReceiverEnded(w) \/ CtxDone(w) PROVE TraceInv'
      <3>1. CASE TimerFires(w)
        BY <3>1 DEF TimerFires
      <3>2. CASE ReceiverEnded(w)
        BY <3>2 DEF ReceiverEnded, ChannelFinished
      <3>3. CASE CtxDone(w)
        BY <3>3 DEF CtxDone
      <3> QED BY <2>3, <3>1, <3>2, <3>3
    <2>4. ASSUME StopConsumer(w) PROVE TraceInv'
      BY <2>4 DEF StopConsumer, CancelReceive, FinalFlush
    <2>5. ASSUME DrainDone(w) PROVE TraceInv'
      BY <2>5 DEF DrainDone, ChannelFinished, FinalFlush
    <2>6. ASSUME InsertSucceeds(w) \/ InsertFails(w) PROVE TraceInv'
      BY <2>6 DEF InsertSucceeds, InsertFails, AttemptsLeft, AfterInsertFailure
    <2>7. ASSUME AckOne(w) \/ RejectOne(w) PROVE TraceInv'
      <3>1. CASE AckOne(w)
        BY <3>1 DEF AckOne, SendAck
      <3>2. CASE RejectOne(w)
        BY <3>2 DEF RejectOne, SendReject
      <3> QED BY <2>7, <3>1, <3>2
    <2>8. ASSUME AcksDone(w) PROVE TraceInv'
      BY <2>8 DEF AcksDone, BatchAfterFlush
    <2>9. ASSUME RejectsDone(w) PROVE TraceInv'
      BY <2>9 DEF RejectsDone
    <2>10. ASSUME Return(w) \/ DiscardDone(w) PROVE TraceInv'
      BY <2>10 DEF Return, CancelReceive, DiscardDone, ChannelFinished
    <2>11. ASSUME CloseConsumer(w) PROVE TraceInv'
      <3>1. HeldIsTraced'
        BY <2>11 DEF CloseConsumer, ProcessEnds, SessionEnds, Requeue
      <3>2. ReturnedIsAnswered'
        BY <2>11 DEF CloseConsumer, ProcessEnds, SessionEnds, Requeue
      <3> QED BY <3>1, <3>2
    <2> QED
      BY <1>5, <2>1, <2>2, <2>3, <2>4, <2>5, <2>6, <2>7, <2>8, <2>9, <2>10, <2>11
      DEF Processor
  <1>6. ASSUME NEW w \in Workers, BrokerStep(w) PROVE TraceInv'
    <2>1. ASSUME Deliver(w), UNCHANGED workerVars PROVE TraceInv'
      BY <2>1 DEF Deliver
    <2>2. ASSUME SettleAck(w), UNCHANGED workerVars PROVE TraceInv'
      BY <2>2 DEF SettleAck
    <2>3. ASSUME SettleReject(w), UNCHANGED workerVars PROVE TraceInv'
      BY <2>3 DEF SettleReject, RejectTarget
    <2>4. ASSUME LoseSession(w) \/ NoticeLoss(w), UNCHANGED workerVars PROVE TraceInv'
      BY <2>4 DEF LoseSession, NoticeLoss, SessionEnds, Requeue
    <2> QED BY <1>6, <2>1, <2>2, <2>3, <2>4 DEF BrokerStep
  <1>7. CASE UNCHANGED vars
    BY <1>7 DEF vars
  <1> QED BY <1>1, <1>2, <1>3, <1>4, <1>5, <1>6, <1>7 DEF Next

-----------------------------------------------------------------------------
(* How often an event is stored. *)

\* Deliveries of w that no insert has reported as stored.
Uninserted(w) ==
    inbox[w] \cup hand[w] \cup chan[w]
    \cup (IF pc[w] \in {"select", "stop", "drain", "insert"} THEN batch[w] ELSE {})

\* A message that was never requeued has one holder, and no answer to it is
\* under way before it is inserted.
UninsertedIsOwned ==
    \A w \in Workers : \A m \in Uninserted(w) :
      m \in redelivered \/ (loc[m] = w /\ m \notin acks[w] \cup rejects[w])

Carriers(e) == {m \in Valid : EventOf[m] = e}

Explained(e) == Carriers(e) \cap (redelivered \cup ambiguous) # {}

\* Publications that can still be inserted for the first time.
Fresh == {m \in Messages : loc[m] \in {"unpublished", "ready"}
                           \/ \E w \in Workers : m \in Uninserted(w)}

\* Each row of an event without redelivery or failed insert has used up one of
\* its publications.
RowsAreCarried ==
    \A e \in Events : Explained(e) \/ rows[e] <= Cardinality(Carriers(e) \ Fresh)

LEMMA NextUninsertedIsOwned ==
    ASSUME IndInv, UninsertedIsOwned, [Next]_vars
    PROVE  UninsertedIsOwned'
  <1> USE BrokerAssumption
  <1> USE DEF IndInv, TypeOK, BrokerTypeOK, UninsertedIsOwned, Uninserted
  <1> USE DEF runVars, recvVars, ctxVars, storeVars, brokerVars, workerVars
  <1>1. ASSUME NEW m \in Messages, Publish(m) PROVE UninsertedIsOwned'
    BY <1>1 DEF Publish, Enqueue
  <1>2. ASSUME NEW w \in Workers, Start(w) \/ Signal(w) \/ Crash(w)
        PROVE  UninsertedIsOwned'
    BY <1>2 DEF Start, OpenSession, Signal, Crash, ProcessEnds, DownIsEmpty
  <1>3. ASSUME NEW w \in Workers, Receiver(w) PROVE UninsertedIsOwned'
    <2> USE DEF ReceiverReturns, PlacesApart, Unsettled
    <2>1. ASSUME RecvTop(w) \/ RecvCancelled(w) \/ RecvClosed(w) PROVE UninsertedIsOwned'
      BY <2>1 DEF RecvTop, RecvCancelled, RecvClosed
    <2>2. ASSUME RecvPoison(w) PROVE UninsertedIsOwned'
      BY <2>2 DEF RecvPoison, Unusable, SendReject
    <2>3. ASSUME RecvEvent(w) PROVE UninsertedIsOwned'
      BY <2>3 DEF RecvEvent
    <2>4. ASSUME SendDelivery(w) \/ SendFull(w) \/ SendAborted(w)
          PROVE  UninsertedIsOwned'
      BY <2>4 DEF SendDelivery, PassOn, SendFull, SendAborted
    <2> QED BY <1>3, <2>1, <2>2, <2>3, <2>4 DEF Receiver
  <1>4. ASSUME NEW w \in Workers, Processor(w) PROVE UninsertedIsOwned'
    <2> USE DEF PlacesApart, Unsettled
    <2>1. ASSUME TakeDelivery(w) PROVE UninsertedIsOwned'
      BY <2>1 DEF TakeDelivery, ArmTimer
    <2>2. ASSUME DrainOne(w) \/ Discard(w) PROVE UninsertedIsOwned'
      BY <2>2 DEF DrainOne, Discard
    <2>3. ASSUME TimerFires(w) \/ ReceiverEnded(w) \/ CtxDone(w) PROVE UninsertedIsOwned'
      BY <2>3 DEF TimerFires, ReceiverEnded, ChannelFinished, CtxDone
    <2>4. ASSUME StopConsumer(w) \/ DrainDone(w) PROVE UninsertedIsOwned'
      BY <2>4 DEF StopConsumer, CancelReceive, DrainDone, ChannelFinished, FinalFlush
    <2>5. ASSUME InsertSucceeds(w) \/ InsertFails(w) PROVE UninsertedIsOwned'
      BY <2>5 DEF InsertSucceeds, InsertFails, AttemptsLeft, AfterInsertFailure
    <2>6. ASSUME AckOne(w) \/ RejectOne(w) PROVE UninsertedIsOwned'
      BY <2>6 DEF AckOne, RejectOne, SendAck, SendReject
    <2>7. ASSUME AcksDone(w) \/ RejectsDone(w) PROVE UninsertedIsOwned'
      BY <2>7 DEF AcksDone, BatchAfterFlush, RejectsDone
    <2>8. ASSUME Return(w) \/ DiscardDone(w) PROVE UninsertedIsOwned'
      BY <2>8 DEF Return, CancelReceive, DiscardDone, ChannelFinished
    <2>9. ASSUME CloseConsumer(w) PROVE UninsertedIsOwned'
      BY <2>9 DEF CloseConsumer, ProcessEnds, SessionEnds, Requeue, Held, Valid
    <2> QED
      BY <1>4, <2>1, <2>2, <2>3, <2>4, <2>5, <2>6, <2>7, <2>8, <2>9 DEF Processor
  <1>5. ASSUME NEW w \in Workers, BrokerStep(w) PROVE UninsertedIsOwned'
    <2> USE DEF SettlementsOutstanding, Held, Valid
    <2>1. ASSUME Deliver(w), UNCHANGED workerVars PROVE UninsertedIsOwned'
      BY <2>1 DEF Deliver
    <2>2. ASSUME SettleAck(w), UNCHANGED workerVars PROVE UninsertedIsOwned'
      BY <2>2 DEF SettleAck
    <2>3. ASSUME SettleReject(w), UNCHANGED workerVars PROVE UninsertedIsOwned'
      BY <2>3 DEF SettleReject, RejectTarget
    <2>4. ASSUME LoseSession(w) \/ NoticeLoss(w), UNCHANGED workerVars
          PROVE  UninsertedIsOwned'
      BY <2>4 DEF LoseSession, NoticeLoss, SessionEnds, Requeue
    <2> QED BY <1>5, <2>1, <2>2, <2>3, <2>4 DEF BrokerStep
  <1>6. CASE UNCHANGED vars
    BY <1>6 DEF vars
  <1> QED BY <1>1, <1>2, <1>3, <1>4, <1>5, <1>6 DEF Next

\* One step makes no message fresh that was not, except by a requeue, and adds
\* a row only by an insert.
LEMMA FreshShrinks ==
    ASSUME IndInv, [Next]_vars
    PROVE  /\ Fresh' \subseteq Fresh \cup redelivered'
           /\ redelivered \subseteq redelivered' /\ ambiguous \subseteq ambiguous'
           /\ rows' # rows => \E w \in Workers : InsertSucceeds(w) \/ InsertFails(w)
  <1> DEFINE Goal == /\ Fresh' \subseteq Fresh \cup redelivered'
                     /\ redelivered \subseteq redelivered'
                     /\ ambiguous \subseteq ambiguous' /\ UNCHANGED rows
  <1> USE BrokerAssumption
  <1> USE DEF IndInv, TypeOK, BrokerTypeOK, Fresh, Uninserted
  <1> USE DEF runVars, recvVars, ctxVars, storeVars, brokerVars, workerVars
  <1>1. ASSUME NEW m \in Messages, Publish(m) PROVE Goal
    BY <1>1 DEF Publish, Enqueue
  <1>2. ASSUME NEW w \in Workers, Start(w) \/ Signal(w) \/ Crash(w) PROVE Goal
    BY <1>2 DEF Start, OpenSession, Signal, Crash, ProcessEnds, DownIsEmpty
  <1>3. ASSUME NEW w \in Workers, Receiver(w) PROVE Goal
    <2> USE DEF ReceiverReturns
    <2>1. ASSUME RecvTop(w) \/ RecvCancelled(w) \/ RecvClosed(w) PROVE Goal
      BY <2>1 DEF RecvTop, RecvCancelled, RecvClosed
    <2>2. ASSUME RecvPoison(w) PROVE Goal
      BY <2>2 DEF RecvPoison, Unusable, SendReject
    <2>3. ASSUME RecvEvent(w) PROVE Goal
      BY <2>3 DEF RecvEvent
    <2>4. ASSUME SendDelivery(w) \/ SendFull(w) \/ SendAborted(w) PROVE Goal
      BY <2>4 DEF SendDelivery, PassOn, SendFull, SendAborted
    <2> QED BY <1>3, <2>1, <2>2, <2>3, <2>4 DEF Receiver
  <1>4. ASSUME NEW w \in Workers, Processor(w), ~InsertSucceeds(w), ~InsertFails(w)
        PROVE  Goal
    <2>1. ASSUME TakeDelivery(w) PROVE Goal
      BY <2>1 DEF TakeDelivery, ArmTimer
    <2>2. ASSUME DrainOne(w) \/ Discard(w) PROVE Goal
      BY <2>2 DEF DrainOne, Discard
    <2>3. ASSUME TimerFires(w) \/ ReceiverEnded(w) \/ CtxDone(w) PROVE Goal
      BY <2>3 DEF TimerFires, ReceiverEnded, ChannelFinished, CtxDone
    <2>4. ASSUME StopConsumer(w) \/ DrainDone(w) PROVE Goal
      BY <2>4 DEF StopConsumer, CancelReceive, DrainDone, ChannelFinished, FinalFlush
    <2>5. ASSUME AckOne(w) \/ RejectOne(w) PROVE Goal
      BY <2>5 DEF AckOne, RejectOne, SendAck, SendReject
    <2>6. ASSUME AcksDone(w) \/ RejectsDone(w) PROVE Goal
      BY <2>6 DEF AcksDone, BatchAfterFlush, RejectsDone
    <2>7. ASSUME Return(w) \/ DiscardDone(w) PROVE Goal
      BY <2>7 DEF Return, CancelReceive, DiscardDone, ChannelFinished
    <2>8. ASSUME CloseConsumer(w) PROVE Goal
      BY <2>8 DEF CloseConsumer, ProcessEnds, SessionEnds, Requeue, Held
    <2> QED
      BY <1>4, <2>1, <2>2, <2>3, <2>4, <2>5, <2>6, <2>7, <2>8 DEF Processor
  <1>5. ASSUME NEW w \in Workers, BrokerStep(w) PROVE Goal
    <2>1. ASSUME Deliver(w), UNCHANGED workerVars PROVE Goal
      BY <2>1 DEF Deliver
    <2>2. ASSUME SettleAck(w) \/ SettleReject(w), UNCHANGED workerVars PROVE Goal
      BY <2>2 DEF SettleAck, SettleReject, RejectTarget
    <2>3. ASSUME LoseSession(w) \/ NoticeLoss(w), UNCHANGED workerVars PROVE Goal
      BY <2>3 DEF LoseSession, NoticeLoss, SessionEnds, Requeue, Held
    <2> QED BY <1>5, <2>1, <2>2, <2>3 DEF BrokerStep
  <1>6. ASSUME NEW w \in Workers, InsertSucceeds(w) \/ InsertFails(w)
        PROVE  /\ Fresh' \subseteq Fresh \cup redelivered'
               /\ redelivered \subseteq redelivered' /\ ambiguous \subseteq ambiguous'
    BY <1>6 DEF InsertSucceeds, InsertFails, AttemptsLeft, AfterInsertFailure
  <1>7. CASE UNCHANGED vars
    BY <1>7 DEF vars
  <1> QED BY <1>1, <1>2, <1>3, <1>4, <1>5, <1>6, <1>7 DEF Next, Processor

\* A successful insert uses up a message of each event it stores.
LEMMA InsertUsesFresh ==
    ASSUME IndInv, UninsertedIsOwned, NEW w \in Workers, InsertSucceeds(w),
           NEW m \in batch[w], m \notin redelivered
    PROVE  m \in Fresh /\ m \notin Fresh'
  <1> USE DEF IndInv, TypeOK, BrokerTypeOK, Valid, UninsertedIsOwned, Uninserted
  <1>1. pc[w] = "insert" /\ m \in Uninserted(w) /\ m \in Messages
    BY DEF InsertSucceeds
  <1>2. loc[m] = w
    BY <1>1
  <1>3. ASSUME NEW v \in Workers, v # w PROVE m \notin Uninserted(v)
    BY <1>2, <1>3
  <1>4. m \notin inbox[w] \cup hand[w] \cup chan[w]
    BY <1>1 DEF PlacesApart, Unsettled
  <1>5. /\ UNCHANGED <<inbox, hand, chan, batch, loc>>
        /\ pc' = [pc EXCEPT ![w] = "ack"]
    BY DEF InsertSucceeds, brokerVars, recvVars
  <1>6. ASSUME NEW v \in Workers PROVE m \notin Uninserted(v)'
    BY <1>3, <1>4, <1>5
  <1>7. loc'[m] \notin {"unpublished", "ready"}
    BY <1>2, <1>5, BrokerAssumption
  <1> QED
    BY <1>1, <1>6, <1>7 DEF Fresh

LEMMA NextRowsAreCarried ==
    ASSUME IndInv, UninsertedIsOwned, RowsAreCarried, [Next]_vars
    PROVE  RowsAreCarried'
  <1> SUFFICES ASSUME NEW e \in Events, ~Explained(e)'
               PROVE  rows'[e] <= Cardinality(Carriers(e) \ Fresh')
    BY DEF RowsAreCarried, Carriers
  <1> DEFINE U == Carriers(e) \ Fresh
             V == Carriers(e) \ Fresh'
  <1>1. ~Explained(e) /\ Carriers(e) \cap redelivered' = {}
        /\ Carriers(e) \cap redelivered = {} /\ Carriers(e) \cap ambiguous' = {}
    BY FreshShrinks DEF Explained, Carriers
  <1>2. U \subseteq V
    BY <1>1, FreshShrinks
  <1>3. /\ IsFiniteSet(U) /\ IsFiniteSet(V)
        /\ Cardinality(U) \in Nat /\ Cardinality(V) \in Nat
    BY BrokerAssumption, FS_Subset, FS_CardinalityType DEF Carriers, Valid
  <1>4. rows[e] \in Nat /\ rows[e] <= Cardinality(U)
    BY <1>1 DEF RowsAreCarried, IndInv, TypeOK
  <1>5. Cardinality(U) <= Cardinality(V)
    BY <1>2, <1>3, FS_Subset
  <1> HIDE DEF U, V
  <1>6. CASE rows'[e] = rows[e]
    BY <1>3, <1>4, <1>5, <1>6 DEF V
  <1>7. CASE rows'[e] # rows[e]
    <2>1. PICK w \in Workers : InsertSucceeds(w) \/ InsertFails(w)
      BY <1>7, FreshShrinks
    <2>2. batch[w] \subseteq Valid
      BY DEF IndInv, TypeOK
    <2>3. CASE InsertFails(w)
      <3>1. e \in EventsOf(batch[w])
        BY <1>7, <2>3 DEF InsertFails, Commit
      <3>2. PICK m \in batch[w] : EventOf[m] = e
        BY <3>1 DEF EventsOf
      <3>3. m \in ambiguous'
        BY <2>3 DEF InsertFails
      <3> QED
        BY <1>1, <2>2, <3>2, <3>3 DEF Carriers
    <2>4. CASE InsertSucceeds(w)
      <3>1. e \in EventsOf(batch[w]) /\ rows'[e] = rows[e] + 1
        BY <1>7, <2>4 DEF InsertSucceeds, Commit
      <3>2. PICK m \in batch[w] : EventOf[m] = e
        BY <3>1 DEF EventsOf
      <3>3. m \in Carriers(e) /\ m \notin redelivered
        BY <1>1, <2>2, <3>2 DEF Carriers
      <3>4. m \notin U /\ U \cup {m} \subseteq V
        BY <1>2, <2>4, <3>3, InsertUsesFresh DEF U, V
      <3>5. Cardinality(U \cup {m}) = Cardinality(U) + 1
        BY <1>3, <3>4, FS_AddElement
      <3>6. Cardinality(U) + 1 <= Cardinality(V)
        BY <1>3, <3>4, <3>5, FS_Subset
      <3> QED
        BY <1>3, <1>4, <3>1, <3>6 DEF V
    <2> QED
      BY <2>1, <2>3, <2>4
  <1> QED
    BY <1>6, <1>7

-----------------------------------------------------------------------------
LEMMA TraceInvariant == Spec => [](IndInv /\ BufferInv /\ ControlInv /\ TraceInv)
  <1>1. Init => ControlInv /\ TraceInv
    BY BrokerAssumption
    DEF Init, BrokerInit, WorkerInit, ControlInv, HandOnlyWhileSending, HeldBySession,
        EndedReceiver, FailureIsRecorded, TraceInv, HeldIsTraced, ReturnedIsAnswered,
        Held
  <1>2. IndInv /\ BufferInv /\ IndInv' /\ ControlInv /\ TraceInv /\ [Next]_vars
        => ControlInv' /\ TraceInv'
    BY NextControlInv, NextTraceInv DEF BufferInv
  <1> QED
    BY <1>1, <1>2, InductiveInvariant, BufferInvariant, PTL DEF Spec

\* For any number of Workers and any prefetch: while Run works on a live
\* session, each unacknowledged delivery is in the process or its answer is
\* under way, so no path of Receive, receive, Run or flush leaks one.
THEOREM DeliveriesAccounted == Spec => []NoDeliveryForgotten
  <1>1. IndInv /\ TraceInv => NoDeliveryForgotten
    BY DEF IndInv, TraceInv, HeldIsTraced, NoDeliveryForgotten, MemoryIsOwed,
       SettlementsOutstanding, TypeOK, BrokerTypeOK
  <1> QED
    BY <1>1, TraceInvariant, PTL

\* For any number of Workers, with the prefetch within the channel's capacity:
\* a Run that returns without an error on a live session has answered all that
\* its receiver took.
THEOREM GracefulShutdown == Spec => []GracefulShutdownDrains
  <1>1. IndInv /\ TraceInv => GracefulShutdownDrains
    <2> SUFFICES ASSUME IndInv, TraceInv, Prefetch <= BatchSize,
                        NEW w \in sessions \cap connected,
                        pc[w] = "close", w \notin failed
                 PROVE  Held(w) = inbox[w] \cup acks[w] \cup rejects[w]
      BY DEF GracefulShutdownDrains
    <2>1. ~(Prefetch > BatchSize)
      BY BrokerAssumption, WorkerAssumption
    <2>2. Held(w) \subseteq inbox[w] \cup acks[w] \cup rejects[w]
      BY <2>1 DEF TraceInv, ReturnedIsAnswered
    <2>3. w \in Workers
      BY DEF IndInv, TypeOK, BrokerTypeOK
    <2>4. inbox[w] \cup acks[w] \cup rejects[w] \subseteq Held(w)
      BY <2>3 DEF IndInv, MemoryIsOwed, InMemory, SettlementsOutstanding
    <2> QED
      BY <2>2, <2>4
  <1> QED
    BY <1>1, TraceInvariant, PTL

\* For any number of Workers, messages and events: a surplus row of an event
\* is explained by a redelivery or by an insert that reported failure; the
\* Worker itself never inserts the same delivery twice.
THEOREM DuplicatesAreExplained == Spec => []DuplicatesExplained
  <1>1. Init => UninsertedIsOwned /\ RowsAreCarried
    <2>1. Init => UninsertedIsOwned
      BY DEF Init, BrokerInit, WorkerInit, UninsertedIsOwned, Uninserted
    <2>2. ASSUME Init, NEW e \in Events PROVE rows[e] <= Cardinality(Carriers(e) \ Fresh)
      <3>1. rows[e] = 0
        BY <2>2 DEF Init, WorkerInit
      <3>2. Cardinality(Carriers(e) \ Fresh) \in Nat
        BY BrokerAssumption, FS_Subset, FS_CardinalityType DEF Carriers, Valid
      <3> QED
        BY <3>1, <3>2
    <2> QED
      BY <2>1, <2>2 DEF RowsAreCarried
  <1>2. IndInv /\ UninsertedIsOwned /\ RowsAreCarried /\ [Next]_vars
        => UninsertedIsOwned' /\ RowsAreCarried'
    BY NextUninsertedIsOwned, NextRowsAreCarried
  <1>3. IndInv /\ RowsAreCarried => DuplicatesExplained
    <2> SUFFICES ASSUME IndInv, RowsAreCarried, NEW e \in Events, ~Explained(e)
                 PROVE  ~(rows[e] > Cardinality(Carriers(e)))
      BY DEF DuplicatesExplained, Explained, Carriers
    <2>1. IsFiniteSet(Carriers(e)) /\ Cardinality(Carriers(e)) \in Nat
      BY BrokerAssumption, FS_Subset, FS_CardinalityType DEF Carriers, Valid
    <2>2. /\ Cardinality(Carriers(e) \ Fresh) <= Cardinality(Carriers(e))
          /\ Cardinality(Carriers(e) \ Fresh) \in Nat
      BY <2>1, FS_Subset, FS_CardinalityType
    <2>3. rows[e] \in Nat /\ rows[e] <= Cardinality(Carriers(e) \ Fresh)
      BY DEF RowsAreCarried, IndInv, TypeOK
    <2> QED
      BY <2>1, <2>2, <2>3
  <1> QED
    BY <1>1, <1>2, <1>3, InductiveInvariant, PTL DEF Spec

-----------------------------------------------------------------------------
(***************************************************************************)
(* Worker implements EventDelivery under the mapping Status and Stored.    *)
(***************************************************************************)

\* What a process holds was published: a delivery comes from the queue, and
\* no message returns to the unpublished state.
DeliveriesWerePublished ==
    \A w \in Workers :
      \A m \in inbox[w] \cup hand[w] \cup chan[w] \cup batch[w] :
        loc[m] # "unpublished"

LEMMA NextDeliveriesWerePublished ==
    ASSUME TypeOK, DeliveriesWerePublished, [Next]_vars
    PROVE  DeliveriesWerePublished'
  <1> USE DEF TypeOK, BrokerTypeOK, DeliveriesWerePublished
  <1> USE DEF runVars, recvVars, ctxVars, storeVars, brokerVars, workerVars
  <1>1. ASSUME NEW m \in Messages, Publish(m) PROVE DeliveriesWerePublished'
    BY <1>1 DEF Publish, Enqueue
  <1>2. ASSUME NEW w \in Workers, Start(w) \/ Signal(w) \/ Crash(w)
        PROVE  DeliveriesWerePublished'
    BY <1>2 DEF Start, OpenSession, Signal, Crash, ProcessEnds
  <1>3. ASSUME NEW w \in Workers, Receiver(w) PROVE DeliveriesWerePublished'
    BY <1>3 DEF Receiver, RecvTop, RecvCancelled, RecvClosed, RecvPoison,
      Unusable, RecvEvent, SendDelivery, PassOn, SendFull, SendAborted,
      ReceiverReturns
  <1>4. ASSUME NEW w \in Workers, Processor(w) PROVE DeliveriesWerePublished'
    <2>1. ASSUME TakeDelivery(w) PROVE DeliveriesWerePublished'
      BY <2>1 DEF TakeDelivery, ArmTimer
    <2>2. ASSUME DrainOne(w) \/ Discard(w) PROVE DeliveriesWerePublished'
      BY <2>2 DEF DrainOne, Discard
    <2>3. ASSUME AcksDone(w) PROVE DeliveriesWerePublished'
      BY <2>3 DEF AcksDone, BatchAfterFlush
    <2>4. ASSUME CloseConsumer(w) PROVE DeliveriesWerePublished'
      BY <2>4 DEF CloseConsumer, ProcessEnds, SessionEnds, Requeue, Valid
    <2>5. CASE UNCHANGED <<inbox, hand, chan, batch, loc>>
      BY <2>5
    <2> QED
      BY <1>4, <2>1, <2>2, <2>3, <2>4, <2>5
      DEF Processor, TimerFires, ReceiverEnded, ChannelFinished, CtxDone,
        StopConsumer, CancelReceive, DrainDone, InsertSucceeds, InsertFails,
        AttemptsLeft, AfterInsertFailure, AckOne, RejectOne, RejectsDone,
        Return, DiscardDone
  <1>5. ASSUME NEW w \in Workers, BrokerStep(w) PROVE DeliveriesWerePublished'
    <2>1. ASSUME Deliver(w), UNCHANGED workerVars PROVE DeliveriesWerePublished'
      BY <2>1, BrokerAssumption DEF Deliver, Valid
    <2>2. ASSUME SettleAck(w) \/ SettleReject(w), UNCHANGED workerVars
          PROVE  DeliveriesWerePublished'
      BY <2>2 DEF SettleAck, SettleReject, RejectTarget, Valid
    <2>3. ASSUME LoseSession(w), UNCHANGED workerVars
          PROVE  DeliveriesWerePublished'
      BY <2>3 DEF LoseSession, SessionEnds, Requeue, Valid
    <2>4. ASSUME NoticeLoss(w), UNCHANGED workerVars
          PROVE  DeliveriesWerePublished'
      BY <2>4 DEF NoticeLoss
    <2> QED BY <1>5, <2>1, <2>2, <2>3, <2>4 DEF BrokerStep
  <1>6. CASE UNCHANGED vars
    BY <1>6 DEF vars
  <1> QED BY <1>1, <1>2, <1>3, <1>4, <1>5, <1>6 DEF Next

-----------------------------------------------------------------------------
\* An insert is the abstract Store of the batch entries it committed.
LEMMA CommitRefinesStore ==
    ASSUME TypeOK, DeliveriesWerePublished, NEW w \in Workers,
           NEW S \in SUBSET EventsOf(batch[w]), Commit(S), UNCHANGED loc
    PROVE  Delivery!Store
  <1> DEFINE T == {m \in batch[w] : EventOf[m] \in S}
  <1>1. Stored' = Stored \cup S
    BY WorkerAssumption DEF Commit, Stored, TypeOK, EventsOf, Valid
  <1>2. S = {EventOf[m] : m \in T}
    BY DEF EventsOf
  <1>3. T \in SUBSET {m \in Messages \ PoisonMessages : Status[m] # "unpublished"}
    BY DEF TypeOK, Valid, DeliveriesWerePublished, Status
  <1>4. Status' = Status
    BY DEF Status
  <1> QED BY <1>1, <1>2, <1>3, <1>4 DEF Delivery!Store

\* Every step of the Workers and the broker is an abstract step or invisible.
LEMMA StepRefines ==
    ASSUME IndInv, DeliveriesWerePublished, [Next]_vars
    PROVE  [Delivery!Next]_<<Status, Stored>>
  <1> USE DEF IndInv, TypeOK, BrokerTypeOK
  <1> USE DEF runVars, recvVars, ctxVars, storeVars, brokerVars, workerVars
  <1>1. ASSUME NEW m \in Messages, Publish(m) PROVE Delivery!Publish(m)
    BY <1>1 DEF Publish, Enqueue, Delivery!Publish, Status, Stored
  <1>2. ASSUME NEW w \in Workers, NEW S \in SUBSET EventsOf(batch[w]),
               Commit(S), UNCHANGED loc
        PROVE  Delivery!Next
    BY <1>2, CommitRefinesStore DEF Delivery!Next
  <1>3. ASSUME NEW w \in Workers, SettleAck(w), UNCHANGED workerVars
        PROVE  \E m \in Messages : Delivery!Acknowledge(m)
    <2>1. PICK m \in acks[w] : loc' = [loc EXCEPT ![m] = "acked"]
      BY <1>3 DEF SettleAck
    <2>2. m \in Messages /\ loc[m] = w /\ m \in Valid /\ EventOf[m] \in Stored
      BY <2>1 DEF SettlementsOutstanding, Held, AcksAreStored
    <2>3. Delivery!Acknowledge(m)
      BY <1>3, <2>1, <2>2, BrokerAssumption
      DEF Delivery!Acknowledge, Status, Stored, Valid
    <2> QED BY <2>2, <2>3
  <1>4. ASSUME NEW w \in Workers, SettleReject(w), UNCHANGED workerVars
        PROVE  \E m \in Messages : Delivery!DeadLetter(m)
    <2>1. PICK m \in rejects[w] : loc' = [loc EXCEPT ![m] = "dead"]
      BY <1>4 DEF SettleReject, RejectTarget
    <2>2. m \in Messages /\ loc[m] = w
      BY <2>1 DEF SettlementsOutstanding, Held
    <2>3. Delivery!DeadLetter(m)
      BY <1>4, <2>1, <2>2, BrokerAssumption
      DEF Delivery!DeadLetter, Status, Stored
    <2> QED BY <2>2, <2>3
  <1>5. ASSUME NEW w \in Workers, LoseSession(w) \/ CloseConsumer(w) \/ Deliver(w),
               UNCHANGED rows
        PROVE  UNCHANGED <<Status, Stored>>
    BY <1>5, BrokerAssumption
    DEF LoseSession, CloseConsumer, Deliver, SessionEnds, Requeue, Status, Stored
  <1>6. CASE UNCHANGED <<loc, rows>>
    BY <1>6 DEF Status, Stored
  <1>7. ASSUME NEW w \in Workers, Processor(w)
        PROVE  [Delivery!Next]_<<Status, Stored>>
    <2>1. ASSUME InsertSucceeds(w) \/ InsertFails(w) PROVE Delivery!Next
      BY <1>2, <2>1 DEF InsertSucceeds, InsertFails, AttemptsLeft,
        AfterInsertFailure
    <2>2. ASSUME CloseConsumer(w) PROVE UNCHANGED <<Status, Stored>>
      BY <1>5, <2>2 DEF CloseConsumer, ProcessEnds
    <2> QED
      BY <1>6, <1>7, <2>1, <2>2
      DEF Processor, TakeDelivery, ArmTimer, TimerFires, ReceiverEnded,
        ChannelFinished, CtxDone, StopConsumer, CancelReceive, DrainOne,
        DrainDone, AckOne, AcksDone, BatchAfterFlush, RejectOne, RejectsDone,
        Return, Discard, DiscardDone
  <1>8. ASSUME NEW w \in Workers, Receiver(w) PROVE UNCHANGED <<loc, rows>>
    BY <1>8 DEF Receiver, RecvTop, RecvCancelled, RecvClosed, RecvPoison,
      Unusable, RecvEvent, SendDelivery, PassOn, SendFull, SendAborted
  <1>9. ASSUME NEW w \in Workers, BrokerStep(w)
        PROVE  [Delivery!Next]_<<Status, Stored>>
    BY <1>3, <1>4, <1>5, <1>6, <1>9 DEF BrokerStep, NoticeLoss, Delivery!Next
  <1>10. ASSUME NEW w \in Workers, Start(w) \/ Signal(w) \/ Crash(w)
         PROVE  UNCHANGED <<loc, rows>>
    BY <1>10 DEF Start, OpenSession, Signal, Crash, ProcessEnds
  <1>11. CASE UNCHANGED vars
    BY <1>6, <1>11 DEF vars
  <1> QED
    BY <1>1, <1>6, <1>7, <1>8, <1>9, <1>10, <1>11 DEF Next, Delivery!Next

\* Refinement: the queue, any number of Workers and ClickHouse together keep
\* the promise of EventDelivery.
THEOREM WorkersImplementDelivery == Spec => ImplementsDelivery
  <1>1. Init => Delivery!Init
    BY WorkerAssumption
    DEF Init, BrokerInit, WorkerInit, Delivery!Init, Status, Stored
  <1>2. Init => DeliveriesWerePublished
    BY DEF Init, BrokerInit, WorkerInit, DeliveriesWerePublished
  <1>3. IndInv /\ DeliveriesWerePublished /\ [Next]_vars => DeliveriesWerePublished'
    BY NextDeliveriesWerePublished DEF IndInv
  <1>4. IndInv /\ DeliveriesWerePublished /\ [Next]_vars
        => [Delivery!Next]_<<Status, Stored>>
    BY StepRefines
  <1> QED
    BY <1>1, <1>2, <1>3, <1>4, InductiveInvariant, PTL
    DEF Spec, ImplementsDelivery, Delivery!Spec
=============================================================================
