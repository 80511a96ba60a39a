---------------------------- MODULE IngestProofs ----------------------------
(***************************************************************************)
(* Proofs about Ingest for any requests, and, on top of its inductive      *)
(* invariant, about the two modules that drive it: Platform, for any       *)
(* clients, retries and restarts, and Generator, for any number of         *)
(* applications and events.                                                *)
(***************************************************************************)
EXTENDS Platform, Generator, TLAPS

-----------------------------------------------------------------------------
(* Ingest: the inductive invariant. *)

\* Only the last step of a handler answers.
AnsweredAtEnd ==
    \A r \in Requests : phase[r] # "answered" => answer[r] = 0

\* A handler past the validation and the existence check carries an event
\* that passed them.
PastCheckIsChecked ==
    \A r \in Requests :
      /\ phase[r] \in {"check", "lock", "publish", "confirm"} =>
           r \notin BadRequests
      /\ phase[r] \in {"lock", "publish", "confirm"} => AppOf[r] \in apps

\* What was written belongs to a handler that waits for its confirmation or
\* has stopped waiting.
WrittenByPublish ==
    \A r \in wire \cup queued : phase[r] \in {"confirm", "answered"}

\* A positive confirmation means that the broker has the message.
AckMeansQueued ==
    \A r \in Requests : confirm[r] = "ack" => r \in queued

\* A dead connection carries nothing, and a closed publisher has a dead one.
DeadLinkIsEmpty ==
    /\ publisher = "closed" => link = "down"
    /\ link = "down" => wire = {}

\* run reports success only after all handlers have ended, and reaches its
\* last deferred call only after Publisher.Close.
CleanMeansDrained ==
    /\ outcome = "clean" =>
         /\ server \in {"closing", "closingDB", "exited"}
         /\ \A r \in Requests : phase[r] \in {"idle", "answered"}
    /\ server = "closingDB" \/ (server = "exited" /\ outcome # "killed")
         => publisher = "closed"

IndInv ==
    /\ TypeOK /\ AnsweredAtEnd /\ PastCheckIsChecked /\ WrittenByPublish
    /\ AckMeansQueued /\ DeadLinkIsEmpty /\ CleanMeansDrained
    /\ AcceptedIsQueued /\ OnlyCheckedEventsPublished
    /\ PublisherSerialised /\ CloseWaitsForPublish

-----------------------------------------------------------------------------
LEMMA InitIndInv == Init => IndInv
  BY DEF Init, PublisherInit, IndInv, TypeOK, AnsweredAtEnd, PastCheckIsChecked,
     WrittenByPublish, AckMeansQueued, DeadLinkIsEmpty, CleanMeansDrained,
     AcceptedIsQueued, OnlyCheckedEventsPublished, PublisherSerialised,
     CloseWaitsForPublish

LEMMA NextTypeOK == TypeOK /\ [Next]_vars => TypeOK'
  <1> SUFFICES ASSUME TypeOK, [Next]_vars PROVE TypeOK'
    OBVIOUS
  <1> USE DEF TypeOK, brokerVars
  <1>1. ASSUME NEW a \in Apps, CreateApp(a) PROVE TypeOK'
    BY <1>1 DEF CreateApp, Register
  <1>2. ASSUME NEW r \in Requests, Arrive(r) PROVE TypeOK'
    BY <1>2 DEF Arrive, Respond
  <1>3. ASSUME NEW r \in Requests, Exists(r) PROVE TypeOK'
    BY <1>3 DEF Exists, AppExists, Respond
  <1>4. ASSUME NEW r \in Requests, Lock(r) PROVE TypeOK'
    BY <1>4 DEF Lock, MutexFree
  <1>5. ASSUME NEW r \in Requests, Publish(r) PROVE TypeOK'
    BY <1>5 DEF Publish, Unlock, Respond
  <1>6. ASSUME NEW r \in Requests, Confirmed(r) PROVE TypeOK'
    BY <1>6 DEF Confirmed, Unlock, ConfirmationReady, StatusOf, Respond
  <1>7. ASSUME NEW r \in Requests, ClientGone(r) PROVE TypeOK'
    BY <1>7 DEF ClientGone
  <1>8. ASSUME NEW r \in Requests, BrokerReplies(r) PROVE TypeOK'
    BY <1>8 DEF BrokerReplies
  <1>9. CASE LoseLink
    BY <1>9 DEF LoseLink, LinkEnds
  <1>10. CASE ListenerFails
    BY <1>10 DEF ListenerFails
  <1>11. CASE Shutdown
    BY <1>11 DEF Shutdown
  <1>12. CASE ShutdownDone
    BY <1>12 DEF ShutdownDone, NoActiveRequest
  <1>13. CASE ShutdownTimeout
    BY <1>13 DEF ShutdownTimeout, NoActiveRequest
  <1>14. CASE ClosePublisher
    BY <1>14 DEF ClosePublisher, MutexFree
  <1>15. CASE Exit
    BY <1>15 DEF Exit
  <1>16. CASE Crash
    BY <1>16 DEF Crash, LinkEnds
  <1>17. CASE UNCHANGED vars
    BY <1>17 DEF vars
  <1> QED
    BY <1>1, <1>2, <1>3, <1>4, <1>5, <1>6, <1>7, <1>8, <1>9,
       <1>10, <1>11, <1>12, <1>13, <1>14, <1>15, <1>16, <1>17
    DEF Next, Handler, Terminate

LEMMA NextIndInv == IndInv /\ [Next]_vars => IndInv'
  <1> SUFFICES ASSUME IndInv, [Next]_vars, TypeOK' PROVE IndInv'
    BY NextTypeOK DEF IndInv
  <1> USE DEF IndInv, TypeOK, AnsweredAtEnd, PastCheckIsChecked,
              WrittenByPublish, AckMeansQueued, DeadLinkIsEmpty,
              CleanMeansDrained, AcceptedIsQueued, OnlyCheckedEventsPublished,
              PublisherSerialised, CloseWaitsForPublish, brokerVars
  <1>1. ASSUME NEW a \in Apps, CreateApp(a) PROVE IndInv'
    BY <1>1 DEF CreateApp, Register
  <1>2. ASSUME NEW r \in Requests, Arrive(r) PROVE IndInv'
    BY <1>2 DEF Arrive, Respond
  <1>3. ASSUME NEW r \in Requests, Exists(r) PROVE IndInv'
    <2>1. r \notin wire \cup queued /\ r \notin holder /\ confirm[r] # "ack"
      BY <1>3 DEF Exists, AppExists
    <2>2. CASE Respond(r, 500) \/ Respond(r, 404)
      BY <1>3, <2>1, <2>2 DEF Exists, AppExists, Respond
    <2>3. CASE AppOf[r] \in apps /\ phase' = [phase EXCEPT ![r] = "lock"]
               /\ UNCHANGED answer
      BY <1>3, <2>1, <2>3 DEF Exists, AppExists
    <2> QED BY <1>3, <2>2, <2>3 DEF Exists, AppExists
  <1>4. ASSUME NEW r \in Requests, Lock(r) PROVE IndInv'
    BY <1>4 DEF Lock, MutexFree
  <1>5. ASSUME NEW r \in Requests, Publish(r) PROVE IndInv'
    BY <1>5 DEF Publish, Unlock, Respond
  <1>6. ASSUME NEW r \in Requests, Confirmed(r) PROVE IndInv'
    BY <1>6 DEF Confirmed, Unlock, ConfirmationReady, StatusOf, Respond
  <1>7. ASSUME NEW r \in Requests, ClientGone(r) PROVE IndInv'
    BY <1>7 DEF ClientGone
  <1>8. ASSUME NEW r \in Requests, BrokerReplies(r) PROVE IndInv'
    BY <1>8 DEF BrokerReplies
  <1>9. CASE LoseLink
    BY <1>9 DEF LoseLink, LinkEnds
  <1>10. CASE ListenerFails
    BY <1>10 DEF ListenerFails
  <1>11. CASE Shutdown
    BY <1>11 DEF Shutdown
  <1>12. CASE ShutdownDone
    BY <1>12 DEF ShutdownDone, NoActiveRequest
  <1>13. CASE ShutdownTimeout
    BY <1>13 DEF ShutdownTimeout, NoActiveRequest
  <1>14. CASE ClosePublisher
    BY <1>14 DEF ClosePublisher, MutexFree
  <1>15. CASE Exit
    BY <1>15 DEF Exit
  <1>16. CASE Crash
    BY <1>16 DEF Crash, LinkEnds
  <1>17. CASE UNCHANGED vars
    BY <1>17 DEF vars
  <1> HIDE DEF IndInv, TypeOK
  <1> QED
    BY <1>1, <1>2, <1>3, <1>4, <1>5, <1>6, <1>7, <1>8, <1>9,
       <1>10, <1>11, <1>12, <1>13, <1>14, <1>15, <1>16, <1>17
    DEF Next, Handler, Terminate

LEMMA InductiveInvariant == Spec => []IndInv
  BY InitIndInv, NextIndInv, PTL DEF Spec

-----------------------------------------------------------------------------
\* Every reachable state of the API process is well typed: handlers answer
\* only the statuses the API documents, and only known requests are written.
THEOREM TypeCorrect == Spec => []TypeOK
  BY InductiveInvariant, PTL DEF IndInv

\* A 202 is never sent for an event that is not in the queue, for any number
\* of concurrent requests and any timing of disconnects, connection loss and
\* shutdown.
THEOREM AcceptedEventsAreQueued == Spec => []AcceptedIsQueued
  BY InductiveInvariant, PTL DEF IndInv

\* No refused, invalid or unregistered event reaches the broker.
THEOREM PublishedEventsAreChecked == Spec => []OnlyCheckedEventsPublished
  BY InductiveInvariant, PTL DEF IndInv

\* The mutex is held exactly by the one handler between write and
\* confirmation, so no return path of Publish leaks it.
THEOREM PublishIsSerialised == Spec => []PublisherSerialised
  BY InductiveInvariant, PTL DEF IndInv

\* Publisher.Close never interrupts a handler that waits for a confirmation.
THEOREM CloseIsOrderly == Spec => []CloseWaitsForPublish
  BY InductiveInvariant, PTL DEF IndInv

\* Exit status 0 means every accepted request was answered and the broker has
\* handled everything that was written.
THEOREM CleanExitComplete == Spec => []CleanExitIsComplete
  <1>1. IndInv => CleanExitIsComplete
    BY DEF IndInv, CleanMeansDrained, DeadLinkIsEmpty, CleanExitIsComplete
  <1> QED BY <1>1, InductiveInvariant, PTL

-----------------------------------------------------------------------------
(* Platform: the inductive invariant. *)

\* What a client has read is the final answer to its request.
SeenIsAnswer ==
    \A r \in Requests :
      seen[r] \notin {0, Lost} => phase[r] = "answered" /\ seen[r] = answer[r]

\* A retry is under way only if the first attempt was not accepted as far as
\* its client knows.
RetryAfterRefusal ==
    \A s \in Requests :
      phase[s] # "idle" /\ RetryOf[s] # s => seen[RetryOf[s]] \notin {0, 202}

\* The delivery side knows of queued events only.
DeliveredIsQueued ==
    /\ stored \subseteq queued
    /\ \A r \in Requests : status[r] # "unpublished" => r \in queued

PlatformInv ==
    /\ IndInv
    /\ seen \in [Requests -> Nat]
    /\ status \in [Requests -> {"unpublished", "pending", "acked", "dead"}]
    /\ SeenIsAnswer /\ RetryAfterRefusal /\ DeliveredIsQueued

-----------------------------------------------------------------------------
LEMMA ApiStepIsNext == ApiStep => Next
  BY DEF ApiStep, Next

\* A step of the API changes no answer that was given, starts only requests
\* that were sent, and takes nothing out of the queue.
ApiStepIsMonotone ==
    /\ \A r \in Requests :
         /\ phase[r] = "answered" => phase'[r] = "answered" /\ answer'[r] = answer[r]
         /\ phase[r] = "idle" /\ phase'[r] # "idle" => Sent(r)
    /\ queued \subseteq queued'

LEMMA ApiStepMonotone ==
    ASSUME TypeOK, ApiStep
    PROVE  ApiStepIsMonotone
  <1> USE DEF TypeOK, ApiStepIsMonotone, brokerVars
  <1>1. CASE \E a \in Apps : CreateApp(a)
    BY <1>1 DEF CreateApp
  <1>2. CASE \E r \in Requests : Sent(r) /\ Arrive(r)
    BY <1>2 DEF Arrive, Respond
  <1>3. CASE \E r \in Requests : Exists(r)
    BY <1>3 DEF Exists, Respond
  <1>4. CASE \E r \in Requests : Lock(r)
    BY <1>4 DEF Lock
  <1>5. CASE \E r \in Requests : Publish(r)
    BY <1>5 DEF Publish, Respond
  <1>6. CASE \E r \in Requests : Confirmed(r)
    BY <1>6 DEF Confirmed, Respond
  <1>7. CASE \E r \in Requests : BrokerReplies(r)
    BY <1>7 DEF BrokerReplies
  <1>8. CASE \E r \in Requests : ClientGone(r)
    BY <1>8 DEF ClientGone
  <1>9. CASE LoseLink \/ Crash
    BY <1>9 DEF LoseLink, Crash, LinkEnds
  <1>10. CASE ListenerFails \/ Shutdown \/ Terminate
    BY <1>10 DEF ListenerFails, Shutdown, Terminate, ShutdownDone, ShutdownTimeout,
       ClosePublisher, Exit
  <1> QED
    BY <1>1, <1>2, <1>3, <1>4, <1>5, <1>6, <1>7, <1>8, <1>9, <1>10
    DEF ApiStep, Handler

\* A new API process starts in a state the invariant of Ingest allows.
LEMMA RestartIndInv ==
    ASSUME IndInv, Restart
    PROVE  IndInv'
  <1> USE DEF IndInv, Restart
  <1>1. TypeOK'
    BY DEF TypeOK
  <1>2. AnsweredAtEnd' /\ PastCheckIsChecked' /\ CleanMeansDrained'
    BY DEF TypeOK, AnsweredAtEnd, PastCheckIsChecked, CleanMeansDrained
  <1>3. WrittenByPublish' /\ AckMeansQueued' /\ DeadLinkIsEmpty'
    BY DEF TypeOK, WrittenByPublish, AckMeansQueued, DeadLinkIsEmpty
  <1>4. AcceptedIsQueued' /\ OnlyCheckedEventsPublished'
    BY DEF TypeOK, AcceptedIsQueued, OnlyCheckedEventsPublished
  <1>5. PublisherSerialised' /\ CloseWaitsForPublish'
    BY DEF TypeOK, PublisherSerialised, CloseWaitsForPublish
  <1> QED BY <1>1, <1>2, <1>3, <1>4, <1>5

LEMMA PlatformInitInv == PlatformInit => PlatformInv
  <1> SUFFICES ASSUME PlatformInit PROVE PlatformInv
    OBVIOUS
  <1>1. IndInv
    BY InitIndInv DEF PlatformInit
  <1> QED
    BY <1>1 DEF PlatformInit, Init, PublisherInit, Delivery!Init, PlatformInv,
       SeenIsAnswer, RetryAfterRefusal, DeliveredIsQueued

\* The invariant of Ingest depends on the variables of Ingest only.
LEMMA UnchangedIndInv ==
    ASSUME IndInv, UNCHANGED vars
    PROVE  IndInv'
  BY NextIndInv DEF vars

LEMMA PlatformNextInv == PlatformInv /\ [PlatformNext]_platformVars => PlatformInv'
  <1> SUFFICES ASSUME PlatformInv, [PlatformNext]_platformVars PROVE PlatformInv'
    OBVIOUS
  <1>0. /\ IndInv /\ TypeOK
        /\ seen \in [Requests -> Nat]
        /\ status \in [Requests -> {"unpublished", "pending", "acked", "dead"}]
        /\ SeenIsAnswer /\ RetryAfterRefusal /\ DeliveredIsQueued
        /\ RetryOf \in [Requests -> Requests]
    BY PlatformAssumption DEF PlatformInv, IndInv
  <1>1. CASE ApiStep /\ Enqueue
    <2>1. IndInv'
      BY <1>0, <1>1, ApiStepIsNext, NextIndInv
    <2>2. ApiStepIsMonotone
      BY <1>0, <1>1, ApiStepMonotone
    <2>3. UNCHANGED <<seen, stored>>
      BY <1>1 DEF ApiStep, Enqueue
    <2>4. SeenIsAnswer' /\ RetryAfterRefusal'
      BY <1>0, <2>2, <2>3 DEF SeenIsAnswer, RetryAfterRefusal, ApiStepIsMonotone, Sent
    <2>5. DeliveredIsQueued' /\ status' \in [Requests -> {"unpublished", "pending", "acked", "dead"}]
      BY <1>0, <1>1, <2>2, <2>3 DEF DeliveredIsQueued, ApiStepIsMonotone, Enqueue
    <2> QED BY <1>0, <2>1, <2>3, <2>4, <2>5 DEF PlatformInv
  <1>2. CASE Restart /\ Enqueue
    <2>1. IndInv'
      BY <1>0, <1>2, RestartIndInv
    <2>2. SeenIsAnswer' /\ RetryAfterRefusal'
      BY <1>0, <1>2 DEF Restart, SeenIsAnswer, RetryAfterRefusal, TypeOK
    <2>3. DeliveredIsQueued' /\ status' \in [Requests -> {"unpublished", "pending", "acked", "dead"}]
      BY <1>0, <1>2 DEF Restart, Enqueue, DeliveredIsQueued
    <2> QED BY <1>0, <1>2, <2>1, <2>2, <2>3 DEF Restart, PlatformInv
  <1>3. CASE DeliveryStep
    <2>1. IndInv' /\ UNCHANGED <<vars, seen>>
      BY <1>0, <1>3, UnchangedIndInv DEF DeliveryStep
    <2>2. SeenIsAnswer' /\ RetryAfterRefusal'
      BY <1>0, <2>1 DEF SeenIsAnswer, RetryAfterRefusal, vars
    <2>3. DeliveredIsQueued' /\ status' \in [Requests -> {"unpublished", "pending", "acked", "dead"}]
      BY <1>0, <1>3, <2>1 DEF DeliveryStep, Delivery!Store, Delivery!Acknowledge,
         Delivery!DeadLetter, DeliveredIsQueued, vars, brokerVars
    <2> QED BY <1>0, <2>1, <2>2, <2>3 DEF PlatformInv
  <1>4. CASE \E r \in Requests : Receive(r) \/ GiveUp(r)
    <2>1. IndInv' /\ UNCHANGED <<vars, deliveryVars>>
      BY <1>0, <1>4, UnchangedIndInv DEF Receive, GiveUp
    <2>2. PICK r \in Requests : Receive(r) \/ GiveUp(r)
      BY <1>4
    <2>3. seen' \in [Requests -> Nat]
      BY <1>0, <2>2 DEF Receive, GiveUp, TypeOK, Lost
    <2>4. SeenIsAnswer'
      BY <1>0, <2>1, <2>2 DEF Receive, GiveUp, SeenIsAnswer, IndInv, AnsweredAtEnd,
         TypeOK, vars, Lost
    <2>5. RetryAfterRefusal'
      BY <1>0, <2>1, <2>2 DEF Receive, GiveUp, RetryAfterRefusal, vars, Lost
    <2>6. DeliveredIsQueued'
      BY <1>0, <2>1 DEF DeliveredIsQueued, vars, brokerVars, deliveryVars
    <2> QED BY <1>0, <2>1, <2>3, <2>4, <2>5, <2>6 DEF PlatformInv, deliveryVars
  <1>5. CASE UNCHANGED platformVars
    <2>1. IndInv' /\ UNCHANGED <<vars, seen, deliveryVars>>
      BY <1>0, <1>5, UnchangedIndInv DEF platformVars
    <2> QED
      BY <1>0, <2>1 DEF PlatformInv, SeenIsAnswer, RetryAfterRefusal,
         DeliveredIsQueued, vars, brokerVars, deliveryVars
  <1> QED BY <1>1, <1>2, <1>3, <1>4, <1>5 DEF PlatformNext

LEMMA PlatformInvariant == PlatformSpec => []PlatformInv
  BY PlatformInitInv, PlatformNextInv, PTL DEF PlatformSpec

-----------------------------------------------------------------------------
\* For any clients that retry what was not accepted, and across any number of
\* API restarts, an event is queued twice only if its client got 500 or no
\* answer for the earlier attempt.
THEOREM DuplicatesNeedDoubt == PlatformSpec => []DuplicateNeedsDoubt
  <1>1. PlatformInv => DuplicateNeedsDoubt
    BY DEF PlatformInv, IndInv, TypeOK, WrittenByPublish, OnlyCheckedEventsPublished,
       SeenIsAnswer, RetryAfterRefusal, DuplicateNeedsDoubt
  <1> QED BY <1>1, PlatformInvariant, PTL

\* ClickHouse holds only events of registered applications, and none whose
\* client was told that it was refused.
THEOREM StoredEventsAreRegistered == PlatformSpec => []StoredIsRegistered
  <1>1. PlatformInv => StoredIsRegistered
    <2> SUFFICES ASSUME PlatformInv, NEW r \in stored
                 PROVE  /\ AppOf[r] \in apps /\ r \notin BadRequests
                        /\ seen[r] \notin {400, 404}
      BY DEF StoredIsRegistered
    <2>1. r \in Requests /\ r \in queued
      BY DEF PlatformInv, IndInv, TypeOK, DeliveredIsQueued
    <2>2. /\ AppOf[r] \in apps /\ r \notin BadRequests
          /\ answer[r] \in {0, 202, 500}
      BY <2>1 DEF PlatformInv, IndInv, OnlyCheckedEventsPublished
    <2>3. seen[r] \in {0, Lost} \/ seen[r] = answer[r]
      BY <2>1 DEF PlatformInv, SeenIsAnswer
    <2> QED BY <2>2, <2>3 DEF Lost
  <1> QED BY <1>1, PlatformInvariant, PTL

-----------------------------------------------------------------------------
(* Generator: the inductive invariant. *)

GeneratorTypeOK ==
    /\ args \in [flags : {"help", "wrong", "badURL", "ok"},
                 apps : 0 .. MaxApps, events : 0 .. MaxEvents]
    /\ created \in Nat /\ accepted \in Nat /\ sent \in Nat
    /\ exit \in {"none", "help", "usage", "config", "failed", "done"}

\* Run counts applications before events and waits for every answer.
OneAtATime ==
    /\ created <= args.apps /\ accepted <= args.events
    /\ created < args.apps => accepted = 0
    /\ sent <= created + accepted + 1
    /\ sent <= args.apps + args.events
    /\ exit = "done" => created = args.apps /\ accepted = args.events

\* The API has seen only what was sent.
OnlySentIsSeen ==
    /\ apps \subseteq {a \in 1 .. args.apps : a <= sent}
    /\ \A r \in Requests : phase[r] # "idle" => args.apps + r <= sent

GeneratorInv ==
    /\ IndInv
    /\ GeneratorTypeOK /\ OneAtATime /\ OnlySentIsSeen /\ SummaryIsReal

-----------------------------------------------------------------------------
\* A step of the API starts only requests it receives, and loses neither an
\* application nor a queued event.
LEMMA ApiKeepsPromises ==
    ASSUME TypeOK, Api
    PROVE  /\ [Next]_vars
           /\ \A r \in Requests : phase[r] = "idle" /\ phase'[r] # "idle" => EventSent(r)
           /\ \A a \in apps' \ apps : a \in Apps /\ AppSent(a) /\ a <= args.apps
           /\ apps \subseteq apps' /\ queued \subseteq queued'
  <1> USE DEF TypeOK, brokerVars
  <1>1. [Next]_vars
    BY DEF Api, Next
  <1>2. CASE \E a \in Apps : AppSent(a) /\ a <= args.apps /\ CreateApp(a)
    BY <1>1, <1>2 DEF CreateApp, Register
  <1>3. CASE \E r \in Requests : EventSent(r) /\ Arrive(r)
    BY <1>1, <1>3 DEF Arrive, Respond
  <1>4. CASE \E r \in Requests : Exists(r)
    BY <1>1, <1>4 DEF Exists, Respond
  <1>5. CASE \E r \in Requests : Lock(r)
    BY <1>1, <1>5 DEF Lock
  <1>6. CASE \E r \in Requests : Publish(r)
    BY <1>1, <1>6 DEF Publish, Respond
  <1>7. CASE \E r \in Requests : Confirmed(r)
    BY <1>1, <1>7 DEF Confirmed, Respond
  <1>8. CASE \E r \in Requests : ClientGone(r) \/ BrokerReplies(r)
    BY <1>1, <1>8 DEF ClientGone, BrokerReplies
  <1>9. CASE LoseLink \/ Crash
    BY <1>1, <1>9 DEF LoseLink, Crash, LinkEnds
  <1>10. CASE ListenerFails \/ Shutdown \/ Terminate
    BY <1>1, <1>10
    DEF ListenerFails, Shutdown, Terminate, ShutdownDone, ShutdownTimeout,
        ClosePublisher, Exit
  <1> QED
    BY <1>2, <1>3, <1>4, <1>5, <1>6, <1>7, <1>8, <1>9, <1>10 DEF Api, Handler

LEMMA InitGeneratorInv == GeneratorInit => GeneratorInv
  <1> SUFFICES ASSUME GeneratorInit PROVE GeneratorInv
    OBVIOUS
  <1> USE GeneratorAssumption DEF GeneratorInit
  <1>1. IndInv
    BY InitIndInv
  <1>2. GeneratorTypeOK
    BY DEF GeneratorTypeOK
  <1>3. OneAtATime
    BY <1>2 DEF OneAtATime, GeneratorTypeOK
  <1>4. OnlySentIsSeen /\ SummaryIsReal
    BY DEF OnlySentIsSeen, SummaryIsReal, Init
  <1> QED
    BY <1>1, <1>2, <1>3, <1>4 DEF GeneratorInv

\* A step of the generator leaves the API's state alone.
LEMMA GenerateGeneratorInv ==
    ASSUME GeneratorInv, Generate
    PROVE  GeneratorInv'
  <1> USE GeneratorAssumption
  <1>1. UNCHANGED <<vars, args>>
    BY DEF Generate, Refuse, Post, AppCreated, EventAccepted, RequestFails, WriteSummary
  <1>2. IndInv'
    BY <1>1, NextIndInv DEF GeneratorInv
  <1>3. UNCHANGED <<apps, phase, answer, queued>>
    BY <1>1 DEF vars, brokerVars
  <1>4. /\ GeneratorTypeOK /\ OneAtATime /\ OnlySentIsSeen /\ SummaryIsReal
        /\ args.apps \in Nat /\ args.events \in Nat
    BY DEF GeneratorInv, GeneratorTypeOK
  <1>5. CASE Refuse
    <2>1. UNCHANGED <<created, accepted, sent>> /\ exit' \in {"help", "usage", "config"}
      BY <1>5 DEF Refuse
    <2>2. GeneratorTypeOK' /\ OneAtATime'
      BY <1>1, <1>4, <2>1 DEF GeneratorTypeOK, OneAtATime
    <2>3. OnlySentIsSeen' /\ SummaryIsReal'
      BY <1>1, <1>3, <1>4, <2>1 DEF OnlySentIsSeen, SummaryIsReal
    <2> QED
      BY <1>2, <2>2, <2>3 DEF GeneratorInv
  <1>6. CASE Post
    <2>1. /\ UNCHANGED <<created, accepted, exit>>
          /\ sent <= created + accepted /\ sent < args.apps + args.events
          /\ sent' = sent + 1
      BY <1>4, <1>6 DEF Post, Waiting, GeneratorTypeOK
    <2>2. GeneratorTypeOK' /\ OneAtATime'
      BY <1>1, <1>4, <2>1 DEF GeneratorTypeOK, OneAtATime
    <2>3. sent \in Nat /\ sent' >= sent
      BY <1>4, <2>1 DEF GeneratorTypeOK
    <2>4. OnlySentIsSeen'
      BY <1>1, <1>3, <1>4, <2>1, <2>3 DEF OnlySentIsSeen
    <2>5. SummaryIsReal'
      BY <1>3, <1>4, <2>1 DEF SummaryIsReal
    <2> QED
      BY <1>2, <2>2, <2>4, <2>5 DEF GeneratorInv
  <1>7. CASE AppCreated
    <2>1. /\ UNCHANGED <<accepted, sent, exit>> /\ exit = "none"
          /\ created < args.apps /\ created + 1 \in apps /\ created' = created + 1
      BY <1>7 DEF AppCreated, Generating
    <2>2. GeneratorTypeOK' /\ OneAtATime'
      BY <1>1, <1>4, <2>1 DEF GeneratorTypeOK, OneAtATime
    <2>3. OnlySentIsSeen'
      BY <1>1, <1>3, <1>4, <2>1 DEF OnlySentIsSeen
    <2>4. 1 .. created' \subseteq apps
      BY <1>4, <2>1 DEF SummaryIsReal, GeneratorTypeOK
    <2>5. SummaryIsReal'
      BY <1>3, <1>4, <2>1, <2>4 DEF SummaryIsReal
    <2> QED
      BY <1>2, <2>2, <2>3, <2>5 DEF GeneratorInv
  <1>8. CASE EventAccepted
    <2>1. /\ UNCHANGED <<created, sent, exit>> /\ exit = "none"
          /\ created = args.apps /\ accepted' = accepted + 1
          /\ sent > created + accepted /\ StatusAccepted(accepted + 1)
      BY <1>8 DEF EventAccepted, Waiting, Generating
    <2>2. accepted < args.events
      BY <1>4, <2>1 DEF OneAtATime, GeneratorTypeOK
    <2>3. accepted + 1 \in Requests
      BY <1>4, <2>2 DEF GeneratorTypeOK
    <2>4. accepted + 1 \in queued
      BY <2>1, <2>3 DEF StatusAccepted, GeneratorInv, IndInv, AcceptedIsQueued
    <2>5. GeneratorTypeOK' /\ OneAtATime'
      BY <1>1, <1>4, <2>1, <2>2 DEF GeneratorTypeOK, OneAtATime
    <2>6. OnlySentIsSeen'
      BY <1>1, <1>3, <1>4, <2>1 DEF OnlySentIsSeen
    <2>7. 1 .. accepted' \subseteq queued
      BY <1>4, <2>1, <2>4 DEF SummaryIsReal, GeneratorTypeOK
    <2>8. SummaryIsReal'
      BY <1>3, <1>4, <2>1, <2>7 DEF SummaryIsReal
    <2> QED
      BY <1>2, <2>5, <2>6, <2>8 DEF GeneratorInv
  <1>9. CASE RequestFails
    <2>1. UNCHANGED <<created, accepted, sent>> /\ exit' = "failed"
      BY <1>9 DEF RequestFails, StopAtError
    <2>2. GeneratorTypeOK' /\ OneAtATime'
      BY <1>1, <1>4, <2>1 DEF GeneratorTypeOK, OneAtATime
    <2>3. OnlySentIsSeen' /\ SummaryIsReal'
      BY <1>1, <1>3, <1>4, <2>1 DEF OnlySentIsSeen, SummaryIsReal
    <2> QED
      BY <1>2, <2>2, <2>3 DEF GeneratorInv
  <1>10. CASE WriteSummary
    <2>1. /\ UNCHANGED <<created, accepted, sent>> /\ exit' \in {"done", "failed"}
          /\ created = args.apps /\ accepted = args.events
      BY <1>10 DEF WriteSummary
    <2>2. GeneratorTypeOK' /\ OneAtATime'
      BY <1>1, <1>4, <2>1 DEF GeneratorTypeOK, OneAtATime
    <2>3. OnlySentIsSeen' /\ SummaryIsReal'
      BY <1>1, <1>3, <1>4, <2>1 DEF OnlySentIsSeen, SummaryIsReal
    <2> QED
      BY <1>2, <2>2, <2>3 DEF GeneratorInv
  <1> QED
    BY <1>5, <1>6, <1>7, <1>8, <1>9, <1>10 DEF Generate

LEMMA NextGeneratorInv == GeneratorInv /\ [GeneratorNext]_allVars => GeneratorInv'
  <1> SUFFICES ASSUME GeneratorInv, [GeneratorNext]_allVars PROVE GeneratorInv'
    OBVIOUS
  <1>1. CASE Generate
    BY <1>1, GenerateGeneratorInv
  <1>2. CASE Api
    <2>1. TypeOK
      BY DEF GeneratorInv, IndInv
    <2>2. IndInv'
      BY <1>2, <2>1, ApiKeepsPromises, NextIndInv DEF GeneratorInv
    <2>3. UNCHANGED generatorVars
      BY <1>2 DEF Api
    <2>4. OnlySentIsSeen'
      <3>1. ASSUME NEW a \in apps' PROVE a \in 1 .. args.apps /\ a <= sent
        <4>1. CASE a \in apps
          BY <4>1 DEF GeneratorInv, OnlySentIsSeen
        <4>2. CASE a \notin apps
          <5>1. a \in Apps /\ a <= sent /\ a <= args.apps
            BY <1>2, <2>1, <4>2, ApiKeepsPromises DEF AppSent
          <5>2. args.apps \in Nat
            BY GeneratorAssumption DEF GeneratorInv, GeneratorTypeOK
          <5> QED
            BY <5>1, <5>2, GeneratorAssumption
        <4> QED
          BY <4>1, <4>2
      <3>2. ASSUME NEW r \in Requests, phase'[r] # "idle" PROVE args.apps + r <= sent
        BY <1>2, <2>1, <3>2, ApiKeepsPromises
        DEF GeneratorInv, OnlySentIsSeen, EventSent
      <3> QED
        BY <2>3, <3>1, <3>2 DEF OnlySentIsSeen, generatorVars
    <2>5. SummaryIsReal'
      BY <1>2, <2>1, <2>3, ApiKeepsPromises DEF GeneratorInv, SummaryIsReal, generatorVars
    <2> QED
      BY <2>2, <2>3, <2>4, <2>5
      DEF GeneratorInv, GeneratorTypeOK, OneAtATime, generatorVars
  <1>3. CASE UNCHANGED allVars
    <2>1. IndInv'
      BY <1>3, NextIndInv DEF allVars, GeneratorInv
    <2> QED
      BY <1>3, <2>1
      DEF allVars, vars, brokerVars, generatorVars, GeneratorInv, GeneratorTypeOK,
          OneAtATime, OnlySentIsSeen, SummaryIsReal
  <1> QED
    BY <1>1, <1>2, <1>3 DEF GeneratorNext

LEMMA GeneratorInvariant == GeneratorSpec => []GeneratorInv
  BY InitGeneratorInv, NextGeneratorInv, PTL DEF GeneratorSpec

-----------------------------------------------------------------------------
\* For any number of applications and events: the applications and events Run
\* counted are registered and queued, whatever the API does afterwards.
THEOREM SummaryReal == GeneratorSpec => []SummaryIsReal
  BY GeneratorInvariant, PTL DEF GeneratorInv

\* For any number of applications and events: one resource at most exists that
\* the summary does not count, because Run waits for each answer and stops at
\* the first failure; and exit status 0 means all that was asked for, exactly.
THEOREM OneUncounted == GeneratorSpec => []AtMostOneUncounted
  <1>1. GeneratorInv => AtMostOneUncounted
    <2> SUFFICES ASSUME GeneratorInv PROVE AtMostOneUncounted
      OBVIOUS
    <2> USE GeneratorAssumption
        DEF GeneratorInv, GeneratorTypeOK, OneAtATime, OnlySentIsSeen, SummaryIsReal
    <2>1. apps \subseteq 1 .. (created + 1)
      OBVIOUS
    <2>2. ASSUME NEW r \in queued
          PROVE  /\ r \in 1 .. (accepted + 1) /\ r \in 1 .. args.events
                 /\ created = args.apps
      <3>1. r \in Requests /\ phase[r] # "idle"
        BY <2>2 DEF IndInv, TypeOK, WrittenByPublish
      <3>2. r \in Nat /\ r >= 1 /\ args.apps + r <= sent
        BY <3>1
      <3> QED
        BY <3>2
    <2>3. exit = "done" => apps = 1 .. args.apps /\ queued = 1 .. args.events
      BY <2>2
    <2> QED
      BY <2>1, <2>2, <2>3 DEF AtMostOneUncounted
  <1> QED
    BY <1>1, GeneratorInvariant, PTL
=============================================================================
