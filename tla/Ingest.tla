------------------------------- MODULE Ingest -------------------------------
(***************************************************************************)
(* The API process: POST /api/v1/events (internal/event), the shared       *)
(* RabbitMQ Publisher (internal/rabbitmq) and the shutdown of cmd/api.     *)
(*                                                                         *)
(* Every request runs in its own goroutine.  Publish holds the Publisher's *)
(* mutex from the write to the broker's confirmation, and Publisher.Close, *)
(* a deferred call of run, needs the same mutex.  A shutdown that times    *)
(* out leaves handlers running while run closes what they use.             *)
(***************************************************************************)
EXTENDS Naturals

CONSTANTS
    Requests,      \* POST /api/v1/events requests, one event each
    Apps,          \* application IDs
    AppOf,         \* the application each request names
    BadRequests    \* requests decodeJSON or validateInput refuses

ASSUME IngestAssumption ==
    /\ AppOf \in [Requests -> Apps]
    /\ BadRequests \subseteq Requests

VARIABLES
    apps,       \* PostgreSQL: registered applications
    phase,      \* where each request's handler is
    answer,     \* the HTTP status each request got, 0 if none
    gone,       \* requests whose client disconnected (context cancelled)
    holder,     \* the request holding Publisher.mu (empty or a singleton)
    publisher,  \* Publisher.closed: "open" or "closed"
    link,       \* the AMQP connection: "up" or "down", never re-established
    wire,       \* publications written and not yet handled by the broker
    queued,     \* publications in the main queue
    confirm,    \* the confirmation of each publication: none, ack or nack
    server,     \* run: serving, draining (Shutdown), closing (deferred
                \* calls, Publisher first), closingDB, exited
    outcome     \* the exit status run returns: none, clean, error, killed

brokerVars == <<link, wire, queued, confirm>>
vars == <<apps, phase, answer, gone, holder, publisher, brokerVars, server,
          outcome>>

\* NewPublisher: connected, topology declared, channel in confirm mode.
PublisherInit ==
    /\ holder = {}
    /\ publisher = "open"
    /\ link = "up"
    /\ wire = {}
    /\ queued = {}
    /\ confirm = [r \in Requests |-> "none"]

Init ==
    /\ PublisherInit
    /\ apps = {}
    /\ phase = [r \in Requests |-> "idle"]
    /\ answer = [r \in Requests |-> 0]
    /\ gone = {}
    /\ server = "serving"
    /\ outcome = "none"

Running == server # "exited"

\* The handler of r writes status code and returns.
Respond(r, code) ==
    /\ phase' = [phase EXCEPT ![r] = "answered"]
    /\ answer' = [answer EXCEPT ![r] = code]

-----------------------------------------------------------------------------
(* Handlers. *)

\* AppRepository.Create: INSERT INTO apps.
Register(a) == apps' = apps \cup {a}

\* POST /api/v1/apps: Service.Create stores a new application.  Its failures
\* change nothing here, and a lost reply leaves the application registered.
CreateApp(a) ==
    /\ Running
    /\ a \notin apps
    /\ Register(a)
    /\ UNCHANGED <<phase, answer, gone, holder, publisher, brokerVars, server,
                   outcome>>

\* A request arrives: decodeJSON and validateInput answer 400 or let it pass.
Arrive(r) ==
    /\ server = "serving"
    /\ phase[r] = "idle"
    /\ \/ r \in BadRequests /\ Respond(r, 400)
       \/ /\ r \notin BadRequests
          /\ phase' = [phase EXCEPT ![r] = "check"]
          /\ UNCHANGED answer
    /\ UNCHANGED <<apps, gone, holder, publisher, brokerVars, server, outcome>>

\* Mutant: Ingest ignores the result of Exists.
AnyApp(r) == TRUE

\* SELECT EXISTS over the registry.
AppExists(r) == AppOf[r] \in apps

\* AppRepository.Exists: the query fails (context cancelled, database or pool
\* unavailable), or answers from the registry.
Exists(r) ==
    /\ Running
    /\ phase[r] = "check"
    /\ \/ Respond(r, 500)
       \/ ~AppExists(r) /\ Respond(r, 404)
       \/ /\ AppExists(r)
          /\ phase' = [phase EXCEPT ![r] = "lock"]
          /\ UNCHANGED answer
    /\ UNCHANGED <<apps, gone, holder, publisher, brokerVars, server, outcome>>

\* Mutant: the mutex is not taken.
MutexIgnored == TRUE

\* p.mu.Lock() succeeds.
MutexFree == holder = {}

\* Mutant: a return of Publish forgets to unlock.
MutexKept == UNCHANGED holder

\* defer p.mu.Unlock()
Unlock == holder' = {}

\* Publish waits for the mutex; the wait ignores the request's context.
Lock(r) ==
    /\ Running
    /\ phase[r] = "lock"
    /\ MutexFree
    /\ holder' = {r}
    /\ phase' = [phase EXCEPT ![r] = "publish"]
    /\ UNCHANGED <<apps, answer, gone, publisher, brokerVars, server, outcome>>

\* Publish, with the mutex: a closed publisher or connection is an error, and
\* otherwise the message is written and its confirmation awaited.
Publish(r) ==
    /\ Running
    /\ phase[r] = "publish"
    /\ \/ /\ publisher = "open" /\ link = "up"
          /\ wire' = wire \cup {r}
          /\ phase' = [phase EXCEPT ![r] = "confirm"]
          /\ UNCHANGED <<answer, holder>>
       \/ /\ publisher = "closed" \/ link = "down"
          /\ Respond(r, 500)
          /\ Unlock
          /\ UNCHANGED wire
    /\ UNCHANGED <<apps, gone, publisher, link, queued, confirm, server,
                   outcome>>

\* Mutant: a negative confirmation is waited for again.
PositiveOnly(r) == confirm[r] = "ack"

\* The broker has confirmed, positively or negatively.
ConfirmationReady(r) == confirm[r] # "none"

\* Mutant: the Boolean result of WaitContext is ignored.
AlwaysAccepted(c) == 202

\* Mutant: a refused publication is answered like an unknown application.
NackAsNotFound(c) == IF c = "ack" THEN 202 ELSE 404

\* Mutant: the handler answers 200 where the API promises 202.
AcceptedAsOK(c) == IF c = "ack" THEN 200 ELSE 500

\* The status ingest answers to a confirmation.
StatusOf(c) == IF c = "ack" THEN 202 ELSE 500

\* WaitContext returns: positive or negative confirmation, or the request's
\* context is cancelled; Go may pick either if both are ready.
Confirmed(r) ==
    /\ Running
    /\ phase[r] = "confirm"
    /\ \/ ConfirmationReady(r) /\ Respond(r, StatusOf(confirm[r]))
       \/ r \in gone /\ Respond(r, 500)
    /\ Unlock
    /\ UNCHANGED <<apps, gone, publisher, brokerVars, server, outcome>>

\* The client of a request disconnects.
ClientGone(r) ==
    /\ Running
    /\ phase[r] \notin {"idle", "answered"}
    /\ r \notin gone
    /\ gone' = gone \cup {r}
    /\ UNCHANGED <<apps, phase, answer, holder, publisher, brokerVars, server,
                   outcome>>

-----------------------------------------------------------------------------
(* The broker and the client library (external). *)

\* The broker takes responsibility for a publication, or refuses it; a
\* refused one may be queued all the same.
BrokerReplies(r) ==
    /\ link = "up"
    /\ r \in wire
    /\ wire' = wire \ {r}
    /\ \/ queued' = queued \cup {r} /\ confirm' = [confirm EXCEPT ![r] = "ack"]
       \/ queued' \in {queued, queued \cup {r}}
          /\ confirm' = [confirm EXCEPT ![r] = "nack"]
    /\ UNCHANGED <<apps, phase, answer, gone, holder, publisher, link, server,
                   outcome>>

\* The connection ends: the broker may or may not have taken what was on the
\* wire, and the client library turns missing confirmations into negatives.
LinkEnds ==
    /\ link' = "down"
    /\ \E S \in SUBSET wire : queued' = queued \cup S
    /\ wire' = {}
    /\ confirm' = [r \in Requests |-> IF r \in wire THEN "nack" ELSE confirm[r]]

LoseLink ==
    /\ link = "up"
    /\ Running
    /\ LinkEnds
    /\ UNCHANGED <<apps, phase, answer, gone, holder, publisher, server,
                   outcome>>

-----------------------------------------------------------------------------
(* run: shutdown. *)

\* The listener fails: run returns 1 without draining.
ListenerFails ==
    /\ server = "serving"
    /\ server' = "closing"
    /\ outcome' = "error"
    /\ UNCHANGED <<apps, phase, answer, gone, holder, publisher, brokerVars>>

\* SIGINT or SIGTERM: Shutdown stops accepting requests.
Shutdown ==
    /\ server = "serving"
    /\ server' = "draining"
    /\ UNCHANGED <<apps, phase, answer, gone, holder, publisher, brokerVars,
                   outcome>>

\* Mutant: run does not wait for active requests.
AnyTime == TRUE

\* No handler is running.
NoActiveRequest == \A r \in Requests : phase[r] \in {"idle", "answered"}

\* Shutdown returns when no request is active.
ShutdownDone ==
    /\ server = "draining"
    /\ NoActiveRequest
    /\ server' = "closing"
    /\ outcome' = "clean"
    /\ UNCHANGED <<apps, phase, answer, gone, holder, publisher, brokerVars>>

\* SHUTDOWN_TIMEOUT expires with requests active: run returns 1.
ShutdownTimeout ==
    /\ server = "draining"
    /\ ~NoActiveRequest
    /\ server' = "closing"
    /\ outcome' = "error"
    /\ UNCHANGED <<apps, phase, answer, gone, holder, publisher, brokerVars>>

\* The deferred Publisher.Close: it waits for the mutex, and the broker
\* handles the close after the publications written before it.
ClosePublisher ==
    /\ server = "closing"
    /\ MutexFree
    /\ link = "up" => wire = {}
    /\ publisher' = "closed"
    /\ link' = "down"
    /\ server' = "closingDB"
    /\ UNCHANGED <<apps, phase, answer, gone, holder, wire, queued, confirm,
                   outcome>>

\* The deferred pool Close, then the process exits under any running handler.
Exit ==
    /\ server = "closingDB"
    /\ server' = "exited"
    /\ UNCHANGED <<apps, phase, answer, gone, holder, publisher, brokerVars,
                   outcome>>

\* The process is killed.
Crash ==
    /\ Running
    /\ server' = "exited"
    /\ outcome' = "killed"
    /\ LinkEnds
    /\ UNCHANGED <<apps, phase, answer, gone, holder, publisher>>

-----------------------------------------------------------------------------
Handler(r) ==
    \/ Exists(r) \/ Lock(r) \/ Publish(r) \/ Confirmed(r)

Terminate == ShutdownDone \/ ShutdownTimeout \/ ClosePublisher \/ Exit

Next ==
    \/ \E a \in Apps : CreateApp(a)
    \/ \E r \in Requests :
         Arrive(r) \/ Handler(r) \/ ClientGone(r) \/ BrokerReplies(r)
    \/ LoseLink \/ ListenerFails \/ Shutdown \/ Terminate \/ Crash

Spec == Init /\ [][Next]_vars

(***************************************************************************)
(* Fairness: goroutines run, timeouts expire, and the broker answers what  *)
(* it received on a live connection.                                       *)
(***************************************************************************)
FairSpec ==
    /\ Spec
    /\ \A r \in Requests : WF_vars(Handler(r)) /\ WF_vars(BrokerReplies(r))
    /\ WF_vars(Terminate)

-----------------------------------------------------------------------------
(* Properties. *)

TypeOK ==
    /\ apps \in SUBSET Apps
    /\ phase \in [Requests -> {"idle", "check", "lock", "publish", "confirm",
                               "answered"}]
    /\ answer \in [Requests -> {0, 202, 400, 404, 500}]
    /\ gone \in SUBSET Requests
    /\ holder \in SUBSET Requests
    /\ publisher \in {"open", "closed"}
    /\ link \in {"up", "down"}
    /\ wire \in SUBSET Requests
    /\ queued \in SUBSET Requests
    /\ confirm \in [Requests -> {"none", "ack", "nack"}]
    /\ server \in {"serving", "draining", "closing", "closingDB", "exited"}
    /\ outcome \in {"none", "clean", "error", "killed"}

\* A request is answered 202 only when its event is in the queue: Publish
\* waits for the broker's confirmation, across disconnects, lost connections
\* and shutdown.
AcceptedIsQueued ==
    \A r \in Requests : answer[r] = 202 => r \in queued

\* Nothing reaches the broker for a refused request, and whatever does belongs
\* to a registered application: Ingest checks before it publishes.
OnlyCheckedEventsPublished ==
    \A r \in wire \cup queued :
      /\ r \notin BadRequests
      /\ AppOf[r] \in apps
      /\ answer[r] \in {0, 202, 500}

\* The mutex serialises write and confirmation, and every return of Publish
\* releases it: it is held exactly while a handler is between the two.
PublisherSerialised ==
    /\ holder = {r \in Requests : phase[r] \in {"publish", "confirm"}}
    /\ \A r, s \in holder : r = s

\* Close never cuts off a publication that waits for its confirmation, even
\* when run gave up waiting for the handlers.
CloseWaitsForPublish ==
    publisher = "closed" =>
      /\ wire = {}
      /\ \A r \in Requests : phase[r] # "confirm"

\* A process that exits with status 0 has answered every request it accepted,
\* and the broker has handled every publication it wrote.
CleanExitIsComplete ==
    server = "exited" /\ outcome = "clean" =>
      /\ wire = {}
      /\ \A r \in Requests : phase[r] \in {"idle", "answered"}

\* Every accepted request is eventually answered, unless the process ends
\* first: no handler waits for the mutex or for a confirmation for ever.
RequestsAnswered ==
    \A r \in Requests :
      phase[r] # "idle" ~> phase[r] = "answered" \/ server = "exited"

\* A shutdown eventually ends the process, although Publisher.Close waits for
\* a mutex that a handler holds while it waits for the broker.
ShutdownEnds == server = "draining" ~> server = "exited"
=============================================================================
