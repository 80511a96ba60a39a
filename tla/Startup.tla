------------------------------ MODULE Startup -------------------------------
(***************************************************************************)
(* Starting API and Worker processes (run of cmd/api and cmd/worker): each *)
(* opens its stores and its RabbitMQ channel, and each declares the whole  *)
(* topology, statement by statement, while others do the same.  What       *)
(* RabbitMQ has declared is durable; a process that fails anywhere exits   *)
(* and is started again.                                                   *)
(*                                                                         *)
(* Publish is not mandatory: RabbitMQ confirms and drops what no binding   *)
(* takes, and drops a rejected message whose dead-letter route is missing. *)
(* Ingest and Broker rely on the routes this module is about.              *)
(***************************************************************************)
EXTENDS Naturals, Sequences

CONSTANTS
    Apis, Workers,   \* process slots of the two commands
    ConfigOf,        \* RABBITMQ_EXCHANGE, _QUEUE and _ROUTING_KEY of each
    OldQueues,       \* main queues an older version may have left, whose
                     \* declaration had no dead-letter arguments
    MaxFaults        \* bound on failures and exits

Processes == Apis \cup Workers

Configs == [exchange : Seq(STRING), queue : Seq(STRING), key : Seq(STRING)]

VARIABLES
    exchanges,  \* declared exchanges
    queues,     \* declared queues with their dead-letter arguments
    bindings,   \* exchange, key and queue of each binding
    step,       \* per process: "down", the step it is at, or "open"
    faults      \* history: failures and exits so far

vars == <<exchanges, queues, bindings, step, faults>>

-----------------------------------------------------------------------------
(* The topology. *)

\* Names are sequences of parts; <<>> stands for an absent argument.
NoName == <<>>

\* DeadLetterExchangeName, DeadLetterQueueName, DeadLetterRoutingKey.
DeadLetter(name) == Append(name, "dead-letter")

\* The old queues are main queues: none has the name of a dead-letter queue.
ASSUME StartupAssumption ==
    /\ Apis \cap Workers = {}
    /\ ConfigOf \in [Processes -> Configs]
    /\ OldQueues \subseteq Configs
    /\ \A old \in OldQueues, p \in Processes :
         old.queue # DeadLetter(ConfigOf[p].queue)
    /\ MaxFaults \in Nat

Exchange(name) == [kind |-> "exchange", name |-> name]
Queue(name, dlx, dlk) == [kind |-> "queue", name |-> name, dlx |-> dlx, dlk |-> dlk]
Binding(queue, key, exchange) ==
    [kind |-> "binding", queue |-> queue, key |-> key, exchange |-> exchange]

MainQueue(c) == Queue(c.queue, DeadLetter(c.exchange), DeadLetter(c.key))
MainBinding(c) == Binding(c.queue, c.key, c.exchange)

DeadLetterPart(c) ==
    <<Exchange(DeadLetter(c.exchange)),
      Queue(DeadLetter(c.queue), NoName, NoName),
      Binding(DeadLetter(c.queue), DeadLetter(c.key), DeadLetter(c.exchange))>>

MainPart(c) == <<Exchange(c.exchange), MainQueue(c), MainBinding(c)>>

\* Mutant: the main queue is declared before its dead-letter route.
MainPartFirst(c) == MainPart(c) \o DeadLetterPart(c)

\* Mutant: the main queue is never bound.
MainQueueUnbound(c) == DeadLetterPart(c) \o SubSeq(MainPart(c), 1, 2)

\* The statements of declareTopology.
Topology(c) == DeadLetterPart(c) \o MainPart(c)

\* Mutant: queues are declared exclusive to one connection.
ExclusiveQueue(d) == d.kind = "queue" /\ \E q \in queues : q.name = d.name

\* A queue cannot be declared again with other arguments.
Conflicts(d) ==
    d.kind = "queue" /\ \E q \in queues : q.name = d.name /\ q # d

\* The effect of one statement, which repeats without effect.
Apply(d) ==
    /\ exchanges' = IF d.kind = "exchange" THEN exchanges \cup {d.name} ELSE exchanges
    /\ queues' = IF d.kind = "queue" /\ \A q \in queues : q.name # d.name
                 THEN queues \cup {d} ELSE queues
    /\ bindings' = IF d.kind = "binding" THEN bindings \cup {d} ELSE bindings

\* Any of the older queues may exist, with its exchange and binding.
Init ==
    /\ \E old \in SUBSET OldQueues :
         /\ exchanges = {c.exchange : c \in old}
         /\ queues = {Queue(c.queue, NoName, NoName) : c \in old}
         /\ bindings = {MainBinding(c) : c \in old}
    /\ step = [p \in Processes |-> "down"]
    /\ faults = 0

-----------------------------------------------------------------------------
(* Processes. *)

\* The steps of run, in order, up to serving: NewPublisher and NewConsumer
\* connect, declare the topology ("d1", "d2" ...) and set up their channel.
Declaring == <<"d1", "d2", "d3", "d4", "d5", "d6">>

Steps(p) ==
    IF p \in Apis
    THEN <<"postgres", "connect">> \o Declaring \o <<"confirm", "clickhouse", "open">>
    ELSE <<"clickhouse", "connect">> \o Declaring \o <<"qos", "consume", "open">>

\* The step that follows s.
After(p, s) ==
    LET i == CHOOSE k \in DOMAIN Steps(p) : Steps(p)[k] = s IN Steps(p)[i + 1]

Advance(p) == step' = [step EXCEPT ![p] = After(p, @)]

\* run returns 1 and its deferred calls close what was open.
Exits(p) == step' = [step EXCEPT ![p] = "down"]

\* The process is started, by hand or by its supervisor.
Start(p) ==
    /\ step[p] = "down"
    /\ step' = [step EXCEPT ![p] = Steps(p)[1]]
    /\ UNCHANGED <<exchanges, queues, bindings, faults>>

\* Steps without effect on the topology: each succeeds here or is a Fail.
OpenPostgres(p) == step[p] = "postgres" /\ Advance(p)
OpenClickHouse(p) == step[p] = "clickhouse" /\ Advance(p)
Dial(p) == step[p] = "connect" /\ Advance(p)
SetUpChannel(p) == step[p] \in {"confirm", "qos", "consume"} /\ Advance(p)

Connect(p) ==
    /\ OpenPostgres(p) \/ OpenClickHouse(p) \/ Dial(p) \/ SetUpChannel(p)
    /\ UNCHANGED <<exchanges, queues, bindings, faults>>

\* The statement p is at, if it is declaring.
Statement(p) ==
    {Topology(ConfigOf[p])[k] :
       k \in {k \in DOMAIN Topology(ConfigOf[p]) : Declaring[k] = step[p]}}

\* A statement of declareTopology succeeds.
Declare(p) ==
    /\ step[p] \in {Declaring[k] : k \in 1 .. 6}
    /\ \A d \in Statement(p) : ~Conflicts(d)
    /\ \/ \E d \in Statement(p) : Apply(d)
       \/ Statement(p) = {} /\ UNCHANGED <<exchanges, queues, bindings>>
    /\ Advance(p)
    /\ UNCHANGED faults

\* The broker refuses a queue with other arguments and closes the channel.
DeclareRefused(p) ==
    /\ \E d \in Statement(p) : Conflicts(d)
    /\ Exits(p)
    /\ UNCHANGED <<exchanges, queues, bindings, faults>>

\* Any step fails, or the process is stopped or dies at it; a statement may
\* have had its effect.
Fail(p) ==
    /\ step[p] # "down"
    /\ faults < MaxFaults
    /\ faults' = faults + 1
    /\ \/ UNCHANGED <<exchanges, queues, bindings>>
       \/ \E d \in Statement(p) : ~Conflicts(d) /\ Apply(d)
    /\ Exits(p)

\* The upgrade of README.md: an operator deletes a drained old queue.
DeleteOldQueue ==
    \E c \in OldQueues :
      LET old == Queue(c.queue, NoName, NoName)
      IN  /\ old \in queues
          /\ queues' = queues \ {old}
          /\ bindings' = {b \in bindings : b.queue # c.queue}
          /\ UNCHANGED <<exchanges, step, faults>>

Run(p) == Start(p) \/ Connect(p) \/ Declare(p) \/ DeclareRefused(p)

Next == DeleteOldQueue \/ \E p \in Processes : Run(p) \/ Fail(p)

Spec == Init /\ [][Next]_vars

\* Processes run and are restarted, and the operator follows the upgrade note.
FairSpec == Spec /\ WF_vars(DeleteOldQueue) /\ \A p \in Processes : WF_vars(Run(p))

-----------------------------------------------------------------------------
(* Properties. *)

\* A process that serves has its routes: what an API publishes reaches the main
\* queue of its configuration, and that queue dead-letters to the names its
\* configuration derives, whatever an older version or another configuration
\* declared before.  A confirmed publication is therefore queued.
OpenIsRouted ==
    \A p \in Processes : step[p] = "open" =>
      /\ MainQueue(ConfigOf[p]) \in queues
      /\ MainBinding(ConfigOf[p]) \in bindings

\* At every moment, between any two statements of any process, each queue with
\* dead-letter arguments has its dead-letter route: a Worker that consumes
\* while another process is starting never rejects a message into nothing.
DeadLetterRouteComplete ==
    \A q \in queues : q.dlx # NoName =>
      /\ q.dlx \in exchanges
      /\ \E b \in bindings :
           /\ b.exchange = q.dlx /\ b.key = q.dlk
           /\ \E target \in queues : target.name = b.queue

\* With a bounded number of failures every process gets to serve and stays:
\* declarations repeat safely after a failure in the middle, and an old queue
\* blocks the start only until it is deleted.
EventuallyServing ==
    \A p \in Processes : <>[](step[p] = "open")
=============================================================================
