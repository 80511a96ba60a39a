---------------------------- MODULE StartupProofs ---------------------------
(***************************************************************************)
(* Proofs about Startup, for any number of API and Worker processes, any   *)
(* configuration of each, any queues left by an older version and any      *)
(* number of failures: the routes of the topology exist when they are      *)
(* needed, although every process declares them statement by statement.    *)
(***************************************************************************)
EXTENDS Startup, TLAPS

-----------------------------------------------------------------------------
(* The inductive invariant. *)

\* The steps of p that come after its k-th statement.
StepsPast(p, k) ==
    {Declaring[j] : j \in (k + 1) .. 6} \cup
    (IF p \in Apis THEN {"confirm", "clickhouse", "open"}
                   ELSE {"qos", "consume", "open"})

Past(p, k) == step[p] \in StepsPast(p, k)

\* What statement d asks for is there.
Declared(d) ==
    \/ d.kind = "exchange" /\ d.name \in exchanges
    \/ d.kind = "queue" /\ d \in queues
    \/ d.kind = "binding" /\ d \in bindings

\* A queue name has one set of arguments.
QueueNamesUnique ==
    \A q1, q2 \in queues : q1.name = q2.name => q1 = q2

\* A process has what every statement behind it declared, however the
\* statements of the others and the operator's deletions came in between.
BehindIsDeclared ==
    \A p \in Processes : \A k \in 1 .. 6 :
      Past(p, k) => Declared(Topology(ConfigOf[p])[k])

\* A queue with dead-letter arguments is the main queue of a configuration
\* whose dead-letter statements all had their effect.
FullQueuesAreRouted ==
    \A q \in queues : q.dlx # NoName =>
      \E p \in Processes :
        /\ q = MainQueue(ConfigOf[p])
        /\ \A k \in 1 .. 3 : Declared(Topology(ConfigOf[p])[k])

StepNames ==
    {"down", "postgres", "connect", "d1", "d2", "d3", "d4", "d5", "d6", "confirm",
     "clickhouse", "qos", "consume", "open"}

\* A process is down or at one of its own steps.
StepsAreOwn ==
    /\ step \in [Processes -> StepNames]
    /\ \A p \in Processes : step[p] = "down" \/ \E i \in 1 .. 11 : step[p] = Steps(p)[i]

StartupInv ==
    /\ StepsAreOwn
    /\ QueueNamesUnique /\ BehindIsDeclared /\ FullQueuesAreRouted

-----------------------------------------------------------------------------
(* The operators of the model. *)

LEMMA TopologyDomain ==
    ASSUME NEW c
    PROVE  DOMAIN Topology(c) = 1 .. 6
  BY DEF Topology, DeadLetterPart, MainPart

LEMMA TopologyMain ==
    ASSUME NEW c
    PROVE  Topology(c)[5] = MainQueue(c) /\ Topology(c)[6] = MainBinding(c)
  BY DEF Topology, DeadLetterPart, MainPart

\* The statements are of three kinds; only the fifth declares a queue with
\* dead-letter arguments.
LEMMA TopologyKinds ==
    ASSUME NEW c
    PROVE  /\ Topology(c)[1].kind = "exchange" /\ Topology(c)[4].kind = "exchange"
           /\ Topology(c)[2].kind = "queue" /\ Topology(c)[5].kind = "queue"
           /\ Topology(c)[3].kind = "binding" /\ Topology(c)[6].kind = "binding"
           /\ Topology(c)[2].dlx = NoName /\ Topology(c)[2].name = DeadLetter(c.queue)
           /\ Topology(c)[1].name = DeadLetter(c.exchange)
           /\ Topology(c)[3].queue = DeadLetter(c.queue)
           /\ Topology(c)[3].key = DeadLetter(c.key)
           /\ Topology(c)[3].exchange = DeadLetter(c.exchange)
           /\ Topology(c)[5].dlx = DeadLetter(c.exchange) /\ Topology(c)[5].name = c.queue
           /\ Topology(c)[6].queue = c.queue
  BY DEF Topology, DeadLetterPart, MainPart, Exchange, Queue, Binding, MainQueue,
         MainBinding

\* The steps in full, by position.
LEMMA StepsItems ==
    ASSUME NEW p
    PROVE  /\ DOMAIN Steps(p) = 1 .. 11
           /\ Steps(p)[1] = IF p \in Apis THEN "postgres" ELSE "clickhouse"
           /\ Steps(p)[2] = "connect"
           /\ Steps(p)[3] = "d1" /\ Steps(p)[4] = "d2" /\ Steps(p)[5] = "d3"
           /\ Steps(p)[6] = "d4" /\ Steps(p)[7] = "d5" /\ Steps(p)[8] = "d6"
           /\ Steps(p)[9] = IF p \in Apis THEN "confirm" ELSE "qos"
           /\ Steps(p)[10] = IF p \in Apis THEN "clickhouse" ELSE "consume"
           /\ Steps(p)[11] = "open"
  <1>1. CASE p \in Apis
    BY <1>1 DEF Steps, Declaring
  <1>2. CASE p \notin Apis
    BY <1>2 DEF Steps, Declaring
  <1> QED
    BY <1>1, <1>2

\* No step repeats, so After moves to the next one.
LEMMA AfterItem ==
    ASSUME NEW p, NEW i \in 1 .. 10
    PROVE  After(p, Steps(p)[i]) = Steps(p)[i + 1]
  <1>1. \A j \in DOMAIN Steps(p) : Steps(p)[j] = Steps(p)[i] => j = i
    BY StepsItems
  <1>2. i \in DOMAIN Steps(p)
    BY StepsItems
  <1> QED
    BY <1>1, <1>2 DEF After

\* A step that leads past the k-th statement is past it, or is the k-th.
LEMMA AfterIsPast ==
    ASSUME NEW p, NEW i \in 1 .. 10, NEW k \in 1 .. 6,
           Steps(p)[i + 1] \in StepsPast(p, k)
    PROVE  Steps(p)[i] \in StepsPast(p, k) \/ Steps(p)[i] = Declaring[k]
  BY StepsItems DEF StepsPast, Declaring

-----------------------------------------------------------------------------
(* The inductive steps. *)

\* What is declared stays declared unless something is deleted.
Grows ==
    exchanges \subseteq exchanges' /\ queues \subseteq queues' /\ bindings \subseteq bindings'

\* A statement that meets no conflict has its effect, removes nothing and
\* declares no name twice.
LEMMA ApplyDeclares ==
    ASSUME QueueNamesUnique, NEW p \in Processes, NEW k \in 1 .. 6,
           ~Conflicts(Topology(ConfigOf[p])[k]), Apply(Topology(ConfigOf[p])[k])
    PROVE  Grows /\ QueueNamesUnique' /\ Declared(Topology(ConfigOf[p])[k])'
  <1> DEFINE d == Topology(ConfigOf[p])[k]
  <1>1. d.kind \in {"exchange", "queue", "binding"}
    <2>1. k \in {1, 2, 3, 4, 5, 6}
      OBVIOUS
    <2> QED
      BY <2>1, TopologyKinds
  <1> HIDE DEF d
  <1>2. ~Conflicts(d) /\ Apply(d)
    BY DEF d
  <1>3. Grows /\ QueueNamesUnique' /\ Declared(d)'
    BY <1>1, <1>2 DEF Conflicts, Apply, Grows, QueueNamesUnique, Declared
  <1> QED
    BY <1>3 DEF d

\* The only statement that declares a queue with dead-letter arguments is the
\* fifth, and it declares the main queue.
LEMMA NewQueues ==
    ASSUME NEW p \in Processes, NEW k \in 1 .. 6, Apply(Topology(ConfigOf[p])[k]),
           NEW q \in queues', q \notin queues, q.dlx # NoName
    PROVE  k = 5 /\ q = MainQueue(ConfigOf[p])
  <1>1. q = Topology(ConfigOf[p])[k] /\ Topology(ConfigOf[p])[k].kind = "queue"
    BY DEF Apply
  <1>2. k \in {1, 2, 3, 4, 5, 6}
    OBVIOUS
  <1> QED
    BY <1>1, <1>2, TopologyKinds, TopologyMain

\* The statement of p is the item of its topology that its step numbers.
LEMMA StatementItem ==
    ASSUME NEW p \in Processes, NEW d \in Statement(p)
    PROVE  \E k \in 1 .. 6 : d = Topology(ConfigOf[p])[k] /\ step[p] = Declaring[k]
  BY TopologyDomain DEF Statement

\* A process that declares has a statement.
LEMMA StatementExists ==
    ASSUME NEW p \in Processes, NEW k \in 1 .. 6, step[p] = Declaring[k]
    PROVE  Topology(ConfigOf[p])[k] \in Statement(p)
  BY TopologyDomain DEF Statement

LEMMA DeclaredGrows ==
    ASSUME Grows, NEW d, Declared(d)
    PROVE  Declared(d)'
  BY DEF Grows, Declared

\* A statement of p adds a routed queue or none at all.
LEMMA ApplyKeepsRoutes ==
    ASSUME StartupInv, NEW p \in Processes, NEW d \in Statement(p),
           ~Conflicts(d), Apply(d)
    PROVE  Grows /\ QueueNamesUnique' /\ Declared(d)' /\ FullQueuesAreRouted'
  <1>1. PICK k \in 1 .. 6 : d = Topology(ConfigOf[p])[k] /\ step[p] = Declaring[k]
    BY StatementItem
  <1>2. Grows /\ QueueNamesUnique' /\ Declared(d)'
    BY <1>1, ApplyDeclares DEF StartupInv
  <1>3. ASSUME NEW q \in queues', q.dlx # NoName
        PROVE  \E o \in Processes :
                 /\ q = MainQueue(ConfigOf[o])
                 /\ \A j \in 1 .. 3 : Declared(Topology(ConfigOf[o])[j])'
    <2>1. CASE q \in queues
      BY <1>2, <1>3, <2>1, DeclaredGrows DEF StartupInv, FullQueuesAreRouted
    <2>2. CASE q \notin queues
      <3>1. k = 5 /\ q = MainQueue(ConfigOf[p])
        BY <1>1, <1>3, <2>2, NewQueues
      <3>2. \A j \in 1 .. 3 : Past(p, j)
        BY <1>1, <3>1 DEF Past, StepsPast, Declaring
      <3>3. \A j \in 1 .. 3 : Declared(Topology(ConfigOf[p])[j])
        BY <3>2 DEF StartupInv, BehindIsDeclared
      <3> QED
        BY <1>2, <3>1, <3>3, DeclaredGrows
    <2> QED
      BY <2>1, <2>2
  <1> QED
    BY <1>2, <1>3 DEF FullQueuesAreRouted

\* A process advances past a statement only by having declared it.
LEMMA AdvanceKeepsBehind ==
    ASSUME StartupInv, Grows, NEW p \in Processes, step[p] # "down", step[p] # "open",
           Advance(p),
           \A k \in 1 .. 6 : step[p] = Declaring[k] => Declared(Topology(ConfigOf[p])[k])'
    PROVE  StepsAreOwn' /\ BehindIsDeclared'
  <1>1. PICK i \in 1 .. 10 : step[p] = Steps(p)[i]
    BY StepsItems DEF StartupInv, StepsAreOwn
  <1>2. step' = [step EXCEPT ![p] = Steps(p)[i + 1]]
    BY <1>1, AfterItem DEF Advance
  <1>3. StepsAreOwn'
    <2>1. Steps(p)[i + 1] \in StepNames /\ i + 1 \in 1 .. 11
      BY StepsItems DEF StepNames
    <2> QED
      BY <1>2, <2>1 DEF StartupInv, StepsAreOwn
  <1>4. ASSUME NEW o \in Processes, NEW k \in 1 .. 6, Past(o, k)'
        PROVE  Declared(Topology(ConfigOf[o])[k])'
    <2>1. CASE o # p
      <3>1. Past(o, k)
        BY <1>2, <1>4, <2>1 DEF Past, StartupInv, StepsAreOwn
      <3> QED
        BY <3>1, DeclaredGrows DEF StartupInv, BehindIsDeclared
    <2>2. CASE o = p
      <3>1. Steps(p)[i + 1] \in StepsPast(p, k)
        BY <1>2, <1>4, <2>2 DEF Past, StartupInv, StepsAreOwn
      <3>2. Past(p, k) \/ step[p] = Declaring[k]
        BY <1>1, <3>1, AfterIsPast DEF Past
      <3>3. CASE Past(p, k)
        BY <2>2, <3>3, DeclaredGrows DEF StartupInv, BehindIsDeclared
      <3> QED
        BY <2>2, <3>2, <3>3
    <2> QED
      BY <2>1, <2>2
  <1> QED
    BY <1>3, <1>4 DEF BehindIsDeclared

\* A process that exits has nothing behind it.
LEMMA ExitKeepsBehind ==
    ASSUME StartupInv, Grows, NEW p \in Processes, Exits(p)
    PROVE  StepsAreOwn' /\ BehindIsDeclared'
  <1>0. "down" \in StepNames
    BY DEF StepNames
  <1>1. StepsAreOwn'
    BY <1>0 DEF Exits, StartupInv, StepsAreOwn
  <1>2. ASSUME NEW o \in Processes, NEW k \in 1 .. 6, Past(o, k)'
        PROVE  Past(o, k)
    BY <1>2 DEF Exits, Past, StepsPast, Declaring, StartupInv, StepsAreOwn
  <1> QED
    BY <1>1, <1>2, DeclaredGrows DEF StartupInv, BehindIsDeclared

\* Routes outlast what adds nothing to the queues.
LEMMA SameKeepsRoutes ==
    ASSUME StartupInv, UNCHANGED <<exchanges, queues, bindings>>
    PROVE  Grows /\ QueueNamesUnique' /\ FullQueuesAreRouted'
  BY DEF StartupInv, Grows, QueueNamesUnique, FullQueuesAreRouted, Declared

\* The operator deletes a queue without dead-letter arguments that no
\* dead-letter statement declares; its bindings are not those of a main queue
\* with the arguments, because a name has one set of arguments.
LEMMA DeleteKeepsInv ==
    ASSUME StartupInv, DeleteOldQueue
    PROVE  StartupInv'
  <1> USE StartupAssumption
  <1>1. PICK c \in OldQueues :
          /\ Queue(c.queue, NoName, NoName) \in queues
          /\ queues' = queues \ {Queue(c.queue, NoName, NoName)}
          /\ bindings' = {b \in bindings : b.queue # c.queue}
          /\ UNCHANGED <<exchanges, step>>
    BY DEF DeleteOldQueue
  <1>2. ASSUME NEW p \in Processes, NEW k \in 1 .. 6,
               Declared(Topology(ConfigOf[p])[k]),
               k = 6 => MainQueue(ConfigOf[p]) \in queues
        PROVE  Declared(Topology(ConfigOf[p])[k])'
    <2> DEFINE d == Topology(ConfigOf[p])[k]
    <2>1. /\ DeadLetter(ConfigOf[p].exchange) # NoName
          /\ DeadLetter(ConfigOf[p].queue) # c.queue
      <3>1. ConfigOf[p].exchange \in Seq(STRING)
        BY DEF Configs
      <3> QED
        BY <3>1 DEF DeadLetter, NoName
    <2>2. k = 6 => ConfigOf[p].queue # c.queue
      BY <1>1, <1>2, <2>1 DEF StartupInv, QueueNamesUnique, MainQueue, Queue
    <2>3. k \in {1, 2, 3, 4, 5, 6}
      OBVIOUS
    <2>4. d.kind = "queue" => d # Queue(c.queue, NoName, NoName)
      BY <2>1, <2>3, TopologyKinds DEF Queue
    <2>5. d.kind = "binding" => d.queue # c.queue
      BY <2>1, <2>2, <2>3, TopologyKinds
    <2> QED
      BY <1>1, <1>2, <2>4, <2>5 DEF Declared
  <1>3. BehindIsDeclared'
    <2> SUFFICES ASSUME NEW p \in Processes, NEW k \in 1 .. 6, Past(p, k)'
                 PROVE  Declared(Topology(ConfigOf[p])[k])'
      BY DEF BehindIsDeclared
    <2>1. Past(p, k)
      BY <1>1 DEF Past
    <2>2. k = 6 => MainQueue(ConfigOf[p]) \in queues
      <3>1. k = 6 => Past(p, 5)
        BY <2>1 DEF Past, StepsPast, Declaring
      <3> QED
        BY <3>1, TopologyMain, TopologyKinds DEF StartupInv, BehindIsDeclared, Declared
    <2> QED
      BY <1>2, <2>1, <2>2 DEF StartupInv, BehindIsDeclared
  <1>4. FullQueuesAreRouted'
    BY <1>1, <1>2 DEF StartupInv, FullQueuesAreRouted
  <1> QED
    BY <1>1, <1>3, <1>4 DEF StartupInv, StepsAreOwn, QueueNamesUnique

LEMMA InitStartupInv == Init => StartupInv
  <1> SUFFICES ASSUME Init PROVE StartupInv
    OBVIOUS
  <1>1. StepsAreOwn
    BY DEF Init, StepsAreOwn, StepNames
  <1>2. QueueNamesUnique /\ FullQueuesAreRouted
    BY DEF Init, QueueNamesUnique, FullQueuesAreRouted, Queue
  <1>3. BehindIsDeclared
    BY DEF Init, BehindIsDeclared, Past, StepsPast, Declaring
  <1> QED
    BY <1>1, <1>2, <1>3 DEF StartupInv

LEMMA NextStartupInv == StartupInv /\ [Next]_vars => StartupInv'
  <1> SUFFICES ASSUME StartupInv, [Next]_vars PROVE StartupInv'
    OBVIOUS
  <1>1. CASE DeleteOldQueue
    BY <1>1, DeleteKeepsInv
  <1>2. ASSUME NEW p \in Processes, Start(p) PROVE StartupInv'
    <2>1. Grows /\ QueueNamesUnique' /\ FullQueuesAreRouted'
      BY <1>2, SameKeepsRoutes DEF Start
    <2>2. Steps(p)[1] \in StepNames \ {"down", "open"}
      BY StepsItems DEF StepNames
    <2>3. StepsAreOwn'
      BY <1>2, <2>2 DEF Start, StartupInv, StepsAreOwn
    <2>4. ASSUME NEW k \in 1 .. 6 PROVE Steps(p)[1] \notin StepsPast(p, k)
      BY StepsItems DEF StepsPast, Declaring
    <2>5. ASSUME NEW o \in Processes, NEW k \in 1 .. 6, Past(o, k)' PROVE Past(o, k)
      BY <1>2, <2>4, <2>5 DEF Start, Past, StartupInv, StepsAreOwn
    <2>6. BehindIsDeclared'
      BY <2>1, <2>5, DeclaredGrows DEF StartupInv, BehindIsDeclared
    <2> QED
      BY <2>1, <2>3, <2>6 DEF StartupInv
  <1>3. ASSUME NEW p \in Processes, Connect(p) PROVE StartupInv'
    <2>1. Grows /\ QueueNamesUnique' /\ FullQueuesAreRouted'
      BY <1>3, SameKeepsRoutes DEF Connect
    <2>2. /\ Advance(p)
          /\ step[p] \in {"postgres", "clickhouse", "connect", "confirm", "qos", "consume"}
      BY <1>3 DEF Connect, OpenPostgres, OpenClickHouse, Dial, SetUpChannel
    <2>3. \A k \in 1 .. 6 : step[p] # Declaring[k]
      BY <2>2 DEF Declaring
    <2>4. StepsAreOwn' /\ BehindIsDeclared'
      BY <2>1, <2>2, <2>3, AdvanceKeepsBehind
    <2> QED
      BY <2>1, <2>4 DEF StartupInv
  <1>4. ASSUME NEW p \in Processes, Declare(p) PROVE StartupInv'
    <2>1. PICK k \in 1 .. 6 : step[p] = Declaring[k]
      BY <1>4 DEF Declare
    <2>2. Topology(ConfigOf[p])[k] \in Statement(p)
      BY <2>1, StatementExists
    <2>3. PICK d \in Statement(p) : ~Conflicts(d) /\ Apply(d)
      BY <1>4, <2>2 DEF Declare
    <2>4. Grows /\ QueueNamesUnique' /\ Declared(d)' /\ FullQueuesAreRouted'
      BY <2>3, ApplyKeepsRoutes
    <2>5. \A j \in 1 .. 6 : step[p] = Declaring[j] => j = k
      BY <2>1 DEF Declaring
    <2>6. d = Topology(ConfigOf[p])[k]
      BY <2>3, <2>5, StatementItem
    <2>7. step[p] # "down" /\ step[p] # "open"
      BY <2>1 DEF Declaring
    <2>8. StepsAreOwn' /\ BehindIsDeclared'
      BY <1>4, <2>4, <2>5, <2>6, <2>7, AdvanceKeepsBehind DEF Declare
    <2> QED
      BY <2>4, <2>8 DEF StartupInv
  <1>5. ASSUME NEW p \in Processes, DeclareRefused(p) PROVE StartupInv'
    BY <1>5, SameKeepsRoutes, ExitKeepsBehind DEF DeclareRefused, StartupInv
  <1>6. ASSUME NEW p \in Processes, Fail(p) PROVE StartupInv'
    <2>1. Grows /\ QueueNamesUnique' /\ FullQueuesAreRouted'
      BY <1>6, SameKeepsRoutes, ApplyKeepsRoutes DEF Fail
    <2> QED
      BY <1>6, <2>1, ExitKeepsBehind DEF Fail, StartupInv
  <1>7. CASE UNCHANGED vars
    BY <1>7 DEF vars, StartupInv, StepsAreOwn, QueueNamesUnique, BehindIsDeclared,
                FullQueuesAreRouted, Past, Declared
  <1> QED
    BY <1>1, <1>2, <1>3, <1>4, <1>5, <1>6, <1>7 DEF Next, Run

\* The invariant holds of every behaviour of starting processes.
LEMMA StartupInvariant == Spec => []StartupInv
  BY InitStartupInv, NextStartupInv, PTL DEF Spec

\* For any processes, configurations and old queues: a process that serves has
\* its main queue, with its dead-letter arguments, and that queue's binding,
\* although another process or the operator may act between any two of its
\* statements (NewPublisher, NewConsumer and declareTopology).
THEOREM OpenRouted == Spec => []OpenIsRouted
  <1>1. StartupInv => OpenIsRouted
    <2> SUFFICES ASSUME StartupInv, NEW p \in Processes, step[p] = "open"
                 PROVE  MainQueue(ConfigOf[p]) \in queues /\ MainBinding(ConfigOf[p]) \in bindings
      BY DEF OpenIsRouted
    <2>1. Past(p, 5) /\ Past(p, 6)
      BY DEF Past, StepsPast
    <2>2. Declared(Topology(ConfigOf[p])[5]) /\ Declared(Topology(ConfigOf[p])[6])
      BY <2>1 DEF StartupInv, BehindIsDeclared
    <2> QED
      BY <2>2, TopologyMain, TopologyKinds DEF Declared
  <1> QED
    BY <1>1, StartupInvariant, PTL

\* For any processes, configurations and old queues: at every moment each queue
\* with dead-letter arguments has its dead-letter exchange, binding and queue,
\* because declareTopology declares them first and nothing takes them away.
THEOREM RouteComplete == Spec => []DeadLetterRouteComplete
  <1>1. StartupInv => DeadLetterRouteComplete
    <2> SUFFICES ASSUME StartupInv, NEW q \in queues, q.dlx # NoName
                 PROVE  /\ q.dlx \in exchanges
                        /\ \E b \in bindings :
                             /\ b.exchange = q.dlx /\ b.key = q.dlk
                             /\ \E target \in queues : target.name = b.queue
      BY DEF DeadLetterRouteComplete
    <2>1. PICK p \in Processes :
            /\ q = MainQueue(ConfigOf[p])
            /\ \A k \in 1 .. 3 : Declared(Topology(ConfigOf[p])[k])
      BY DEF StartupInv, FullQueuesAreRouted
    <2>2. q.dlx = DeadLetter(ConfigOf[p].exchange) /\ q.dlk = DeadLetter(ConfigOf[p].key)
      BY <2>1 DEF MainQueue, Queue
    <2>3. /\ Topology(ConfigOf[p])[1].name \in exchanges
          /\ Topology(ConfigOf[p])[2] \in queues
          /\ Topology(ConfigOf[p])[3] \in bindings
      BY <2>1, TopologyKinds DEF Declared
    <2> QED
      BY <2>2, <2>3, TopologyKinds
  <1> QED
    BY <1>1, StartupInvariant, PTL

=============================================================================
