------------------------- MODULE PerformanceProofs --------------------------
(***************************************************************************)
(* Proofs about Performance for any options, data set sizes and numbers of *)
(* server failures.                                                        *)
(***************************************************************************)
EXTENDS Performance, SortingProofs

-----------------------------------------------------------------------------
(* The inductive invariant. *)

\* Statements on the measuring connection, and those before Measure returns
\* for good or ill.
TableSteps == {"warmUp", "warmUpReset", "reset", "insert", "analysisReset",
               "analysisInsert", "analyze", "closeTemp"}
AdminSteps == TableSteps \cup {"create", "clone", "open", "drop", "closeAdmin"}
EndSteps == {"closeAdmin", "returned", "exited"}
Steps == AdminSteps \cup {"validate", "openAdmin", "returned", "exited"}

\* Steps reached only without an error.
CleanSteps == Steps \ (EndSteps \cup {"closeTemp", "drop"})
AnalysisSteps == {"analysisReset", "analysisInsert", "analyze"}

PerformanceTypeOK ==
    /\ step \in Steps
    /\ options \in Options
    /\ cancelled \in BOOLEAN /\ failed \in BOOLEAN /\ created \in BOOLEAN
    /\ faults \in Nat
    /\ temp \in {"absent", "empty", "cloned"}
    /\ rows \in [{"source", "temp"} -> [EventIds -> Int]]
    /\ start \in Nat /\ calls \in Nat
    /\ exit \in {0, 1, 3}

\* Each connection is open exactly while its statements and its deferred
\* closing are ahead, and the measuring one is to the temporary database.
ConnectionsMatchStep ==
    /\ admin <=> step \in AdminSteps
    /\ target = IF step \in TableSteps THEN "temp" ELSE "none"

\* An error is known only once the deferred calls have begun, and it decides
\* the exit status.
ErrorsMatchStep ==
    /\ step \in CleanSteps => ~failed
    /\ exit # 3 => step = "exited"
    /\ exit = 0 => ~failed

\* The DROP is ahead from CREATE on; past it a database that is left was
\* reported, and a database whose CREATE was confirmed is left by a server
\* failure only.
DatabaseMatchesStep ==
    /\ step \in {"validate", "openAdmin", "create"} => temp = "absent" /\ ~created
    /\ step \in EndSteps => /\ temp # "absent" => failed
                            /\ created /\ faults = 0 => temp = "absent"

\* Where the database is, which connections are open and what is reported.
CleanupInv ==
    /\ PerformanceTypeOK
    /\ SourceUntouched
    /\ ConnectionsMatchStep /\ ErrorsMatchStep /\ DatabaseMatchesStep

-----------------------------------------------------------------------------
(* The inductive invariant of the report. *)

IsSequence(s) == s \in Seq({s[i] : i \in DOMAIN s})

ValidOptions ==
    /\ options.events > 0 /\ options.runs > 0
    /\ options.batches \in Seq(Nat \ {0}) /\ options.batches # <<>>

RunsExact(list, operations) ==
    \A k \in DOMAIN list : list[k].rows = OneEach(options.events)
                           /\ list[k].calls = operations

\* What is recorded so far.
RecordedIsExact ==
    /\ IsSequence(runs) /\ IsSequence(measurements)
    /\ \A i \in DOMAIN measurements :
         /\ Len(measurements[i].runs) = options.runs
         /\ RunsExact(measurements[i].runs, measurements[i].insertOperations)

\* How far the loops of runner.run are.
LoopsMatchStep ==
    /\ step \in {"validate", "openAdmin", "create", "clone", "open", "warmUp", "warmUpReset"}
         => runs = <<>> /\ measurements = <<>>
    /\ step \in AdminSteps \cup {"openAdmin"} => ValidOptions
    /\ step \in {"reset", "insert"} =>
         /\ Len(measurements) < Len(options.batches)
         /\ Len(runs) < options.runs
         /\ RunsExact(runs, InsertOperations(options.events, BatchSize))
    /\ step \in AnalysisSteps => Len(measurements) = Len(options.batches)

\* The table holds each event before start once, and start counts the calls.
TableMatchesLoop ==
    /\ step = "insert" =>
         /\ rows.temp = OneEach(SmallerOf(start, options.events))
         /\ start = calls * BatchSize
         /\ start < options.events + BatchSize
    /\ step = "analysisInsert" => rows.temp = OneEach(SmallerOf(start, AnalysisEvents))
    /\ step = "analyze" => rows.temp = OneEach(AnalysisEvents)

\* A run that comes to its deferred calls without an error is complete.
CompleteUnlessFailed ==
    step \in EndSteps \cup {"closeTemp", "drop"} /\ ~failed =>
      /\ Len(measurements) = Len(options.batches)
      /\ analysis = OneEach(AnalysisEvents)

ReportInv ==
    RecordedIsExact /\ LoopsMatchStep /\ TableMatchesLoop /\ CompleteUnlessFailed

-----------------------------------------------------------------------------
LEMMA OneEachType == \A n \in Int : OneEach(n) \in [EventIds -> Int]
  BY DEF OneEach

LEMMA NoRowsType == NoRows \in [EventIds -> Int]
  BY DEF NoRows

\* A statement on the temporary table whose failure unwinds.
LEMMA OnTableKeeps ==
    ASSUME CleanupInv, NEW content \in [EventIds -> Int], NEW next \in TableSteps,
           step \in TableSteps \ {"closeTemp"}, OnTable(content, next),
           start' \in Nat, calls' \in Nat
    PROVE  CleanupInv'
  <1>1. target = "temp"
    BY DEF CleanupInv, ConnectionsMatchStep
  <1>2. rows' \in {rows, [rows EXCEPT !["temp"] = content]}
    BY <1>1 DEF OnTable
  <1>3. /\ rows' \in [{"source", "temp"} -> [EventIds -> Int]]
        /\ rows'["source"] = rows["source"]
    BY <1>2 DEF CleanupInv, PerformanceTypeOK
  <1>4. /\ step' \in {next, "closeTemp"} /\ failed' \in BOOLEAN /\ faults' \in Nat
        /\ failed' => step' = "closeTemp"
    <2>1. ~failed /\ failed \in BOOLEAN /\ faults \in Nat
      BY DEF CleanupInv, PerformanceTypeOK, ErrorsMatchStep, CleanSteps, EndSteps, Steps,
             AdminSteps, TableSteps
    <2>2. CASE Succeeds(cancelled, next)
      BY <2>1, <2>2 DEF Succeeds
    <2>3. CASE Fails(cancelled, "closeTemp")
      <3>1. faults' \in Nat
        BY <2>1, <2>3 DEF Fails, Broken
      <3>2. failed' = TRUE /\ step' = "closeTemp"
        BY <2>3 DEF Fails
      <3> QED
        BY <3>1, <3>2
    <2> QED
      BY <2>2, <2>3 DEF OnTable
  <1>5. UNCHANGED <<options, cancelled, created, temp, admin, target, analysis, exit>>
    BY DEF OnTable
  <1>6. PerformanceTypeOK'
    BY <1>3, <1>4, <1>5 DEF CleanupInv, PerformanceTypeOK, Steps, AdminSteps, TableSteps
  <1>7. SourceUntouched'
    BY <1>3 DEF CleanupInv, SourceUntouched, OneEach
  <1>8. ConnectionsMatchStep'
    BY <1>4, <1>5 DEF CleanupInv, ConnectionsMatchStep, AdminSteps, TableSteps
  <1>9. ErrorsMatchStep' /\ DatabaseMatchesStep'
    BY <1>4, <1>5 DEF CleanupInv, ErrorsMatchStep, DatabaseMatchesStep, CleanSteps,
                      EndSteps, Steps, AdminSteps, TableSteps
  <1> QED
    BY <1>6, <1>7, <1>8, <1>9 DEF CleanupInv

LEMMA InitCleanupInv == Init => CleanupInv
  <1> SUFFICES ASSUME Init PROVE CleanupInv
    OBVIOUS
  <1>1. rows \in [{"source", "temp"} -> [EventIds -> Int]] /\ rows.source = OneEach(1)
    BY OneEachType, NoRowsType DEF Init
  <1>2. PerformanceTypeOK
    BY <1>1, PerformanceAssumption
    DEF Init, PerformanceTypeOK, Steps, AdminSteps, TableSteps
  <1>3. ConnectionsMatchStep
    BY DEF Init, ConnectionsMatchStep, AdminSteps, TableSteps
  <1>4. ErrorsMatchStep /\ DatabaseMatchesStep
    BY DEF Init, ErrorsMatchStep, DatabaseMatchesStep, CleanSteps, EndSteps
  <1> QED
    BY <1>1, <1>2, <1>3, <1>4 DEF CleanupInv, SourceUntouched

\* The rows InsertBatch leaves.
LEMMA InsertedType ==
    ASSUME CleanupInv, step \in TableSteps, NEW from \in Int, NEW to \in Int
    PROVE  Inserted(from, to) \in [EventIds -> Int]
  <1>1. rows[target] \in [EventIds -> Int]
    BY DEF CleanupInv, PerformanceTypeOK, ConnectionsMatchStep
  <1> QED
    BY <1>1 DEF Inserted

\* How a statement leaves the error and the failures.
LEMMA StatementOutcome ==
    ASSUME PerformanceTypeOK, NEW ctxDone, NEW next, NEW unwind,
           Succeeds(ctxDone, next) \/ Fails(ctxDone, unwind)
    PROVE  /\ failed' \in BOOLEAN /\ faults' \in Nat
           /\ faults' = 0 => faults = 0
           /\ \/ step' = next /\ failed' = failed
              \/ step' = unwind /\ failed' = TRUE
  <1>1. failed \in BOOLEAN /\ faults \in Nat
    BY DEF PerformanceTypeOK
  <1>2. CASE Succeeds(ctxDone, next)
    BY <1>1, <1>2 DEF Succeeds
  <1>3. CASE Fails(ctxDone, unwind)
    <2>1. faults' \in Nat /\ (faults' = 0 => faults = 0)
      BY <1>1, <1>3 DEF Fails, Broken
    <2>2. failed' = TRUE /\ step' = unwind
      BY <1>3 DEF Fails
    <2> QED
      BY <2>1, <2>2
  <1> QED
    BY <1>2, <1>3

LEMMA NextCleanupInv ==
    CleanupInv /\ (step = "insert" => BatchSize \in Nat) /\ [Next]_vars => CleanupInv'
  <1> SUFFICES ASSUME CleanupInv, step = "insert" => BatchSize \in Nat, [Next]_vars
               PROVE  CleanupInv'
    OBVIOUS
  <1> USE DEF CleanupInv, PerformanceTypeOK, SourceUntouched, ConnectionsMatchStep,
              ErrorsMatchStep, DatabaseMatchesStep, CleanSteps, EndSteps, Steps,
              AdminSteps, TableSteps, loopVars, Succeeds, Fails, Broken
  <1>1. CASE Validate
    <2>1. options' \in Options
      <3>1. options \in Options /\ DefaultBatchSizes \in Seq(Int)
        BY PerformanceAssumption
      <3>2. [options EXCEPT !.batches = DefaultBatchSizes] \in Options
        BY <3>1 DEF Options
      <3> QED
        BY <1>1, <3>1, <3>2 DEF Validate
    <2>2. UNCHANGED <<cancelled, faults, created, temp, rows, admin, target, loopVars, exit>>
      BY <1>1 DEF Validate
    <2>3. step = "validate" /\ \/ step' = "returned" /\ failed' = TRUE
                               \/ step' = "openAdmin" /\ failed' = failed
      BY <1>1 DEF Validate
    <2>4. failed' \in BOOLEAN
      BY <2>3
    <2> QED
      BY <2>1, <2>2, <2>3, <2>4
  <1>2. CASE OpenAdmin
    <2>1. /\ failed' \in BOOLEAN /\ faults' \in Nat /\ step = "openAdmin"
          /\ \/ step' = "create" /\ failed' = failed /\ admin' = TRUE
             \/ step' = "returned" /\ failed' = TRUE /\ admin' = admin
      BY <1>2, StatementOutcome DEF OpenAdmin
    <2>2. UNCHANGED <<options, cancelled, created, temp, rows, target, loopVars, exit>>
      BY <1>2 DEF OpenAdmin
    <2> QED
      BY <2>1, <2>2
  <1>3. CASE CreateDatabase
    <2>1. /\ failed' \in BOOLEAN /\ faults' \in Nat /\ step = "create"
          /\ \/ step' = "clone" /\ failed' = failed /\ created' = TRUE /\ temp' = "empty"
             \/ /\ step' = "closeAdmin" /\ failed' = TRUE /\ created' = created
                /\ temp' \in {"absent", "empty"}
      BY <1>3, StatementOutcome DEF CreateDatabase
    <2>2. UNCHANGED <<options, cancelled, rows, admin, target, loopVars, exit>>
      BY <1>3 DEF CreateDatabase
    <2>3. created' \in BOOLEAN
      BY <2>1
    <2> QED
      BY <2>1, <2>2, <2>3
  <1>4. CASE CloneTable
    <2>1. /\ failed' \in BOOLEAN /\ faults' \in Nat /\ step = "clone"
          /\ temp' \in {"empty", "cloned"}
          /\ \/ step' = "open" /\ failed' = failed
             \/ step' = "drop" /\ failed' = TRUE
      BY <1>4, StatementOutcome DEF CloneTable
    <2>2. UNCHANGED <<options, cancelled, created, rows, admin, target, loopVars, exit>>
      BY <1>4 DEF CloneTable
    <2> QED
      BY <2>1, <2>2
  <1>5. CASE OpenTemp
    <2>1. /\ failed' \in BOOLEAN /\ faults' \in Nat /\ step = "open"
          /\ \/ step' = "warmUp" /\ failed' = failed /\ target' = "temp"
             \/ step' = "drop" /\ failed' = TRUE /\ target' = target
      BY <1>5, StatementOutcome DEF OpenTemp, MeasurementDatabase
    <2>2. UNCHANGED <<options, cancelled, created, temp, rows, admin, loopVars, exit>>
      BY <1>5 DEF OpenTemp
    <2> QED
      BY <2>1, <2>2
  <1>6. CASE Drop
    <2>1. /\ step = "drop" /\ step' = "closeAdmin"
          /\ \/ temp' = "absent" /\ failed' = failed /\ faults' = faults
             \/ /\ temp' \in {temp, "absent"} /\ failed' = TRUE /\ faults' = faults + 1
      BY <1>6 DEF Drop, CleanupDone, DropErrorJoined
    <2>2. UNCHANGED <<options, cancelled, created, rows, admin, target, loopVars, exit>>
      BY <1>6 DEF Drop
    <2>3. failed' \in BOOLEAN
      BY <2>1
    <2> QED
      BY <2>1, <2>2, <2>3
  <1>7. CASE CloseTemp
    <2>1. /\ failed' \in BOOLEAN /\ faults' \in Nat /\ step = "closeTemp" /\ step' = "drop"
          /\ failed' = failed \/ failed' = TRUE
      BY <1>7, StatementOutcome DEF CloseTemp
    <2>2. target' = "none"
          /\ UNCHANGED <<options, cancelled, created, temp, rows, admin, loopVars, exit>>
      BY <1>7 DEF CloseTemp
    <2> QED
      BY <2>1, <2>2
  <1>8. CASE CloseAdmin
    <2>1. /\ failed' \in BOOLEAN /\ faults' \in Nat /\ step = "closeAdmin"
          /\ step' = "returned" /\ (faults' = 0 => faults = 0)
          /\ failed' = failed \/ failed' = TRUE
      BY <1>8, StatementOutcome DEF CloseAdmin
    <2>2. admin' = FALSE
          /\ UNCHANGED <<options, cancelled, created, temp, rows, target, loopVars, exit>>
      BY <1>8 DEF CloseAdmin
    <2> QED
      BY <2>1, <2>2
  <1>9. CASE Exit
    BY <1>9 DEF Exit
  <1>10. CASE Cancel
    BY <1>10 DEF Cancel
  <1>11. CASE RunDone
    BY <1>11 DEF RunDone
  <1>12. CASE Analyze
    <2>1. /\ failed' \in BOOLEAN /\ faults' \in Nat /\ step = "analyze"
          /\ step' = "closeTemp"
      BY <1>12, StatementOutcome DEF Analyze
    <2>2. UNCHANGED <<options, cancelled, created, temp, rows, admin, target, loopVars, exit>>
      BY <1>12 DEF Analyze
    <2> QED
      BY <2>1, <2>2
  <1>13. CASE UNCHANGED vars
    BY <1>13 DEF vars
  <1>14. CASE WarmUp
    <2> DEFINE content == Inserted(0, SmallerOf(WarmupEvents, options.events))
    <2>0. SmallerOf(WarmupEvents, options.events) \in Int
      BY PerformanceAssumption DEF SmallerOf, Options
    <2>1. content \in [EventIds -> Int]
      BY <1>14, <2>0, InsertedType DEF WarmUp
    <2>2. OnTable(content, "warmUpReset") /\ step = "warmUp" /\ UNCHANGED loopVars
      BY <1>14 DEF WarmUp
    <2> HIDE DEF content
    <2> QED
      BY <2>1, <2>2, OnTableKeeps
  <1>15. CASE WarmUpReset
    BY <1>15, NoRowsType, OnTableKeeps DEF WarmUpReset, Truncated
  <1>16. CASE Reset
    BY <1>16, NoRowsType, OnTableKeeps DEF Reset, Truncated
  <1>17. CASE InsertNext
    <2> DEFINE content == Inserted(start, SmallerOf(start + BatchSize, options.events))
    <2>0. SmallerOf(start + BatchSize, options.events) \in Int /\ start \in Int
      BY <1>17 DEF InsertNext, SmallerOf, Options
    <2>1. content \in [EventIds -> Int]
      BY <1>17, <2>0, InsertedType DEF InsertNext
    <2>2. OnTable(content, "insert") /\ step = "insert" /\ start' \in Nat /\ calls' \in Nat
      BY <1>17 DEF InsertNext
    <2> HIDE DEF content
    <2> QED
      BY <2>1, <2>2, OnTableKeeps
  <1>18. CASE AnalysisReset
    BY <1>18, NoRowsType, OnTableKeeps DEF AnalysisReset, Truncated
  <1>19. CASE AnalysisInsert
    <2> DEFINE content == Inserted(start, SmallerOf(start + AnalysisBatch, AnalysisEvents))
    <2>1. content \in [EventIds -> Int]
      BY <1>19, InsertedType, PerformanceAssumption DEF AnalysisInsert, SmallerOf
    <2>2. /\ OnTable(content, "analysisInsert") /\ step = "analysisInsert"
          /\ start' \in Nat /\ calls' \in Nat
      BY <1>19, PerformanceAssumption DEF AnalysisInsert
    <2> HIDE DEF content
    <2> QED
      BY <2>1, <2>2, OnTableKeeps
  <1>20. CASE Optimize
    <2>1. rows[target] \in [EventIds -> Int]
      BY <1>20 DEF Optimize
    <2>2. OnTable(rows[target], "analyze") /\ step = "analysisInsert" /\ UNCHANGED loopVars
      BY <1>20 DEF Optimize
    <2> QED
      BY <2>1, <2>2, OnTableKeeps
  <1> QED
    BY <1>1, <1>2, <1>3, <1>4, <1>5, <1>6, <1>7, <1>8, <1>9, <1>10, <1>11, <1>12, <1>13,
       <1>14, <1>15, <1>16, <1>17, <1>18, <1>19, <1>20 DEF Next, Command
-----------------------------------------------------------------------------
(* The report. *)

LEMMA AppendIsSequence ==
    ASSUME NEW s, IsSequence(s), NEW x
    PROVE  /\ IsSequence(Append(s, x))
           /\ Len(s) \in Nat /\ Len(Append(s, x)) = Len(s) + 1
           /\ \A i \in DOMAIN Append(s, x) :
                (i \in DOMAIN s /\ Append(s, x)[i] = s[i]) \/ Append(s, x)[i] = x
  <1> DEFINE T == {s[i] : i \in DOMAIN s} \cup {x}
             t == Append(s, x)
  <1>1. s \in Seq(T)
    BY DEF IsSequence
  <1>2. t \in Seq(T) /\ Len(t) = Len(s) + 1 /\ Len(s) \in Nat
    BY <1>1
  <1>3. \A i \in DOMAIN t : (i \in DOMAIN s /\ t[i] = s[i]) \/ t[i] = x
    BY <1>1
  <1> HIDE DEF t
  <1>4. t \in Seq({t[i] : i \in DOMAIN t})
    BY <1>2
  <1> QED
    BY <1>2, <1>3, <1>4 DEF IsSequence, t

LEMMA NextMultiple ==
    ASSUME NEW x \in Nat, NEW y \in Nat, NEW size \in Nat, x < y
    PROVE  x * size + size <= y * size
  <1> DEFINE d == y - x - 1
  <1>1. d \in Nat /\ y = x + 1 + d
    OBVIOUS
  <1> HIDE DEF d
  <1>2. d * size \in Nat
    BY <1>1
  <1>3. (x + 1 + d) * size = x * size + size + d * size
    BY <1>1
  <1> QED
    BY <1>1, <1>2, <1>3

\* The number of calls of a loop that advances by the batch size is the number
\* of insert operations insertOperations reports.
LEMMA CallsAreOperations ==
    ASSUME NEW n \in Nat, NEW size \in Nat \ {0}, NEW c \in Nat,
           c * size >= n, c * size < n + size
    PROVE  c = InsertOperations(n, size)
  <1> DEFINE a == n + size - 1
             q == a \div size
  <1>1. a \in Nat
    OBVIOUS
  <1>2. q \in Nat /\ q * size <= a /\ a < q * size + size
    BY <1>1
  <1>3. c * size <= a /\ a < c * size + size
    OBVIOUS
  <1> HIDE DEF a, q
  <1>4. ~(q < c)
    <2> SUFFICES ASSUME q < c PROVE FALSE
      OBVIOUS
    <2>1. q * size + size <= c * size
      BY <1>2, NextMultiple
    <2> QED
      BY <1>1, <1>2, <1>3, <2>1
  <1>5. ~(c < q)
    <2> SUFFICES ASSUME c < q PROVE FALSE
      OBVIOUS
    <2>1. c * size + size <= q * size
      BY <1>2, NextMultiple
    <2> QED
      BY <1>1, <1>2, <1>3, <2>1
  <1>6. c = q
    BY <1>2, <1>4, <1>5
  <1> QED
    BY <1>6 DEF InsertOperations, a, q

LEMMA EventIdsAreIntegers == EventIds \subseteq Int
  BY PerformanceAssumption DEF EventIds, Options

LEMMA EventIdsArePositive == \A e \in EventIds : ~(e <= 0)
  BY PerformanceAssumption DEF EventIds, Options

\* InsertBatch(events[start:end]) after the events before start.
LEMMA InsertedIsPrefix ==
    ASSUME NEW n \in Int, NEW size \in Nat, start \in Nat, start < n,
           rows[target] = OneEach(SmallerOf(start, n))
    PROVE  Inserted(start, SmallerOf(start + size, n)) = OneEach(SmallerOf(start + size, n))
  BY EventIdsAreIntegers DEF Inserted, OneEach, SmallerOf

\* A step that leaves options, runs and measurements alone.
LEMMA RecordKept ==
    ASSUME ReportInv, UNCHANGED <<options, runs, measurements>>
    PROVE  RecordedIsExact'
  <1>1. IsSequence(runs') /\ IsSequence(measurements')
    BY DEF ReportInv, RecordedIsExact
  <1>2. \A i \in DOMAIN measurements' :
          /\ Len(measurements'[i].runs) = options.runs
          /\ RunsExact(measurements'[i].runs, measurements'[i].insertOperations)
    BY DEF ReportInv, RecordedIsExact
  <1>3. OneEach(options.events)' = OneEach(options.events)
    BY DEF OneEach
  <1> QED
    BY <1>1, <1>2, <1>3 DEF RecordedIsExact, RunsExact, IsSequence

\* An error leads to the deferred calls with the record as it was.
LEMMA UnwindKeepsReport ==
    ASSUME ReportInv, step \in AdminSteps \cup {"openAdmin"}, failed' = TRUE,
           step' \in {"closeTemp", "drop", "closeAdmin", "returned"},
           UNCHANGED <<options, runs, measurements>>
    PROVE  ReportInv'
  <1>1. RecordedIsExact'
    BY RecordKept
  <1>2. LoopsMatchStep'
    BY DEF ReportInv, LoopsMatchStep, ValidOptions, AnalysisSteps, AdminSteps, TableSteps
  <1>3. TableMatchesLoop' /\ CompleteUnlessFailed'
    BY DEF TableMatchesLoop, CompleteUnlessFailed
  <1> QED
    BY <1>1, <1>2, <1>3 DEF ReportInv

LEMMA InitReportInv == Init => ReportInv
  <1> SUFFICES ASSUME Init PROVE ReportInv
    OBVIOUS
  <1>1. runs = <<>> /\ measurements = <<>> /\ step = "validate"
    BY DEF Init
  <1>2. RecordedIsExact
    BY <1>1 DEF RecordedIsExact, IsSequence
  <1> QED
    BY <1>1, <1>2 DEF ReportInv, LoopsMatchStep, TableMatchesLoop, CompleteUnlessFailed,
                      AnalysisSteps, AdminSteps, TableSteps, EndSteps

LEMMA BatchSizeType ==
    ASSUME CleanupInv, ReportInv, step \in {"reset", "insert"}
    PROVE  BatchSize \in Nat \ {0} /\ options.events \in Nat /\ options.runs \in Nat
  <1>1. /\ options.batches \in Seq(Nat \ {0}) /\ options \in Options
        /\ options.events > 0 /\ options.runs > 0
        /\ Len(measurements) < Len(options.batches)
    BY DEF CleanupInv, PerformanceTypeOK, ReportInv, LoopsMatchStep, ValidOptions, AdminSteps,
           TableSteps
  <1>2. Len(measurements) \in Nat
    BY DEF ReportInv, RecordedIsExact, IsSequence
  <1> QED
    BY <1>1, <1>2 DEF BatchSize, Options

\* validateOptions.
LEMMA ValidatedOptions ==
    ASSUME CleanupInv, Validate, ~OptionsInvalid(options)
    PROVE  ValidOptions'
  <1>1. options \in Options /\ options.batches \in Seq(Int)
    BY DEF CleanupInv, PerformanceTypeOK, Options
  <1>2. /\ options.events > 0 /\ options.runs > 0
        /\ \A i \in DOMAIN options.batches : options.batches[i] > 0
    BY <1>1 DEF OptionsInvalid, Options
  <1>3. options.batches \in Seq(Nat \ {0})
    BY <1>1, <1>2
  <1>4. options' = IF options.batches = <<>>
                   THEN [options EXCEPT !.batches = DefaultBatchSizes]
                   ELSE options
    BY DEF Validate
  <1>5. CASE options.batches = <<>>
    <2>1. options' = [options EXCEPT !.batches = DefaultBatchSizes]
      BY <1>4, <1>5
    <2>2. /\ options'.events = options.events /\ options'.runs = options.runs
          /\ options'.batches = DefaultBatchSizes
      BY <1>1, <2>1 DEF Options
    <2> QED
      BY <1>2, <2>2, PerformanceAssumption DEF ValidOptions
  <1>6. CASE options.batches # <<>>
    BY <1>2, <1>3, <1>4, <1>6 DEF ValidOptions
  <1> QED
    BY <1>5, <1>6

\* A run that is recorded inserted every event once, with the reported number
\* of operations.
LEMMA DoneIsExact ==
    ASSUME CleanupInv, ReportInv, step = "insert", start >= options.events, NEW d
    PROVE  LET done == Append(runs, [duration |-> d, calls |-> calls, rows |-> rows[target]])
           IN  /\ IsSequence(done) /\ Len(done) = Len(runs) + 1 /\ Len(runs) \in Nat
               /\ RunsExact(done, InsertOperations(options.events, BatchSize))
  <1> DEFINE run == [duration |-> d, calls |-> calls, rows |-> rows[target]]
             done == Append(runs, run)
             operations == InsertOperations(options.events, BatchSize)
  <1>1. target = "temp" /\ calls \in Nat /\ start \in Nat
    BY DEF CleanupInv, PerformanceTypeOK, ConnectionsMatchStep, TableSteps
  <1>2. BatchSize \in Nat \ {0} /\ options.events \in Nat
    BY BatchSizeType
  <1>3. /\ rows.temp = OneEach(SmallerOf(start, options.events))
        /\ start = calls * BatchSize /\ start < options.events + BatchSize
    BY DEF ReportInv, TableMatchesLoop
  <1>4. calls = operations
    BY <1>1, <1>2, <1>3, CallsAreOperations
  <1>5. SmallerOf(start, options.events) = options.events
    BY <1>1, <1>2 DEF SmallerOf
  <1>6. run.rows = OneEach(options.events) /\ run.calls = operations
    BY <1>1, <1>3, <1>4, <1>5
  <1>7. IsSequence(runs) /\ RunsExact(runs, operations)
    BY DEF ReportInv, RecordedIsExact, LoopsMatchStep
  <1> HIDE DEF run, operations
  <1>8. /\ IsSequence(done) /\ Len(done) = Len(runs) + 1 /\ Len(runs) \in Nat
        /\ \A i \in DOMAIN done : (i \in DOMAIN runs /\ done[i] = runs[i]) \/ done[i] = run
    BY <1>7, AppendIsSequence
  <1> HIDE DEF done
  <1>9. RunsExact(done, operations)
    BY <1>6, <1>7, <1>8 DEF RunsExact
  <1> QED
    BY <1>8, <1>9 DEF done, run, operations

\* The outcomes of a statement on the temporary table.
LEMMA OnTableOutcome ==
    ASSUME CleanupInv, NEW content, NEW next, step \in TableSteps, OnTable(content, next)
    PROVE  /\ options' = options
           /\ \/ step' = next /\ rows'.temp = content /\ failed' = failed
              \/ step' = "closeTemp" /\ failed' = TRUE
  <1>1. target = "temp" /\ rows \in [{"source", "temp"} -> [EventIds -> Int]]
    BY DEF CleanupInv, PerformanceTypeOK, ConnectionsMatchStep
  <1>2. CASE Succeeds(cancelled, next) /\ rows' = [rows EXCEPT ![target] = content]
    <2>1. rows'.temp = content
      BY <1>1, <1>2
    <2> QED
      BY <1>2, <2>1 DEF Succeeds, OnTable
  <1>3. CASE Fails(cancelled, "closeTemp")
    BY <1>3 DEF Fails, OnTable
  <1> QED
    BY <1>2, <1>3 DEF OnTable

\* runner.run records a run.
LEMMA RunDoneReport ==
    ASSUME CleanupInv, ReportInv, RunDone
    PROVE  ReportInv'
  <1>1. step = "insert" /\ start >= options.events /\ UNCHANGED <<options, rows, failed>>
    BY DEF RunDone
  <1>2. PICK d \in Durations :
          LET done == Append(runs, [duration |-> d, calls |-> calls, rows |-> rows[target]])
          IN  \/ /\ Len(done) < options.runs
                 /\ runs' = done
                 /\ step' = "reset"
                 /\ UNCHANGED measurements
              \/ /\ Len(done) = options.runs
                 /\ runs' = <<>>
                 /\ measurements' =
                      Append(measurements,
                        [insertOperations |-> InsertOperations(options.events, BatchSize),
                         twiceMedian |-> Median(done), runs |-> done])
                 /\ step' = IF Len(measurements') = Len(options.batches)
                            THEN "analysisReset" ELSE "reset"
    BY DEF RunDone
  <1> DEFINE done == Append(runs, [duration |-> d, calls |-> calls, rows |-> rows[target]])
             operations == InsertOperations(options.events, BatchSize)
             entry == [insertOperations |-> operations, twiceMedian |-> Median(done),
                       runs |-> done]
  <1>3. /\ IsSequence(done) /\ Len(done) = Len(runs) + 1 /\ Len(runs) \in Nat
        /\ RunsExact(done, operations)
    BY <1>1, DoneIsExact
  <1>4. /\ IsSequence(measurements) /\ ValidOptions
        /\ Len(measurements) < Len(options.batches)
        /\ \A i \in DOMAIN measurements :
             /\ Len(measurements[i].runs) = options.runs
             /\ RunsExact(measurements[i].runs, measurements[i].insertOperations)
    BY <1>1 DEF ReportInv, RecordedIsExact, LoopsMatchStep, AdminSteps, TableSteps
  <1>5. options.runs \in Nat /\ options.batches \in Seq(Nat \ {0})
    BY <1>1, <1>4, BatchSizeType DEF ValidOptions
  <1>6. CASE /\ Len(done) < options.runs /\ runs' = done /\ step' = "reset"
             /\ UNCHANGED measurements
    <2> HIDE DEF done
    <2>1. RecordedIsExact'
      <3>1. IsSequence(runs') /\ IsSequence(measurements') /\ options' = options
        BY <1>1, <1>3, <1>4, <1>6
      <3>2. \A i \in DOMAIN measurements' :
              /\ Len(measurements'[i].runs) = options.runs
              /\ RunsExact(measurements'[i].runs, measurements'[i].insertOperations)
        BY <1>4, <1>6
      <3> QED
        BY <3>1, <3>2 DEF RecordedIsExact, RunsExact, OneEach, IsSequence
    <2>2. RunsExact(runs, operations)'
      BY <1>1, <1>3, <1>6 DEF RunsExact, OneEach, InsertOperations, BatchSize
    <2>3. LoopsMatchStep'
      BY <1>1, <1>4, <1>6, <2>2 DEF LoopsMatchStep, ValidOptions, AnalysisSteps
    <2> QED
      BY <1>6, <2>1, <2>3
      DEF ReportInv, TableMatchesLoop, CompleteUnlessFailed, EndSteps
  <1>7. CASE /\ Len(done) = options.runs /\ runs' = <<>>
             /\ measurements' = Append(measurements, entry)
             /\ step' = IF Len(measurements') = Len(options.batches)
                        THEN "analysisReset" ELSE "reset"
    <2>1. entry.insertOperations = operations /\ entry.runs = done
      OBVIOUS
    <2> HIDE DEF done, entry, operations
    <2>2. /\ IsSequence(measurements') /\ Len(measurements') = Len(measurements) + 1
          /\ Len(measurements) \in Nat
          /\ \A i \in DOMAIN measurements' :
               \/ i \in DOMAIN measurements /\ measurements'[i] = measurements[i]
               \/ measurements'[i] = entry
      BY <1>4, <1>7, AppendIsSequence
    <2>3. \A i \in DOMAIN measurements' :
            /\ Len(measurements'[i].runs) = options.runs
            /\ RunsExact(measurements'[i].runs, measurements'[i].insertOperations)
      BY <1>3, <1>4, <1>7, <2>1, <2>2
    <2>4. IsSequence(runs)' /\ Len(runs') = 0
      BY <1>7 DEF IsSequence
    <2>5. RecordedIsExact'
      BY <1>1, <2>2, <2>3, <2>4 DEF RecordedIsExact, RunsExact, OneEach, IsSequence
    <2>6. \A n : RunsExact(runs, n)'
      BY <1>7 DEF RunsExact
    <2>7. CASE Len(measurements') = Len(options.batches)
      <3>1. step' = "analysisReset"
        BY <1>7, <2>7
      <3>2. LoopsMatchStep'
        BY <1>1, <1>4, <2>7, <3>1 DEF LoopsMatchStep, ValidOptions
      <3> QED
        BY <2>5, <3>1, <3>2 DEF ReportInv, TableMatchesLoop, CompleteUnlessFailed, EndSteps
    <2>8. CASE Len(measurements') # Len(options.batches)
      <3>1. step' = "reset"
        BY <1>7, <2>8
      <3>2. Len(measurements') < Len(options.batches) /\ options.runs > 0
        BY <1>4, <1>5, <2>2, <2>8 DEF ValidOptions
      <3>3. LoopsMatchStep'
        BY <1>1, <1>4, <2>4, <2>6, <3>1, <3>2 DEF LoopsMatchStep, ValidOptions, AnalysisSteps
      <3> QED
        BY <2>5, <3>1, <3>3 DEF ReportInv, TableMatchesLoop, CompleteUnlessFailed, EndSteps
    <2> QED
      BY <2>7, <2>8
  <1> QED
    BY <1>2, <1>6, <1>7

LEMMA NextReportInv == CleanupInv /\ ReportInv /\ [Next]_vars => ReportInv'
  <1> SUFFICES ASSUME CleanupInv, ReportInv, [Next]_vars PROVE ReportInv'
    OBVIOUS
  <1> USE DEF AnalysisSteps, AdminSteps, TableSteps, EndSteps, loopVars
  <1>1. CASE Validate
    <2>1. /\ step = "validate" /\ UNCHANGED <<runs, measurements>>
          /\ runs = <<>> /\ measurements = <<>>
      BY <1>1 DEF Validate, ReportInv, LoopsMatchStep
    <2>2. RecordedIsExact'
      BY <2>1 DEF ReportInv, RecordedIsExact, IsSequence
    <2>3. CASE OptionsInvalid(options)
      <3>1. step' = "returned" /\ failed' = TRUE
        BY <1>1, <2>3 DEF Validate
      <3> QED
        BY <2>2, <3>1 DEF ReportInv, LoopsMatchStep, TableMatchesLoop, CompleteUnlessFailed
    <2>4. CASE ~OptionsInvalid(options)
      <3>1. step' = "openAdmin"
        BY <1>1, <2>4 DEF Validate
      <3>2. ValidOptions'
        BY <1>1, <2>4, ValidatedOptions
      <3> QED
        BY <2>1, <2>2, <3>1, <3>2
        DEF ReportInv, LoopsMatchStep, TableMatchesLoop, CompleteUnlessFailed
    <2> QED
      BY <2>3, <2>4
  <1>2. CASE OpenAdmin \/ CreateDatabase \/ CloneTable \/ OpenTemp
    <2>1. /\ step \in {"openAdmin", "create", "clone", "open"}
          /\ UNCHANGED <<options, runs, measurements>>
          /\ \/ step' \in {"create", "clone", "open", "warmUp"} /\ failed' = failed
             \/ step' \in {"returned", "closeAdmin", "drop"} /\ failed' = TRUE
      BY <1>2 DEF OpenAdmin, CreateDatabase, CloneTable, OpenTemp, Succeeds, Fails
    <2>2. CASE step' \in {"create", "clone", "open", "warmUp"}
      <3>1. runs' = <<>> /\ measurements' = <<>> /\ ValidOptions'
        BY <2>1 DEF ReportInv, LoopsMatchStep, ValidOptions
      <3> QED
        BY <2>1, <2>2, <3>1, RecordKept
        DEF ReportInv, LoopsMatchStep, TableMatchesLoop, CompleteUnlessFailed
    <2> QED
      BY <2>1, <2>2, UnwindKeepsReport
  <1>3. CASE WarmUp \/ WarmUpReset
    <2>1. /\ step \in {"warmUp", "warmUpReset"} /\ UNCHANGED <<options, runs, measurements>>
          /\ \/ step' \in {"warmUpReset", "reset"}
             \/ step' = "closeTemp" /\ failed' = TRUE
      BY <1>3, OnTableOutcome DEF WarmUp, WarmUpReset
    <2>2. CASE step' \in {"warmUpReset", "reset"}
      <3>1. runs' = <<>> /\ measurements' = <<>> /\ ValidOptions /\ ValidOptions'
        BY <2>1 DEF ReportInv, LoopsMatchStep, ValidOptions
      <3>2. /\ Len(measurements') < Len(options'.batches) /\ Len(runs') < options'.runs
            /\ \A n : RunsExact(runs, n)'
        BY <2>1, <3>1 DEF ValidOptions, RunsExact
      <3> QED
        BY <2>1, <2>2, <3>1, <3>2, RecordKept
        DEF ReportInv, LoopsMatchStep, TableMatchesLoop, CompleteUnlessFailed
    <2> QED
      BY <2>1, <2>2, UnwindKeepsReport
  <1>4. CASE Reset
    <2>1. /\ step = "reset" /\ UNCHANGED <<options, runs, measurements>>
          /\ start' = 0 /\ calls' = 0
          /\ \/ step' = "insert" /\ rows'.temp = NoRows
             \/ step' = "closeTemp" /\ failed' = TRUE
      BY <1>4, OnTableOutcome DEF Reset, Truncated
    <2>2. CASE step' = "insert" /\ rows'.temp = NoRows
      <3>1. BatchSize \in Nat \ {0} /\ options.events \in Nat /\ BatchSize' = BatchSize
        BY <2>1, BatchSizeType DEF BatchSize
      <3>2. LoopsMatchStep'
        BY <2>1, <2>2, <3>1
        DEF ReportInv, LoopsMatchStep, ValidOptions, RunsExact, OneEach, InsertOperations
      <3>3. NoRows = OneEach(SmallerOf(0, options.events))
        BY <3>1, EventIdsAreIntegers, EventIdsArePositive DEF NoRows, OneEach, SmallerOf
      <3>4. /\ OneEach(SmallerOf(0, options.events))
                 = OneEach(SmallerOf(start', options'.events))
            /\ start' = calls' * BatchSize /\ start' < options'.events + BatchSize
        BY <2>1, <3>1
      <3>5. TableMatchesLoop'
        BY <2>2, <3>1, <3>3, <3>4 DEF TableMatchesLoop, OneEach, SmallerOf
      <3> QED
        BY <2>1, <2>2, <3>2, <3>5, RecordKept DEF ReportInv, CompleteUnlessFailed
    <2> QED
      BY <2>1, <2>2, UnwindKeepsReport
  <1>5. CASE InsertNext
    <2> DEFINE end == SmallerOf(start + BatchSize, options.events)
    <2>1. /\ step = "insert" /\ UNCHANGED <<options, runs, measurements>>
          /\ start < options.events
          /\ start' = start + BatchSize /\ calls' = calls + 1
          /\ \/ step' = "insert" /\ rows'.temp = Inserted(start, end)
             \/ step' = "closeTemp" /\ failed' = TRUE
      BY <1>5, OnTableOutcome DEF InsertNext
    <2>2. CASE step' = "insert" /\ rows'.temp = Inserted(start, end)
      <3>1. /\ BatchSize \in Nat \ {0} /\ options.events \in Nat /\ BatchSize' = BatchSize
            /\ start \in Nat /\ calls \in Nat /\ target = "temp"
        BY <2>1, BatchSizeType
        DEF BatchSize, CleanupInv, PerformanceTypeOK, ConnectionsMatchStep
      <3>2. LoopsMatchStep'
        BY <2>1, <2>2, <3>1
        DEF ReportInv, LoopsMatchStep, ValidOptions, RunsExact, OneEach, InsertOperations
      <3>3. /\ rows[target] = OneEach(SmallerOf(start, options.events))
            /\ start = calls * BatchSize
        BY <2>1, <3>1 DEF ReportInv, TableMatchesLoop
      <3>4. Inserted(start, end) = OneEach(end)
        BY <2>1, <3>1, <3>3, InsertedIsPrefix
      <3>5. (calls + 1) * BatchSize = calls * BatchSize + BatchSize
        BY <3>1
      <3>6. start' = calls' * BatchSize /\ start' < options.events + BatchSize
        BY <2>1, <3>1, <3>3, <3>5
      <3>7. TableMatchesLoop'
        BY <2>1, <2>2, <3>1, <3>4, <3>6 DEF TableMatchesLoop, OneEach, SmallerOf
      <3> QED
        BY <2>1, <2>2, <3>2, <3>7, RecordKept DEF ReportInv, CompleteUnlessFailed
    <2> QED
      BY <2>1, <2>2, UnwindKeepsReport
  <1>6. CASE RunDone
    BY <1>6, RunDoneReport
  <1>7. CASE AnalysisReset \/ AnalysisInsert \/ Optimize
    <2>1. /\ step \in {"analysisReset", "analysisInsert"}
          /\ UNCHANGED <<options, runs, measurements>>
          /\ step' \in {"analysisInsert", "analyze"} \/ (step' = "closeTemp" /\ failed' = TRUE)
      BY <1>7, OnTableOutcome DEF AnalysisReset, AnalysisInsert, Optimize
    <2>2. CASE step' \in {"analysisInsert", "analyze"}
      <3>1. LoopsMatchStep'
        BY <2>1, <2>2 DEF ReportInv, LoopsMatchStep, ValidOptions
      <3>2. start \in Nat /\ target = "temp"
        BY <2>1 DEF CleanupInv, PerformanceTypeOK, ConnectionsMatchStep
      <3>3. ASSUME AnalysisReset PROVE TableMatchesLoop'
        <4>1. start' = 0 /\ step' = "analysisInsert" /\ rows'.temp = NoRows
          BY <2>2, <3>3, OnTableOutcome DEF AnalysisReset, Truncated
        <4>2. NoRows = OneEach(SmallerOf(0, AnalysisEvents))
          BY EventIdsAreIntegers, EventIdsArePositive, PerformanceAssumption
          DEF NoRows, OneEach, SmallerOf
        <4> QED
          BY <4>1, <4>2 DEF TableMatchesLoop, OneEach, SmallerOf
      <3>4. ASSUME AnalysisInsert PROVE TableMatchesLoop'
        <4> DEFINE end == SmallerOf(start + AnalysisBatch, AnalysisEvents)
        <4>1. /\ start' = start + AnalysisBatch /\ step' = "analysisInsert"
              /\ rows'.temp = Inserted(start, end) /\ start < AnalysisEvents
              /\ step = "analysisInsert"
          BY <2>2, <3>4, OnTableOutcome DEF AnalysisInsert
        <4>2. rows[target] = OneEach(SmallerOf(start, AnalysisEvents))
          BY <3>2, <4>1 DEF ReportInv, TableMatchesLoop
        <4>3. Inserted(start, end) = OneEach(end)
          <5>1. AnalysisEvents \in Int /\ AnalysisBatch \in Nat
            BY PerformanceAssumption
          <5> QED
            BY <3>2, <4>1, <4>2, <5>1, InsertedIsPrefix
        <4> QED
          BY <4>1, <4>3 DEF TableMatchesLoop, OneEach, SmallerOf
      <3>5. ASSUME Optimize PROVE TableMatchesLoop'
        <4>1. /\ step = "analysisInsert" /\ start >= AnalysisEvents /\ step' = "analyze"
              /\ rows'.temp = rows[target]
          BY <2>2, <3>5, OnTableOutcome DEF Optimize
        <4>2. rows[target] = OneEach(SmallerOf(start, AnalysisEvents))
          BY <3>2, <4>1 DEF ReportInv, TableMatchesLoop
        <4>3. SmallerOf(start, AnalysisEvents) = AnalysisEvents
          BY <3>2, <4>1, PerformanceAssumption DEF SmallerOf
        <4> QED
          BY <4>1, <4>2, <4>3 DEF TableMatchesLoop, OneEach
      <3>6. TableMatchesLoop'
        BY <1>7, <3>3, <3>4, <3>5
      <3> QED
        BY <2>1, <2>2, <3>1, <3>6, RecordKept DEF ReportInv, CompleteUnlessFailed
    <2> QED
      BY <2>1, <2>2, UnwindKeepsReport
  <1>8. CASE Analyze
    <2>1. /\ step = "analyze" /\ step' = "closeTemp"
          /\ UNCHANGED <<options, runs, measurements>>
          /\ analysis' = rows[target] \/ failed' = TRUE
      BY <1>8 DEF Analyze, Succeeds, Fails
    <2>2. CASE analysis' = rows[target]
      <3>1. rows[target] = OneEach(AnalysisEvents)
        BY <2>1 DEF CleanupInv, ConnectionsMatchStep, ReportInv, TableMatchesLoop
      <3> QED
        BY <2>1, <2>2, <3>1, RecordKept
        DEF ReportInv, LoopsMatchStep, ValidOptions, TableMatchesLoop, CompleteUnlessFailed,
            OneEach
    <2> QED
      BY <2>1, <2>2, UnwindKeepsReport
  <1>9. CASE CloseTemp \/ Drop \/ CloseAdmin \/ Exit
    <2>1. /\ step \in {"closeTemp", "drop", "closeAdmin", "returned"}
          /\ step' \in {"drop", "closeAdmin", "returned", "exited"}
          /\ step' \in {"drop", "closeAdmin"} => step \in {"closeTemp", "drop"}
          /\ failed' = failed \/ failed' = TRUE
          /\ UNCHANGED <<options, runs, measurements, analysis>>
      BY <1>9 DEF CloseTemp, Drop, CloseAdmin, Exit, Succeeds, Fails, DropErrorJoined
    <2>2. LoopsMatchStep'
      BY <2>1 DEF ReportInv, LoopsMatchStep, ValidOptions
    <2>3. CompleteUnlessFailed'
      BY <2>1 DEF ReportInv, CompleteUnlessFailed, OneEach
    <2> QED
      BY <2>1, <2>2, <2>3, RecordKept DEF ReportInv, TableMatchesLoop
  <1>10. CASE Cancel \/ UNCHANGED vars
    <2>1. UNCHANGED <<step, options, failed, rows, start, calls, runs, measurements, analysis>>
      BY <1>10 DEF Cancel, vars
    <2>2. LoopsMatchStep'
      BY <2>1 DEF ReportInv, LoopsMatchStep, ValidOptions, RunsExact, OneEach,
                  InsertOperations, BatchSize
    <2>3. TableMatchesLoop' /\ CompleteUnlessFailed'
      BY <2>1 DEF ReportInv, TableMatchesLoop, CompleteUnlessFailed, OneEach, SmallerOf,
                  BatchSize
    <2> QED
      BY <2>1, <2>2, <2>3, RecordKept DEF ReportInv
  <1> QED
    BY <1>1, <1>2, <1>3, <1>4, <1>5, <1>6, <1>7, <1>8, <1>9, <1>10 DEF Next, Command

LEMMA PerformanceInvariant == Spec => [](CleanupInv /\ ReportInv)
  <1>1. CleanupInv /\ ReportInv /\ [Next]_vars => CleanupInv'
    BY NextCleanupInv, BatchSizeType
  <1> QED
    BY <1>1, InitCleanupInv, InitReportInv, NextReportInv, PTL DEF Spec

-----------------------------------------------------------------------------
(* The median. *)

\* A sequence of runs, each with its duration.
Timed(list) ==
    /\ IsSequence(list)
    /\ \A k \in DOMAIN list : list[k].duration \in Nat

\* Every measurement holds the median of its own runs.
MediansBelong ==
    /\ Timed(runs)
    /\ IsSequence(measurements)
    /\ \A i \in DOMAIN measurements :
         /\ Timed(measurements[i].runs)
         /\ measurements[i].twiceMedian = Median(measurements[i].runs)

LEMMA InitMediansBelong == Init => MediansBelong
  BY DEF Init, MediansBelong, Timed, IsSequence

\* Only the end of a run changes what is recorded.
LEMMA OnlyRunDoneRecords ==
    ASSUME [Next]_vars, ~RunDone
    PROVE  UNCHANGED <<runs, measurements>>
  <1> USE DEF loopVars
  <1>1. CASE Validate \/ OpenAdmin \/ CreateDatabase \/ CloneTable \/ OpenTemp
    BY <1>1 DEF Validate, OpenAdmin, CreateDatabase, CloneTable, OpenTemp
  <1>2. CASE WarmUp \/ WarmUpReset \/ Reset \/ InsertNext
    BY <1>2 DEF WarmUp, WarmUpReset, Reset, InsertNext
  <1>3. CASE AnalysisReset \/ AnalysisInsert \/ Optimize \/ Analyze
    BY <1>3 DEF AnalysisReset, AnalysisInsert, Optimize, Analyze
  <1>4. CASE CloseTemp \/ Drop \/ CloseAdmin \/ Exit \/ Cancel
    BY <1>4 DEF CloseTemp, Drop, CloseAdmin, Exit, Cancel
  <1>5. CASE UNCHANGED vars
    BY <1>5 DEF vars
  <1> QED
    BY <1>1, <1>2, <1>3, <1>4, <1>5 DEF Next, Command

LEMMA NextMediansBelong == MediansBelong /\ [Next]_vars => MediansBelong'
  <1> SUFFICES ASSUME MediansBelong, [Next]_vars PROVE MediansBelong'
    OBVIOUS
  <1>1. CASE UNCHANGED <<runs, measurements>>
    <2>1. Timed(runs') /\ IsSequence(measurements')
      BY <1>1 DEF MediansBelong
    <2>2. \A i \in DOMAIN measurements' :
            /\ Timed(measurements'[i].runs)
            /\ measurements'[i].twiceMedian = Median(measurements'[i].runs)
      BY <1>1 DEF MediansBelong
    <2> QED
      BY <2>1, <2>2 DEF MediansBelong, Timed, IsSequence
  <1>2. CASE RunDone
    <2>1. PICK d \in Durations :
            LET done == Append(runs, [duration |-> d, calls |-> calls, rows |-> rows[target]])
            IN  \/ runs' = done /\ UNCHANGED measurements
                \/ /\ runs' = <<>>
                   /\ measurements' =
                        Append(measurements,
                          [insertOperations |-> InsertOperations(options.events, BatchSize),
                           twiceMedian |-> Median(done), runs |-> done])
      BY <1>2 DEF RunDone
    <2> DEFINE last == [duration |-> d, calls |-> calls, rows |-> rows[target]]
               done == Append(runs, last)
               entry == [insertOperations |-> InsertOperations(options.events, BatchSize),
                         twiceMedian |-> Median(done), runs |-> done]
    <2>2. last.duration \in Nat
      BY PerformanceAssumption
    <2>3. Timed(done)
      <3> HIDE DEF last
      <3> QED
        BY <2>2, AppendIsSequence DEF MediansBelong, Timed
    <2>4. entry.runs = done /\ entry.twiceMedian = Median(done)
      OBVIOUS
    <2> HIDE DEF done, entry
    <2>5. CASE runs' = done /\ UNCHANGED measurements
      <3>1. Timed(runs') /\ IsSequence(measurements')
        BY <2>3, <2>5 DEF MediansBelong
      <3>2. \A i \in DOMAIN measurements' :
              /\ Timed(measurements'[i].runs)
              /\ measurements'[i].twiceMedian = Median(measurements'[i].runs)
        BY <2>5 DEF MediansBelong
      <3> QED
        BY <3>1, <3>2 DEF MediansBelong, Timed, IsSequence
    <2>6. CASE runs' = <<>> /\ measurements' = Append(measurements, entry)
      <3>1. Timed(runs')
        BY <2>6 DEF Timed, IsSequence
      <3>2. /\ IsSequence(measurements')
            /\ \A i \in DOMAIN measurements' :
                 \/ i \in DOMAIN measurements /\ measurements'[i] = measurements[i]
                 \/ measurements'[i] = entry
        BY <2>6, AppendIsSequence DEF MediansBelong
      <3>3. \A i \in DOMAIN measurements' :
              /\ Timed(measurements'[i].runs)
              /\ measurements'[i].twiceMedian = Median(measurements'[i].runs)
        BY <2>3, <2>4, <3>2 DEF MediansBelong
      <3> QED
        BY <3>1, <3>2, <3>3 DEF MediansBelong, Timed, IsSequence
    <2> QED
      BY <2>1, <2>5, <2>6 DEF done, entry
  <1> QED
    BY <1>1, <1>2, OnlyRunDoneRecords

\* Shorter orders the runs of a list.
LEMMA ShorterIsOrder ==
    ASSUME NEW list, Timed(list)
    PROVE  IsStrictTotalOrder(Shorter(list), DOMAIN list)
  <1>1. DOMAIN list \subseteq Nat
    BY DEF Timed, IsSequence
  <1>2. \A j, k \in DOMAIN list :
          <<j, k>> \in Shorter(list) <=>
            \/ list[j].duration < list[k].duration
            \/ list[j].duration = list[k].duration /\ j < k
    BY DEF Shorter
  <1>3. \A j \in DOMAIN list : <<j, j>> \notin Shorter(list)
    BY <1>1, <1>2 DEF Timed
  <1>4. ASSUME NEW j \in DOMAIN list, NEW k \in DOMAIN list, NEW m \in DOMAIN list,
               <<j, k>> \in Shorter(list), <<k, m>> \in Shorter(list)
        PROVE  <<j, m>> \in Shorter(list)
    BY <1>1, <1>2, <1>4 DEF Timed
  <1>5. ASSUME NEW j \in DOMAIN list, NEW k \in DOMAIN list, j # k
        PROVE  <<j, k>> \in Shorter(list) \/ <<k, j>> \in Shorter(list)
    BY <1>1, <1>2, <1>5 DEF Timed
  <1> QED
    BY <1>3, <1>4, <1>5 DEF IsStrictTotalOrder

\* The run at place p of the sorted runs has p runs that are not longer and all
\* but p - 1 that are not shorter.
LEMMA PlaceSplitsRuns ==
    ASSUME NEW list, Timed(list), NEW p \in 1 .. Len(list)
    PROVE  LET x == InOrder(DOMAIN list, Shorter(list))[p]
               d == list[x].duration
               low == {k \in DOMAIN list : list[k].duration <= d}
               high == {k \in DOMAIN list : list[k].duration >= d}
           IN  /\ x \in DOMAIN list
               /\ IsFiniteSet(low) /\ IsFiniteSet(high)
               /\ Cardinality(low) >= p
               /\ Cardinality(high) >= Len(list) - p + 1
  <1> DEFINE S == DOMAIN list
             before == Shorter(list)
             x == InOrder(S, before)[p]
             d == list[x].duration
             low == {k \in S : list[k].duration <= d}
             high == {k \in S : list[k].duration >= d}
             ahead == Ahead(S, before, x)
  <1>1. S = 1 .. Len(list) /\ Len(list) \in Nat
    BY DEF Timed, IsSequence
  <1>2. IsFiniteSet(S) /\ Cardinality(S) = Len(list)
    BY <1>1, FS_Interval
  <1>3. x \in S /\ Cardinality(ahead) = p - 1
    <2>1. IsStrictTotalOrder(before, S) /\ p \in 1 .. Cardinality(S)
      BY <1>2, ShorterIsOrder
    <2> HIDE DEF S, before
    <2> QED
      BY <1>2, <2>1, InOrderSorts
  <1> HIDE DEF x
  <1>4. \A k \in ahead : k \in S /\ list[k].duration <= d
    BY <1>3 DEF Ahead, Shorter, Timed
  <1>5. \A k \in S \ ahead : list[k].duration >= d
    BY <1>3 DEF Ahead, Shorter, Timed
  <1>6. x \notin ahead
    BY <1>3, ShorterIsOrder DEF Ahead, IsStrictTotalOrder
  <1>7. ahead \in SUBSET S
    BY DEF Ahead
  <1> HIDE DEF ahead
  <1>8. IsFiniteSet(ahead)
    BY <1>2, <1>7, FS_Subset
  <1>9. IsFiniteSet(low) /\ IsFiniteSet(high)
    BY <1>2, FS_Subset
  <1>10. Cardinality(low) >= p
    <2>1. Cardinality(ahead \cup {x}) = p
      BY <1>3, <1>6, <1>8, FS_AddElement
    <2>2. ahead \cup {x} \in SUBSET low
      BY <1>3, <1>4, <1>6 DEF Timed
    <2>3. Cardinality(ahead \cup {x}) <= Cardinality(low)
      <3> HIDE DEF low
      <3> QED
        BY <1>9, <2>2, FS_Subset
    <2> HIDE DEF low
    <2>4. Cardinality(low) \in Nat
      BY <1>9, FS_CardinalityType
    <2> QED
      BY <2>1, <2>3, <2>4
  <1>11. Cardinality(high) >= Len(list) - p + 1
    <2>1. S \cap ahead = ahead
      BY <1>7
    <2>2. Cardinality(S \ ahead) = Cardinality(S) - Cardinality(ahead)
      <3>1. Cardinality(S \ ahead) = Cardinality(S) - Cardinality(S \cap ahead)
        BY <1>2, FS_Difference
      <3> QED
        BY <2>1, <3>1
    <2>3. S \ ahead \in SUBSET high
      BY <1>5
    <2> HIDE DEF high
    <2>4. Cardinality(S \ ahead) <= Cardinality(high) /\ Cardinality(high) \in Nat
      BY <1>9, <2>3, FS_Subset, FS_CardinalityType
    <2> QED
      BY <1>1, <1>2, <1>3, <2>2, <2>4
  <1> QED
    BY <1>3, <1>9, <1>10, <1>11 DEF x

\* The middle of a list, for odd and even lengths.
LEMMA Halves ==
    ASSUME NEW n \in Nat
    PROVE  /\ n \div 2 \in Nat
           /\ n % 2 = 1 => 2 * (n \div 2) + 1 = n
           /\ n % 2 # 1 => 2 * (n \div 2) = n
  OBVIOUS

\* Half of the runs of a list are not above its median, half not below.
LEMMA MedianSplitsRuns ==
    ASSUME NEW list, Timed(list)
    PROVE  LET low == {k \in DOMAIN list : 2 * list[k].duration <= Median(list)}
               high == {k \in DOMAIN list : 2 * list[k].duration >= Median(list)}
           IN  2 * Cardinality(low) >= Len(list) /\ 2 * Cardinality(high) >= Len(list)
  <1> DEFINE n == Len(list)
             order == InOrder(DOMAIN list, Shorter(list))
             D(p) == list[order[p]].duration
             Low(v) == {k \in DOMAIN list : 2 * list[k].duration <= v}
             High(v) == {k \in DOMAIN list : 2 * list[k].duration >= v}
             middle == n \div 2 + 1
  <1>1. n \in Nat /\ DOMAIN list = 1 .. n
    BY DEF Timed, IsSequence
  <1>2. IsFiniteSet(DOMAIN list) /\ Cardinality(DOMAIN list) = n
    <2> HIDE DEF n
    <2> QED
      BY <1>1, FS_Interval
  <1>3. \A v : IsFiniteSet(Low(v)) /\ IsFiniteSet(High(v))
    BY <1>2, FS_Subset
  <1>4. \A v : Cardinality(Low(v)) \in Nat /\ Cardinality(High(v)) \in Nat
    BY <1>3, FS_CardinalityType
  <1>5. ASSUME NEW p \in 1 .. n
        PROVE  /\ D(p) \in Nat
               /\ Cardinality(Low(2 * D(p))) >= p
               /\ Cardinality(High(2 * D(p))) >= n - p + 1
    <2>1. order[p] \in DOMAIN list
      BY PlaceSplitsRuns
    <2>2. D(p) \in Nat
      BY <2>1 DEF Timed
    <2> HIDE DEF D
    <2>3. /\ Low(2 * D(p)) = {k \in DOMAIN list : list[k].duration <= D(p)}
          /\ High(2 * D(p)) = {k \in DOMAIN list : list[k].duration >= D(p)}
      BY <2>2 DEF Timed
    <2> HIDE DEF Low, High
    <2>4. /\ Cardinality({k \in DOMAIN list : list[k].duration <= D(p)}) >= p
          /\ Cardinality({k \in DOMAIN list : list[k].duration >= D(p)}) >= n - p + 1
      BY PlaceSplitsRuns DEF D
    <2> QED
      BY <2>2, <2>3, <2>4
  <1>6. ASSUME n # 0
        PROVE  Median(list) = IF n % 2 = 1 THEN 2 * D(middle)
                                           ELSE D(middle - 1) + D(middle)
    <2> DEFINE sorted == [i \in 1 .. n |-> D(i)]
    <2>1. middle \in 1 .. n /\ (n % 2 # 1 => middle - 1 \in 1 .. n)
      <3> HIDE DEF n
      <3> QED
        BY <1>1, <1>6, Halves
    <2>2. Len(sorted) = n /\ Median(list) = TwiceMedian(sorted)
      BY <1>1 DEF Median
    <2>3. \A i \in 1 .. n : sorted[i] = D(i)
      OBVIOUS
    <2> HIDE DEF n, D, sorted
    <2> QED
      BY <2>1, <2>2, <2>3 DEF TwiceMedian
  <1>7. CASE n = 0
    BY <1>4, <1>7
  <1>8. CASE n % 2 = 1
    <2>1. middle \in 1 .. n /\ 2 * middle = n + 1
      <3> HIDE DEF n
      <3> QED
        BY <1>1, <1>8, Halves
    <2>2. Median(list) = 2 * D(middle)
      BY <1>1, <1>6, <1>8, <2>1
    <2>3. Cardinality(Low(2 * D(middle))) >= middle
          /\ Cardinality(High(2 * D(middle))) >= n - middle + 1
      BY <1>5, <2>1
    <2> HIDE DEF D, Low, High, middle
    <2>4. /\ 2 * Cardinality(Low(Median(list))) >= n
          /\ 2 * Cardinality(High(Median(list))) >= n
      BY <1>1, <1>4, <2>1, <2>2, <2>3
    <2> QED
      BY <2>4 DEF Low, High
  <1>9. CASE n % 2 # 1 /\ n # 0
    <2>1. /\ middle \in 1 .. n /\ middle - 1 \in 1 .. n
          /\ 2 * (middle - 1) = n /\ middle - 1 < middle
      <3> HIDE DEF n
      <3> QED
        BY <1>1, <1>9, Halves
    <2>2. Median(list) = D(middle - 1) + D(middle)
      <3> HIDE DEF n, D, middle
      <3> QED
        BY <1>6, <1>9
    <2>3. /\ D(middle - 1) \in Nat /\ D(middle) \in Nat
          /\ Cardinality(Low(2 * D(middle - 1))) >= middle - 1
          /\ Cardinality(High(2 * D(middle))) >= n - middle + 1
      BY <1>5, <2>1
    <2>4. <<order[middle - 1], order[middle]>> \in Shorter(list)
      <3> HIDE DEF middle
      <3> QED
        BY <1>1, <1>2, <2>1, ShorterIsOrder, InOrderSorts
    <2>5. D(middle - 1) <= D(middle)
      <3>1. \/ list[order[middle - 1]].duration < list[order[middle]].duration
            \/ list[order[middle - 1]].duration = list[order[middle]].duration
        <4> HIDE DEF order, middle
        <4> QED
          BY <2>4 DEF Shorter
      <3>2. D(middle - 1) < D(middle) \/ D(middle - 1) = D(middle)
        BY <3>1
      <3> HIDE DEF D
      <3> QED
        BY <2>3, <3>2
    <2> HIDE DEF D, middle
    <2>6. /\ Low(2 * D(middle - 1)) \in SUBSET Low(Median(list))
          /\ High(2 * D(middle)) \in SUBSET High(Median(list))
      BY <2>2, <2>3, <2>5 DEF Timed
    <2> HIDE DEF Low, High
    <2>7. /\ Cardinality(Low(2 * D(middle - 1))) <= Cardinality(Low(Median(list)))
          /\ Cardinality(High(2 * D(middle))) <= Cardinality(High(Median(list)))
      BY <1>3, <2>6, FS_Subset
    <2>8. /\ 2 * Cardinality(Low(Median(list))) >= n
          /\ 2 * Cardinality(High(Median(list))) >= n
      <3> HIDE DEF n
      <3> QED
        BY <1>1, <1>4, <2>1, <2>3, <2>7
    <2> QED
      BY <2>8 DEF Low, High
  <1> QED
    BY <1>7, <1>8, <1>9

-----------------------------------------------------------------------------
\* For any options and any failures, Measure never changes the source table:
\* TRUNCATE and INSERT run on the connection to the temporary database only.
THEOREM SourceSafe == Spec => []SourceUntouched
  BY PerformanceInvariant, PTL DEF CleanupInv

\* However often the server fails and whenever the signal comes: a database
\* whose CREATE was confirmed is gone when Measure returns, unless the server
\* failed, because the DROP has a context of its own.
THEOREM CancelledRunsCleanUp == Spec => []CancelledRunIsCleanedUp
  <1>1. CleanupInv => CancelledRunIsCleanedUp
    BY DEF CleanupInv, DatabaseMatchesStep, CancelledRunIsCleanedUp, EndSteps
  <1> QED
    BY <1>1, PerformanceInvariant, PTL

\* A database that is left behind shows as an error, and both connections are
\* closed, for any failures.
THEOREM NothingIsHidden == Spec => []SuccessLeavesNothing
  <1>1. CleanupInv => SuccessLeavesNothing
    BY DEF CleanupInv, PerformanceTypeOK, ConnectionsMatchStep, ErrorsMatchStep,
           DatabaseMatchesStep, SuccessLeavesNothing, EndSteps, AdminSteps, TableSteps
  <1> QED
    BY <1>1, PerformanceInvariant, PTL

\* For any number of events and runs and any batch sizes: each recorded run
\* inserted every event once, with ceil(events / batch size) InsertBatch calls,
\* and a report that is printed is complete.
THEOREM ReportsExact == Spec => []ReportIsExact
  <1>1. CleanupInv /\ ReportInv => ReportIsExact
    <2> SUFFICES ASSUME CleanupInv, ReportInv PROVE ReportIsExact
      OBVIOUS
    <2>1. exit = 0 => step = "exited" /\ ~failed
      BY DEF CleanupInv, ErrorsMatchStep
    <2>2. exit = 0 => /\ Len(measurements) = Len(options.batches)
                      /\ analysis = OneEach(AnalysisEvents)
      BY <2>1 DEF ReportInv, CompleteUnlessFailed, EndSteps
    <2> QED
      BY <2>2 DEF ReportInv, RecordedIsExact, RunsExact, ReportIsExact
  <1> QED
    BY <1>1, PerformanceInvariant, PTL

\* For any number of runs, odd or even, and any durations: half of the runs are
\* not above the reported median and half not below it, so median sorts before
\* it takes the middle and takes the right middle.
THEOREM MediansMiddle == Spec => []MedianIsMiddle
  <1>1. MediansBelong => MedianIsMiddle
    BY MedianSplitsRuns DEF MediansBelong, MedianIsMiddle
  <1> QED
    BY <1>1, InitMediansBelong, NextMediansBelong, PTL DEF Spec
=============================================================================
