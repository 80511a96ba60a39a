---------------------------- MODULE Performance -----------------------------
(***************************************************************************)
(* cmd/performance and internal/performance: Measure creates a temporary   *)
(* ClickHouse database, measures insertion into it, analyses one query and *)
(* removes it again.  Every statement can fail, with or without its        *)
(* effect, because the server fails or because a signal cancels the        *)
(* context; deferred calls then undo what was opened, last first.          *)
(***************************************************************************)
EXTENDS Integers, Sequences, FiniteSets, SequencesExt, Sorting

CONSTANTS
    OptionInputs,       \* options a caller may pass: events, runs, batches
    DefaultBatchSizes,  \* used when no batch size is given
    WarmupEvents, AnalysisEvents, AnalysisBatch,
    Durations,          \* possible durations of a measured run
    MaxFaults           \* bound on server failures

Options == [events : Int, runs : Int, batches : Seq(Int)]

ASSUME PerformanceAssumption ==
    /\ OptionInputs \subseteq Options
    /\ DefaultBatchSizes \in Seq(Nat \ {0}) /\ DefaultBatchSizes # <<>>
    /\ WarmupEvents \in Nat /\ AnalysisEvents \in Nat
    /\ AnalysisBatch \in Nat \ {0} /\ MaxFaults \in Nat
    /\ Durations \subseteq Nat

VARIABLES
    step,         \* the next statement of Measure, or of its deferred calls
    options,      \* validated options
    cancelled,    \* SIGINT or SIGTERM has cancelled the context
    failed,       \* resultError is not nil
    faults,       \* history: server failures so far
    created,      \* history: CREATE DATABASE returned without an error
    temp,         \* the temporary database: absent, empty or cloned
    rows,         \* rows per event, in the source and the temporary table
    admin,        \* the administrative connection is open
    target,       \* the database of the measuring connection, or "none"
    start,        \* loop variable of an insertion loop
    calls,        \* history: InsertBatch calls of the current run
    runs,         \* the finished runs of the current batch size
    measurements, \* the finished measurements
    analysis,     \* the rows the analysed query counted, per event
    exit          \* exit status of the command, 3 while it runs

loopVars == <<start, calls, runs, measurements>>
vars == <<step, options, cancelled, failed, faults, created, temp, rows, admin,
          target, loopVars, analysis, exit>>

EventIds == UNION {1 .. n : n \in {o.events : o \in OptionInputs} \cup {AnalysisEvents}}
NoRows == [e \in EventIds |-> 0]
OneEach(n) == [e \in EventIds |-> IF e <= n THEN 1 ELSE 0]

Init ==
    /\ step = "validate"
    /\ options \in OptionInputs
    /\ cancelled = FALSE
    /\ failed = FALSE
    /\ faults = 0
    /\ created = FALSE
    /\ temp = "absent"
    /\ rows = [source |-> OneEach(1), temp |-> NoRows]
    /\ admin = FALSE
    /\ target = "none"
    /\ start = 0
    /\ calls = 0
    /\ runs = <<>>
    /\ measurements = <<>>
    /\ analysis = NoRows
    /\ exit = 3

-----------------------------------------------------------------------------
(* Statements. *)

\* Something breaks a statement: its cancelled context, or the server.
Broken(ctxDone) ==
    \/ ctxDone /\ UNCHANGED faults
    \/ ~ctxDone /\ faults < MaxFaults /\ faults' = faults + 1

Succeeds(ctxDone, next) ==
    ~ctxDone /\ step' = next /\ UNCHANGED <<failed, faults>>

\* The error is joined to the result and the deferred calls begin at unwind.
Fails(ctxDone, unwind) ==
    Broken(ctxDone) /\ step' = unwind /\ failed' = TRUE

\* A statement on the measuring connection leaves its table with content; one
\* that fails may have had its effect all the same.
OnTable(content, next) ==
    /\ \/ /\ Succeeds(cancelled, next)
          /\ rows' = [rows EXCEPT ![target] = content]
       \/ /\ Fails(cancelled, "closeTemp")
          /\ rows' \in {rows, [rows EXCEPT ![target] = content]}
    /\ UNCHANGED <<options, cancelled, created, temp, admin, target, analysis, exit>>

\* validateOptions: the options it refuses.
OptionsInvalid(o) ==
    \/ o.events <= 0 \/ o.runs <= 0
    \/ \E i \in DOMAIN o.batches : o.batches[i] <= 0
    \/ Cardinality(ToSet(o.batches)) # Len(o.batches)

\* validateOptions: an error, or the options with the default batch sizes.
Validate ==
    /\ step = "validate"
    /\ \/ /\ OptionsInvalid(options)
          /\ step' = "returned" /\ failed' = TRUE
          /\ UNCHANGED options
       \/ /\ ~OptionsInvalid(options)
          /\ step' = "openAdmin" /\ UNCHANGED failed
          /\ options' = IF options.batches = <<>>
                        THEN [options EXCEPT !.batches = DefaultBatchSizes]
                        ELSE options
    /\ UNCHANGED <<cancelled, faults, created, temp, rows, admin, target,
                   loopVars, analysis, exit>>

\* Open connects to the database "default"; a failed ping closes it again.
OpenAdmin ==
    /\ step = "openAdmin"
    /\ \/ Succeeds(cancelled, "create") /\ admin' = TRUE
       \/ Fails(cancelled, "returned") /\ UNCHANGED admin
    /\ UNCHANGED <<options, cancelled, created, temp, rows, target, loopVars,
                   analysis, exit>>

\* CREATE DATABASE: the DROP is deferred only after it has succeeded.
CreateDatabase ==
    /\ step = "create"
    /\ \/ Succeeds(cancelled, "clone") /\ created' = TRUE /\ temp' = "empty"
       \/ /\ Fails(cancelled, "closeAdmin")
          /\ temp' \in {"absent", "empty"}
          /\ UNCHANGED created
    /\ UNCHANGED <<options, cancelled, rows, admin, target, loopVars, analysis, exit>>

\* CREATE TABLE temporary.events AS source.events
CloneTable ==
    /\ step = "clone"
    /\ \/ Succeeds(cancelled, "open") /\ temp' = "cloned"
       \/ Fails(cancelled, "drop") /\ temp' \in {"empty", "cloned"}
    /\ UNCHANGED <<options, cancelled, created, rows, admin, target, loopVars,
                   analysis, exit>>

\* Mutant: the measuring connection keeps the configured database.
ConfiguredDatabase == "source"

\* measurementConfig.Database
MeasurementDatabase == "temp"

OpenTemp ==
    /\ step = "open"
    /\ \/ Succeeds(cancelled, "warmUp") /\ target' = MeasurementDatabase
       \/ Fails(cancelled, "drop") /\ UNCHANGED target
    /\ UNCHANGED <<options, cancelled, created, temp, rows, admin, loopVars,
                   analysis, exit>>

\* The rows after InsertBatch(events[from:to]).
Inserted(from, to) ==
    [e \in EventIds |-> rows[target][e] + (IF from < e /\ e <= to THEN 1 ELSE 0)]

SmallerOf(a, b) == IF a < b THEN a ELSE b

\* warmUp inserts some events and truncates.
WarmUp ==
    /\ step = "warmUp"
    /\ OnTable(Inserted(0, SmallerOf(WarmupEvents, options.events)), "warmUpReset")
    /\ UNCHANGED loopVars

\* TRUNCATE TABLE events
Truncated == NoRows

WarmUpReset ==
    /\ step = "warmUpReset"
    /\ OnTable(Truncated, "reset")
    /\ UNCHANGED loopVars

-----------------------------------------------------------------------------
(* runner.run. *)

BatchSize == options.batches[Len(measurements) + 1]

\* Before each run the table is emptied.
Reset ==
    /\ step = "reset"
    /\ OnTable(Truncated, "insert")
    /\ start' = 0 /\ calls' = 0
    /\ UNCHANGED <<runs, measurements>>

\* One InsertBatch of a measured run.
InsertNext ==
    /\ step = "insert"
    /\ start < options.events
    /\ OnTable(Inserted(start, SmallerOf(start + BatchSize, options.events)), "insert")
    /\ start' = start + BatchSize
    /\ calls' = calls + 1
    /\ UNCHANGED <<runs, measurements>>

\* Mutant: a partial last batch is not counted.
FullBatches(n, size) == n \div size

InsertOperations(n, size) == (n + size - 1) \div size

\* Twice the median, of a sorted sequence.
TwiceMedian(sorted) ==
    LET middle == Len(sorted) \div 2 + 1
    IN  IF Len(sorted) % 2 = 1 THEN 2 * sorted[middle]
                               ELSE sorted[middle - 1] + sorted[middle]

\* Mutant: the durations are not sorted.
MedianUnsorted(list) == TwiceMedian([i \in DOMAIN list |-> list[i].duration])

\* Runs by duration, equal ones as they are listed.
Shorter(list) ==
    {p \in (DOMAIN list) \X (DOMAIN list) :
       \/ list[p[1]].duration < list[p[2]].duration
       \/ list[p[1]].duration = list[p[2]].duration /\ p[1] < p[2]}

\* median over the runs of one batch size.
Median(list) ==
    LET order == InOrder(DOMAIN list, Shorter(list))
    IN  TwiceMedian([i \in DOMAIN list |-> list[order[i]].duration])

\* A run is complete: it is recorded with its duration, and the last run of a
\* batch size completes a measurement.
RunDone ==
    /\ step = "insert"
    /\ start >= options.events
    /\ \E d \in Durations :
         LET done == Append(runs, [duration |-> d, calls |-> calls, rows |-> rows[target]])
         IN  \/ /\ Len(done) < options.runs
                /\ runs' = done
                /\ step' = "reset"
                /\ UNCHANGED measurements
             \/ /\ Len(done) = options.runs
                /\ runs' = <<>>
                /\ measurements' =
                     Append(measurements,
                       [insertOperations |-> InsertOperations(options.events, BatchSize),
                        twiceMedian |-> Median(done), runs |-> done])
                /\ step' = IF Len(measurements') = Len(options.batches)
                           THEN "analysisReset" ELSE "reset"
    /\ UNCHANGED <<options, cancelled, failed, faults, created, temp, rows, admin,
                   target, start, calls, analysis, exit>>

-----------------------------------------------------------------------------
(* prepareAnalysisDataset and analyzeStatisticsQuery. *)

AnalysisReset ==
    /\ step = "analysisReset"
    /\ OnTable(Truncated, "analysisInsert")
    /\ start' = 0
    /\ UNCHANGED <<calls, runs, measurements>>

AnalysisInsert ==
    /\ step = "analysisInsert"
    /\ start < AnalysisEvents
    /\ OnTable(Inserted(start, SmallerOf(start + AnalysisBatch, AnalysisEvents)),
               "analysisInsert")
    /\ start' = start + AnalysisBatch
    /\ UNCHANGED <<calls, runs, measurements>>

\* OPTIMIZE TABLE events FINAL changes no row of a MergeTree.
Optimize ==
    /\ step = "analysisInsert"
    /\ start >= AnalysisEvents
    /\ OnTable(rows[target], "analyze")
    /\ UNCHANGED loopVars

\* EXPLAIN and the query; an error of either ends Measure.
Analyze ==
    /\ step = "analyze"
    /\ \/ Succeeds(cancelled, "closeTemp") /\ analysis' = rows[target]
       \/ Fails(cancelled, "closeTemp") /\ UNCHANGED analysis
    /\ UNCHANGED <<options, cancelled, created, temp, rows, admin, target,
                   loopVars, exit>>

-----------------------------------------------------------------------------
(* Deferred calls, the command and the user. *)

CloseTemp ==
    /\ step = "closeTemp"
    /\ target' = "none"
    /\ Succeeds(FALSE, "drop") \/ Fails(FALSE, "drop")
    /\ UNCHANGED <<options, cancelled, created, temp, rows, admin, loopVars,
                   analysis, exit>>

\* Mutant: the DROP uses the context of the run.
SharedContext == cancelled

\* cleanupContext derives from context.Background().
CleanupDone == FALSE

\* Mutant: the error of the DROP is not joined to the result.
DropErrorLost == failed

\* resultError after a failed DROP.
DropErrorJoined == TRUE

\* DROP DATABASE IF EXISTS ... SYNC on the administrative connection.
Drop ==
    /\ step = "drop"
    /\ \/ Succeeds(CleanupDone, "closeAdmin") /\ temp' = "absent"
       \/ /\ Broken(CleanupDone)
          /\ failed' = DropErrorJoined
          /\ step' = "closeAdmin"
          /\ temp' \in {temp, "absent"}
    /\ UNCHANGED <<options, cancelled, created, rows, admin, target, loopVars,
                   analysis, exit>>

CloseAdmin ==
    /\ step = "closeAdmin"
    /\ admin' = FALSE
    /\ Succeeds(FALSE, "returned") \/ Fails(FALSE, "returned")
    /\ UNCHANGED <<options, cancelled, created, temp, rows, target, loopVars,
                   analysis, exit>>

\* The command prints the report, which may fail, or the error, and exits.
Exit ==
    /\ step = "returned"
    /\ step' = "exited"
    /\ \/ failed /\ exit' = 1
       \/ ~failed /\ exit' \in {0, 1}
    /\ UNCHANGED <<options, cancelled, failed, faults, created, temp, rows, admin,
                   target, loopVars, analysis>>

\* SIGINT or SIGTERM, at any time.
Cancel ==
    /\ step # "exited"
    /\ ~cancelled
    /\ cancelled' = TRUE
    /\ UNCHANGED <<step, options, failed, faults, created, temp, rows, admin,
                   target, loopVars, analysis, exit>>

Command ==
    \/ Validate \/ OpenAdmin \/ CreateDatabase \/ CloneTable \/ OpenTemp
    \/ WarmUp \/ WarmUpReset \/ Reset \/ InsertNext \/ RunDone
    \/ AnalysisReset \/ AnalysisInsert \/ Optimize \/ Analyze
    \/ CloseTemp \/ Drop \/ CloseAdmin \/ Exit

Next == Command \/ Cancel

Spec == Init /\ [][Next]_vars

-----------------------------------------------------------------------------
(* Properties. *)

\* The comment of Measure: "The source database is never modified", although
\* TRUNCATE and INSERT name only the table and trust their connection.
SourceUntouched == rows.source = OneEach(1)

\* A signal at any moment does not keep the temporary database alive: once
\* CREATE has succeeded, and unless the server itself fails, the database is
\* gone when Measure returns.
CancelledRunIsCleanedUp ==
    step \in {"returned", "exited"} /\ created /\ faults = 0 => temp = "absent"

\* Exit status 0 hides nothing: no database is left, both connections are
\* closed, and a database left behind always shows as an error.
SuccessLeavesNothing ==
    step \in {"returned", "exited"} =>
      /\ ~admin /\ target = "none"
      /\ temp # "absent" => failed
      /\ exit = 0 => temp = "absent"

\* All runs of a report are comparable: each inserted every event exactly once
\* into an empty table, with as many InsertBatch calls as the report says, and
\* the analysed query saw exactly the analysis dataset.
ReportIsExact ==
    /\ \A i \in DOMAIN measurements : \A k \in DOMAIN measurements[i].runs :
         /\ measurements[i].runs[k].rows = OneEach(options.events)
         /\ measurements[i].runs[k].calls = measurements[i].insertOperations
    /\ exit = 0 =>
         /\ Len(measurements) = Len(options.batches)
         /\ \A i \in DOMAIN measurements : Len(measurements[i].runs) = options.runs
         /\ analysis = OneEach(AnalysisEvents)

\* The median of a measurement has half of the runs on either side, for odd
\* and even numbers of runs.
MedianIsMiddle ==
    \A i \in DOMAIN measurements :
      LET list == measurements[i].runs
          NotAbove == {k \in DOMAIN list : 2 * list[k].duration <= measurements[i].twiceMedian}
          NotBelow == {k \in DOMAIN list : 2 * list[k].duration >= measurements[i].twiceMedian}
      IN  /\ 2 * Cardinality(NotAbove) >= Len(list)
          /\ 2 * Cardinality(NotBelow) >= Len(list)

\* README.md: the measurement uses "temporary databases that are removed after
\* the run".  Stated for every run in which the DROP itself was not refused:
\* a database can then only be left by a CREATE whose reply never came.
TemporaryDatabaseRemoved ==
    step = "exited" /\ faults = 0 => temp = "absent"
=============================================================================
