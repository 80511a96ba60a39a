----------------------------- MODULE Analytics ------------------------------
(***************************************************************************)
(* GET /api/v1/apps/{id}/stats and GET /api/v1/rankings: filter validation *)
(* (internal/analytics) and the ClickHouse queries (internal/clickhouse)   *)
(* over the rows the Workers have stored.                                  *)
(*                                                                         *)
(* Time is counted in ticks, DayLength to the day, from the first day.     *)
(* Raw query values keep what the code tells apart: absent, unparsable,    *)
(* blank-padded and plain.  Application IDs are numbers, which stand for   *)
(* ClickHouse's total order on UUIDs.                                      *)
(*                                                                         *)
(* Requests share nothing but the stored rows, so the module follows one   *)
(* request from its arrival to its reply while rows are being inserted.    *)
(***************************************************************************)
EXTENDS Integers, Sequences, FiniteSets, FiniteSetsExt, Sorting

CONSTANTS
    Apps,          \* application IDs
    Rows,          \* rows that may be stored (a duplicate is a second row)
    RowData,       \* per row: app, type, country, platform, revenue, time
    Days,          \* days a query may name
    DayLength,     \* ticks per day
    Limits,        \* numbers a query may give as limit
    DefaultLimit,  \* defaultRankingLimit
    MaximumLimit,  \* maximumRankingLimit
    Int64Range     \* 2^63 in ClickHouse: revenue sums wrap around here

ASSUME AnalyticsAssumption ==
    /\ Apps \subseteq Nat /\ Days \subseteq Nat /\ Limits \subseteq Nat
    /\ DayLength \in Nat \ {0} /\ Int64Range \in Nat \ {0}
    /\ MaximumLimit \in Nat /\ DefaultLimit \in 1 .. MaximumLimit
    /\ \A r \in Rows : /\ RowData[r].app \in Apps
                       /\ RowData[r].revenue \in Int /\ RowData[r].time \in Int

VARIABLES
    stored,     \* rows in ClickHouse
    phase,      \* the request: "idle", "reading" a result set, "answered"
    question,   \* its raw query
    snapshot,   \* history: the rows its ClickHouse query saw
    cursor,     \* rankings the driver has still to return
    items,      \* rankings read so far
    reply       \* the reply: status and value

vars == <<stored, phase, question, snapshot, cursor, items, reply>>

-----------------------------------------------------------------------------
(* Raw values and validation. *)

Absent == -1
Unparsable == -2
RawDates == Days \cup {Absent, Unparsable}
RawLimits == Limits \cup {Absent, Unparsable}
RawCountries == {"  ", " RS "}
RawPlatforms == {"", " ios", "web"}

\* strings.TrimSpace
Trim(raw) ==
    CASE raw = "  " -> ""
      [] raw = " RS " -> "RS"
      [] raw = " ios" -> "ios"
      [] OTHER -> raw

\* Mutant: a range of a single day is refused.
SingleDayRefused(from, to) == from < to

\* The order check of validateFilter: the end date may equal the start.
DatesInOrder(from, to) == from <= to

\* validateFilter succeeds.
FilterIsValid(in) ==
    /\ in.from # Unparsable
    /\ in.to # Unparsable
    /\ in.from # Absent /\ in.to # Absent => DatesInOrder(in.from, in.to)
    /\ Trim(in.platform) \in {"", "android", "ios"}

\* Mutant: the end date is used as it is.
EndOfDayMissing(day) == day * DayLength

\* The exclusive end of an inclusive date: the beginning of the next day.
ToExclusive(day) == (day + 1) * DayLength

\* The filter validateFilter returns; absent bounds are nil.
Filter(in) ==
    [from |-> IF in.from = Absent THEN Absent ELSE in.from * DayLength,
     toExclusive |-> IF in.to = Absent THEN Absent ELSE ToExclusive(in.to),
     country |-> Trim(in.country),
     platform |-> Trim(in.platform)]

\* The limit check of validateRankingFilter.
LimitIsValid(raw) ==
    raw = Absent \/ raw \in 1 .. MaximumLimit

Limit(raw) == IF raw = Absent THEN DefaultLimit ELSE raw

-----------------------------------------------------------------------------
(* The ClickHouse queries. *)

\* The conditions a filter adds to WHERE.
Where(filter, r) ==
    /\ filter.from # Absent => RowData[r].time >= filter.from
    /\ filter.toExclusive # Absent => RowData[r].time < filter.toExclusive
    /\ filter.country # "" => RowData[r].country = filter.country
    /\ filter.platform # "" => RowData[r].platform = filter.platform

\* Int64 arithmetic of sumIf.
Wrap(x) == ((x + Int64Range) % (2 * Int64Range)) - Int64Range

Revenue(r) == RowData[r].revenue

\* ApplicationStatistics over the rows S.
ApplicationStatistics(S, app, filter) ==
    LET hits == {r \in S : RowData[r].app = app /\ Where(filter, r)}
        OfType(t) == {r \in hits : RowData[r].type = t}
    IN  [installs |-> Cardinality(OfType("install")),
         sessions |-> Cardinality(OfType("session")),
         purchases |-> Cardinality(OfType("purchase")),
         revenue |-> Wrap(MapThenSumSet(Revenue, OfType("purchase")))]

\* ORDER BY value DESC, app_id ASC
RanksBefore(a, b) == a.value > b.value \/ (a.value = b.value /\ a.app < b.app)

\* ApplicationRankings over the rows S: GROUP BY, ORDER BY, LIMIT.
ApplicationRankings(S, filter, limit) ==
    LET hits == {r \in S : RowData[r].type = "install" /\ Where(filter, r)}
        groups == {[app |-> a, value |-> Cardinality({r \in hits : RowData[r].app = a})]
                     : a \in {RowData[r].app : r \in hits}}
        sorted == InOrder(groups, {p \in groups \X groups : RanksBefore(p[1], p[2])})
    IN  SubSeq(sorted, 1, Min({limit, Len(sorted)}))

-----------------------------------------------------------------------------
(* Requests. *)

NoQuestion == [from |-> Absent, to |-> Absent, country |-> "", platform |-> ""]

Init ==
    /\ stored = {}
    /\ phase = "idle"
    /\ question = NoQuestion
    /\ snapshot = {}
    /\ cursor = <<>>
    /\ items = <<>>
    /\ reply = [status |-> 0]

\* A Worker commits a row.  A query sees the rows of the moment it is issued,
\* so what is stored later concerns no question.
Insert(r) ==
    /\ phase = "idle"
    /\ r \notin stored
    /\ stored' = stored \cup {r}
    /\ UNCHANGED <<phase, question, snapshot, cursor, items, reply>>

\* GET /api/v1/apps/{id}/stats: validation, one query that may fail, one reply.
GetApplicationStatistics(app, in) ==
    /\ phase = "idle"
    /\ phase' = "answered"
    /\ question' = in
    /\ snapshot' = stored
    /\ \/ ~FilterIsValid(in) /\ reply' = [status |-> 400]
       \/ FilterIsValid(in) /\ reply' = [status |-> 500]
       \/ /\ FilterIsValid(in)
          /\ reply' = [status |-> 200, app |-> app,
                       statistics |-> ApplicationStatistics(stored, app, Filter(in))]
    /\ UNCHANGED <<stored, cursor, items>>

\* Both handlers answer 400, before any query, to an ID or a metric the code
\* does not accept: uuid.Parse, ErrAppIDRequired, ErrMetricInvalid.
RefuseRequest ==
    /\ phase = "idle"
    /\ phase' = "answered"
    /\ reply' = [status |-> 400]
    /\ UNCHANGED <<stored, question, snapshot, cursor, items>>

\* GET /api/v1/rankings: validation and the query; a valid one opens a result
\* set over the rows of this moment.
GetApplicationRankings(in) ==
    /\ phase = "idle"
    /\ question' = in
    /\ snapshot' = stored
    /\ \/ /\ ~FilterIsValid(in) \/ ~LimitIsValid(in.limit)
          /\ phase' = "answered"
          /\ reply' = [status |-> 400]
          /\ UNCHANGED cursor
       \/ /\ FilterIsValid(in) /\ LimitIsValid(in.limit)
          /\ phase' = "reading"
          /\ cursor' = ApplicationRankings(stored, Filter(in), Limit(in.limit))
          /\ UNCHANGED reply
    /\ UNCHANGED <<stored, items>>

\* rows.Next and rows.Scan: the next ranking is read.
ReadRow ==
    /\ phase = "reading"
    /\ cursor # <<>>
    /\ items' = Append(items, Head(cursor))
    /\ cursor' = Tail(cursor)
    /\ UNCHANGED <<stored, phase, question, snapshot, reply>>

\* Mutant: an error that ends the loop early is not looked at.
ReadErrorIgnored == [status |-> 200, rankings |-> items]

\* The reply to a broken read: the deferred rows.Err turns the partial result
\* into an error.
ReadErrorReply == [status |-> 500]

\* The query, a scan or the stream fails: rows.Next ends the loop early.
ReadFails ==
    /\ phase = "reading"
    /\ phase' = "answered"
    /\ cursor' = <<>>
    /\ reply' = ReadErrorReply
    /\ UNCHANGED <<stored, question, snapshot, items>>

\* The result set is exhausted.
ReadDone ==
    /\ phase = "reading"
    /\ cursor = <<>>
    /\ phase' = "answered"
    /\ reply' = [status |-> 200, rankings |-> items]
    /\ UNCHANGED <<stored, question, snapshot, cursor, items>>

StatisticsInputs ==
    [from : RawDates, to : RawDates, country : RawCountries, platform : RawPlatforms]

RankingInputs ==
    [from : RawDates, to : RawDates, country : RawCountries, platform : {""},
     limit : RawLimits]

Next ==
    \/ \E r \in Rows : Insert(r)
    \/ \E app \in Apps, in \in StatisticsInputs : GetApplicationStatistics(app, in)
    \/ \E in \in RankingInputs : GetApplicationRankings(in)
    \/ RefuseRequest
    \/ ReadRow \/ ReadFails \/ ReadDone

Spec == Init /\ [][Next]_vars

-----------------------------------------------------------------------------
(* Properties, against definitions by calendar day. *)

DayOf(r) == RowData[r].time \div DayLength

\* The install rows of an application that a question asks for, by day.
AskedInstalls(in, app) ==
    {r \in snapshot :
      /\ RowData[r].app = app
      /\ RowData[r].type = "install"
      /\ in.from = Absent \/ in.from <= DayOf(r)
      /\ in.to = Absent \/ DayOf(r) <= in.to
      /\ Trim(in.country) \in {"", RowData[r].country}
      /\ Trim(in.platform) \in {"", RowData[r].platform}}

\* Statistics of adjacent date ranges add up to the statistics of the whole
\* range, in installs, purchases and revenue: no event is dropped or counted
\* twice at midnight, and revenue agrees even where Int64 wraps around.  (The
\* rows do not change once a request is being served.)
AdjacentRangesAddUp ==
    phase = "idle" => \A app \in Apps, from, to \in Days :
      LET Stats(d1, d2) ==
            ApplicationStatistics(stored, app,
              Filter([from |-> d1, to |-> d2, country |-> "", platform |-> ""]))
          whole == Stats(from, to)
          first == Stats(from, from)
          rest == Stats(from + 1, to)
      IN  from < to =>
            /\ whole.installs = first.installs + rest.installs
            /\ whole.purchases = first.purchases + rest.purchases
            /\ whole.revenue = Wrap(first.revenue + rest.revenue)

\* The dates of the Statistics API are inclusive calendar days: a reply counts
\* exactly the installs of the asked days, country and platform, and a range
\* of a single day is a valid question.
StatisticsCountAskedDays ==
    /\ "statistics" \in DOMAIN reply =>
         reply.statistics.installs = Cardinality(AskedInstalls(question, reply.app))
    /\ reply.status = 400 /\ question.from \in Days /\ question.from = question.to =>
         \/ Trim(question.platform) \notin {"", "ios", "android"}
         \/ "limit" \in DOMAIN question

\* A ranking that is returned is complete and deterministic: it lists each
\* application once with the installs the Statistics API reports, best first
\* with ties by ID, and leaves one out only when the limit is reached by
\* better ones.  A read that fails midway returns no partial ranking.
RankingIsExact ==
    "rankings" \in DOMAIN reply =>
      LET list == reply.rankings
          value(a) == Cardinality(AskedInstalls(question, a))
          Listed == {list[i].app : i \in DOMAIN list}
      IN  /\ \A i \in DOMAIN list : list[i].value = value(list[i].app)
          /\ \A i, j \in DOMAIN list : i < j => RanksBefore(list[i], list[j])
          /\ Limit(question.limit) \in 1 .. MaximumLimit
          /\ Len(list) <= Limit(question.limit)
          /\ \A a \in Apps \ Listed :
               value(a) > 0 =>
                 /\ Len(list) = Limit(question.limit)
                 /\ RanksBefore(list[Len(list)], [app |-> a, value |-> value(a)])
=============================================================================
