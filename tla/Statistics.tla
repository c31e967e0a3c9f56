------------------------------- MODULE Statistics -------------------------------
(***************************************************************************)
(* The figures of the console's front page: the queries over the table of  *)
(* requests (src/db/logs.ts, with their routes in src/admin/router.ts) and *)
(* the page that asks for them and draws them                              *)
(* (web/src/pages/Dashboard.tsx, components/TokenChart.tsx).               *)
(*                                                                         *)
(* A load asks for four answers about one window, each made by a query of  *)
(* its own at a moment of its own; the page reloads by a timer and when    *)
(* the range or the bucket is changed, without waiting for the load        *)
(* before.                                                                 *)
(*                                                                         *)
(* Time is a number of ticks.  A model is a provider with one of its       *)
(* models; a row's code is its status together with its error code.  The   *)
(* requests of a load are served in two groups.                            *)
(***************************************************************************)
EXTENDS Integers, Sequences, FiniteSets

LOCAL INSTANCE FiniteSetsExt
LOCAL INSTANCE SequencesExt
LOCAL INSTANCE TLC

CONSTANTS
  Span,       \* RANGE_MS: ticks of a range
  Width,      \* ticks of a bucket
  Models,     \* pairs of a provider and a model of it
  MAX_SERIES, \* lines of the chart that are drawn by themselves
  Selections, \* the ranges and buckets a user selects
  LogTables,  \* the tables found: sequences of rows
  NewRows,    \* the rows written meanwhile, without their time
  Loads,      \* bound: the loads in flight
  StartsAt,   \* the time found
  MaxNow,     \* bound: time
  MaxLogs,    \* bound: rows written and deletions of old ones
  MaxClicks,  \* bound: changes of range or bucket
  MaxBreaks   \* bound: requests that fail

ASSUME StatisticsAssumption ==
  /\ \A r \in DOMAIN Span : Span[r] \in Nat
  /\ \A b \in DOMAIN Width : Width[b] \in Nat \ {0}
  /\ MAX_SERIES \in Nat \ {0}
  /\ Selections \subseteq [range : DOMAIN Span, bucket : DOMAIN Width]

VARIABLES
  logs,      \* the table chat_logs, in the order of insertion
  now,       \* the server's clock
  selected,  \* the range and the bucket of the page
  timer,     \* the selection the interval's load was made with
  loads,     \* the loads in flight
  shown,     \* the answers on the page and the selection they were asked for
  error,     \* the page shows an error
  used       \* rows written, clicks and failures so far

statisticsVars == <<logs, now, selected, timer, loads, shown, error, used>>

Codes == {"200", "429", "503"}
Bad == Codes \ {"200"}
NoFigures == [sel |-> "none"]
NotLoading == [at |-> "free"]

------------------------------------------------------------------------------
(* The queries.                                                            *)

\* WHERE ts >= @since
Window(range) == {k \in DOMAIN logs : logs[k].at >= now - Span[range]}
OfModel(range, m) == {k \in Window(range) : logs[k].model = m}
ModelsIn(range) == {logs[k].model : k \in Window(range)}

\* Counts and sums per model.
AggregateStats(range) ==
  [m \in ModelsIn(range) |->
     LET ks == OfModel(range, m) IN
     [requests |-> Cardinality(ks),
      errors   |-> Cardinality({k \in ks : logs[k].code \in Bad}),
      tokens   |-> MapThenSumSet(LAMBDA k : logs[k].tokens, ks)]]

\* The failures of the window, by code.
AggregateErrors(range) ==
  [c \in {logs[k].code : k \in Window(range)} \cap Bad |->
     Cardinality({k \in Window(range) : logs[k].code = c})]

\* Of the durations in order, a percentile is the one at floor((n - 1) * q).
AggregateLatency(range) ==
  LET ks == Window(range)
      n == Cardinality(ks)
      pct(q) ==
        CHOOSE v \in {logs[k].ms : k \in ks} :
          LET i == ((n - 1) * q) \div 100 IN
          Cardinality({k \in ks : logs[k].ms < v}) <= i /\ i < Cardinality({k \in ks : logs[k].ms <= v}) IN
  IF ks = {} THEN [count |-> 0, p50 |-> 0, p95 |-> 0, p99 |-> 0]
  ELSE [count |-> n, p50 |-> pct(50), p95 |-> pct(95), p99 |-> pct(99)]

\* Seeded fault: the list of buckets starts at the first whole one.
Buckets_Whole(range, bucket) ==
  ((now - Span[range] + Width[bucket] - 1) \div Width[bucket])..(now \div Width[bucket])

\* Every bucket from the one the window starts in to the present one.
Buckets(range, bucket) ==
  ((now - Span[range]) \div Width[bucket])..(now \div Width[bucket])

Sum(f) == MapThenSumSet(LAMBDA b : f[b], DOMAIN f)

\* One line per model, with a value for every bucket.  A row whose bucket is
\* not in the list is passed over.
AggregateTokensTimeseries(range, bucket) ==
  [m \in ModelsIn(range) |->
     LET ks == OfModel(range, m)
         rows == [b \in Buckets(range, bucket) |-> {k \in ks : logs[k].at \div Width[bucket] = b}]
         sums(field) == [b \in DOMAIN rows |-> MapThenSumSet(LAMBDA k : logs[k][field], rows[b])]
         tokens == sums("tokens") IN
     [tokens |-> tokens, prompt |-> sums("prompt"), cached |-> sums("cached"), total |-> Sum(tokens)]]

------------------------------------------------------------------------------
(* The chart and the cards, from the answers.                              *)

\* The models drawn by themselves, those with the most tokens.
Top(series) ==
  CHOOSE top \in SUBSET DOMAIN series :
    /\ Cardinality(top) = Min({MAX_SERIES, Cardinality(DOMAIN series)})
    /\ \A m \in top, o \in DOMAIN series \ top : series[m].total >= series[o].total

\* rollupSeries: the lines beyond MAX_SERIES are added up into one.
Rollup(series) ==
  LET top  == Top(series)
      rest == DOMAIN series \ top
      added(field) ==
        [b \in DOMAIN series[CHOOSE m \in rest : TRUE].tokens |->
           MapThenSumSet(LAMBDA m : series[m][field][b], rest)]
      other == [tokens |-> added("tokens"), prompt |-> added("prompt"), cached |-> added("cached"),
                total |-> MapThenSumSet(LAMBDA m : series[m].total, rest)] IN
  [m \in top \cup (IF rest = {} THEN {} ELSE {"other"}) |-> IF m = "other" THEN other ELSE series[m]]

\* The bars under the lines.
CacheAgg(lines, field) ==
  [b \in DOMAIN lines[CHOOSE m \in DOMAIN lines : TRUE].tokens |->
     MapThenSumSet(LAMBDA m : lines[m][field][b], DOMAIN lines)]

\* niceCeil: 1, 2, 5 or 10 times a power of ten.
NiceCeil(value) ==
  IF value <= 0 THEN 1
  ELSE LET pow == CHOOSE p \in {1, 10, 100, 1000} : p <= value /\ value < 10 * p IN
       pow * Min({n \in {1, 2, 5, 10} : value <= n * pow})

\* The top of the scale, over the lines and the bars.
YMax(lines) ==
  LET prompt == CacheAgg(lines, "prompt") IN
  NiceCeil(Max({prompt[b] : b \in DOMAIN prompt}
               \cup UNION {{lines[m].tokens[b] : b \in DOMAIN prompt} : m \in DOMAIN lines}))

\* The cards: the table added up, and the cache rate's two sums.
Totals(stats) ==
  [f \in {"requests", "errors", "tokens"} |-> MapThenSumSet(LAMBDA m : stats[m][f], DOMAIN stats)]
CacheStats(series) ==
  [f \in {"cached", "prompt"} |-> MapThenSumSet(LAMBDA m : Sum(series[m][f]), DOMAIN series)]

------------------------------------------------------------------------------
(* The server's side of time.                                              *)

\* A load that has some of its answers is no longer one view of the table.
Disturbed == [i \in Loads |->
  IF loads[i].at = "half" THEN [loads[i] EXCEPT !.calm = FALSE] ELSE loads[i]]

\* insertLog at the end of a request.
Log(row) ==
  /\ used.logs < MaxLogs
  /\ logs' = Append(logs, [row EXCEPT !.at = now])
  /\ used' = [used EXCEPT !.logs = @ + 1]
  /\ loads' = Disturbed
  /\ UNCHANGED <<now, selected, timer, shown, error>>

\* deleteLogsBefore, from the page of the logs.
ClearOld(before) ==
  /\ used.logs < MaxLogs
  /\ logs' = SelectSeq(logs, LAMBDA row : row.at >= before)
  /\ used' = [used EXCEPT !.logs = @ + 1]
  /\ loads' = Disturbed
  /\ UNCHANGED <<now, selected, timer, shown, error>>

Tick ==
  /\ now < MaxNow
  /\ now' = now + 1
  /\ loads' = Disturbed
  /\ UNCHANGED <<logs, selected, timer, shown, error, used>>

------------------------------------------------------------------------------
(* The page.                                                               *)

\* load: the requests go out for the selection the function was made with.
Started(i, sel) == loads' = [loads EXCEPT ![i] = [at |-> "asked", sel |-> sel, calm |-> TRUE]]

\* Seeded fault: the interval goes on with the selection it was made for.
Select_KeepsTimer(i, sel) ==
  /\ loads[i] = NotLoading /\ sel # selected /\ used.clicks < MaxClicks
  /\ used' = [used EXCEPT !.clicks = @ + 1]
  /\ selected' = sel /\ error' = FALSE
  /\ Started(i, sel)
  /\ UNCHANGED <<logs, now, timer, shown>>

\* Another range or bucket: the effect loads at once and makes the interval
\* anew.  A load in flight goes on.
Select(i, sel) ==
  /\ loads[i] = NotLoading /\ sel # selected /\ used.clicks < MaxClicks
  /\ used' = [used EXCEPT !.clicks = @ + 1]
  /\ selected' = sel /\ timer' = sel /\ error' = FALSE
  /\ Started(i, sel)
  /\ UNCHANGED <<logs, now, shown>>

\* The interval fires, after five seconds or, hidden, thirty.
TimerFires(i) ==
  /\ loads[i] = NotLoading
  /\ Started(i, timer) /\ error' = FALSE
  /\ UNCHANGED <<logs, now, selected, timer, shown, used>>

\* The routes answer: the totals and the errors, then the rest.
ServeTotals(i) ==
  /\ loads[i].at = "asked"
  /\ loads' = [loads EXCEPT ![i] =
       [at |-> "half", sel |-> @.sel, calm |-> @.calm,
        stats |-> AggregateStats(@.sel.range), errors |-> AggregateErrors(@.sel.range)]]
  /\ UNCHANGED <<logs, now, selected, timer, shown, error, used>>

ServeRest(i) ==
  /\ loads[i].at = "half"
  /\ loads' = [loads EXCEPT ![i] =
       [at |-> "served", sel |-> @.sel, calm |-> @.calm, stats |-> @.stats, errors |-> @.errors,
        latency |-> AggregateLatency(@.sel.range),
        series |-> AggregateTokensTimeseries(@.sel.range, @.sel.bucket)]]
  /\ UNCHANGED <<logs, now, selected, timer, shown, error, used>>

\* All have come: whatever is selected now, these are shown.  An answer
\* that is the same as the last is not set again, which shows the same.
Arrive(i) ==
  /\ loads[i].at = "served"
  /\ shown' = [sel |-> loads[i].sel, calm |-> loads[i].calm, stats |-> loads[i].stats,
               errors |-> loads[i].errors, latency |-> loads[i].latency, series |-> loads[i].series]
  /\ loads' = [loads EXCEPT ![i] = NotLoading]
  /\ UNCHANGED <<logs, now, selected, timer, error, used>>

\* One of the requests fails: the figures stay, under an error.
Break(i) ==
  /\ loads[i] # NotLoading /\ used.breaks < MaxBreaks
  /\ used' = [used EXCEPT !.breaks = @ + 1]
  /\ loads' = [loads EXCEPT ![i] = NotLoading]
  /\ error' = TRUE
  /\ UNCHANGED <<logs, now, selected, timer, shown>>

------------------------------------------------------------------------------
\* The page is opened with the last day by hours, and loads.
StatisticsInit ==
  /\ logs \in LogTables /\ now = StartsAt
  /\ selected = [range |-> "24h", bucket |-> "hour"] /\ timer = selected
  /\ \E i \in Loads : loads = [j \in Loads |->
       IF j = i THEN [at |-> "asked", sel |-> selected, calm |-> TRUE] ELSE NotLoading]
  /\ shown = NoFigures /\ error = FALSE
  /\ used = [logs |-> 0, clicks |-> 0, breaks |-> 0]

Proceed(i) == ServeTotals(i) \/ ServeRest(i) \/ Arrive(i)

StatisticsNext ==
  \/ (\E row \in NewRows : Log(row)) \/ ClearOld(now - Span["24h"]) \/ Tick
  \/ \E i \in Loads, sel \in Selections : Select(i, sel)
  \/ \E i \in Loads : TimerFires(i) \/ ServeTotals(i) \/ ServeRest(i) \/ Arrive(i) \/ Break(i)

\* The interval goes on, and a load comes back or fails.
StatisticsFairness ==
  /\ WF_statisticsVars(\E i \in Loads : TimerFires(i))
  /\ \A i \in Loads : WF_statisticsVars(Proceed(i))

StatisticsSpec == StatisticsInit /\ [][StatisticsNext]_statisticsVars /\ StatisticsFairness

------------------------------------------------------------------------------
\* Five panels are computed by four queries in two languages, by buckets cut
\* at other moments than the window, and added up again on the page.  Of one
\* view of the table they say the same: requests, errors, tokens and cache
\* hits agree between table, cards, error list, latencies and chart, however
\* many models are rolled up, percentiles are in order, and nothing sticks
\* out of the chart.
FiguresAgree ==
  (shown # NoFigures /\ shown.calm) =>
    LET totals == Totals(shown.stats)
        cache  == CacheStats(shown.series)
        lines  == Rollup(shown.series) IN
    /\ shown.latency.count = totals.requests
    /\ Sum(shown.errors) = totals.errors
    /\ shown.latency.p50 <= shown.latency.p95 /\ shown.latency.p95 <= shown.latency.p99
    /\ MapThenSumSet(LAMBDA m : lines[m].total, DOMAIN lines) = totals.tokens
    /\ MapThenSumSet(LAMBDA m : Sum(lines[m].tokens), DOMAIN lines) = totals.tokens
    /\ DOMAIN lines # {} =>
         LET bars == CacheAgg(lines, "prompt")
             top  == YMax(lines) IN
         /\ Sum(CacheAgg(lines, "cached")) = cache["cached"] /\ Sum(bars) = cache["prompt"]
         /\ \A b \in DOMAIN bars : bars[b] <= top /\ \A m \in DOMAIN lines : lines[m].tokens[b] <= top

\* The page shows the table as it is, for the selection on the page and
\* without an error.
Fresh ==
  /\ shown # NoFigures /\ ~error
  /\ shown.sel = selected
  /\ shown.stats = AggregateStats(selected.range)
  /\ shown.errors = AggregateErrors(selected.range)
  /\ shown.latency = AggregateLatency(selected.range)
  /\ shown.series = AggregateTokensTimeseries(selected.range, selected.bucket)

\* A late answer of an earlier selection may replace the one asked for, and
\* a failed load shows nothing new; but the interval always asks for what is
\* selected: on a page that is open, once nothing changes any more, the
\* figures become those of the present and stay so.
ShowsNow == (\E i \in Loads : loads[i] # NotLoading) ~> []Fresh
=============================================================================
