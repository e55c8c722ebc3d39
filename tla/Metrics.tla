------------------------------ MODULE Metrics -------------------------------
(***************************************************************************)
(* What POST /chat keeps of the tool calls of an answer                    *)
(* (src/src/routes/chat.ts): the rows of executionStore                    *)
(* (src/src/history/store.ts), which outlive the process, and the          *)
(* MetricsCollector (src/src/metrics/index.ts), which does not.            *)
(***************************************************************************)
EXTENDS Integers, Sequences, FiniteSets, Functions

CONSTANTS
    Tools,      \* names of tools
    Window      \* WINDOW_MS

ASSUME WindowAssumption == Window \in Nat

VARIABLES
    now,        \* Date.now()
    rows,       \* executionStore's table, in the order of its inserts
    tools,      \* MetricsCollector's map
    kept        \* history: how many rows there were when the process started

metricsVars == <<rows, tools, kept>>

NoMetric == [count |-> 0, totalMs |-> 0, samples |-> <<>>]

\* An executed call: its tool, its status and its durationMs.
Executed == [tool : Tools, status : {"completed", "failed"}, ms : Nat]

MetricsTypeOK ==
    /\ now \in Nat
    /\ \A k \in 1 .. Len(rows) : rows[k].call \in Executed /\ rows[k].ts \in Nat
    /\ \A t \in Tools :
          /\ tools[t].count \in Nat /\ tools[t].totalMs \in Nat
          /\ \A k \in 1 .. Len(tools[t].samples) :
                tools[t].samples[k] \in [value : Nat, ts : Nat]
    /\ kept \in 0 .. Len(rows)

MetricsInit ==
    /\ now = 0
    /\ rows = <<>>
    /\ tools = [t \in Tools |-> NoMetric]
    /\ kept = 0

-----------------------------------------------------------------------------
\* Mutant: a sample at the edge of the window is dropped.
PruneEdge(samples) ==
    SelectSeq(samples, LAMBDA s : s.ts > now - Window)

\* prune shifts samples out until the first is within the window.
Prune(samples) ==
    LET Old(k) == samples[k].ts < now - Window
        n == CHOOSE n \in 0 .. Len(samples) :
                /\ \A k \in 1 .. n : Old(k)
                /\ n < Len(samples) => ~Old(n + 1)
    IN  SubSeq(samples, n + 1, Len(samples))

\* recordToolExecution
RecordToolExecution(metric, ms) ==
    [count   |-> metric.count + 1,
     totalMs |-> metric.totalMs + ms,
     samples |-> Prune(Append(metric.samples, [value |-> ms, ts |-> now]))]

\* executionStore.add, for each of the calls.
AddRows(calls) ==
    rows' = rows \o [n \in 1 .. Len(calls) |-> [call |-> calls[n], ts |-> now]]

\* Each of the calls is inserted in the store, then recorded in the metrics.
RecordAll(calls) ==
    LET after[n \in 0 .. Len(calls)] ==
            IF n = 0 THEN tools
            ELSE [after[n - 1] EXCEPT ![calls[n].tool] =
                     RecordToolExecution(@, calls[n].ms)]
    IN  /\ AddRows(calls)
        /\ tools' = after[Len(calls)]
        /\ UNCHANGED kept

\* The process ends and starts again: the table is a file.
RestartMetrics ==
    /\ tools' = [t \in Tools |-> NoMetric]
    /\ kept' = Len(rows)
    /\ UNCHANGED rows

-----------------------------------------------------------------------------
(* snapshot *)

\* Array.sort by the difference of two values.
Sorted(vals) ==
    LET Places == 1 .. Len(vals)
        order  == CHOOSE p \in Bijection(Places, Places) :
                     \A j, k \in Places : j < k => vals[p[j]] <= vals[p[k]]
    IN  [k \in Places |-> vals[order[k]]]

\* Mutant: the index is rounded down.
PercentileDown(vals, p) ==
    LET sorted == Sorted(vals)
        idx    == (p * Len(vals)) \div 100
    IN  IF vals = <<>> THEN 0 ELSE sorted[IF idx < 1 THEN 1 ELSE idx]

\* percentile of the sorted values, at index Math.ceil((p / 100) * length) - 1
\* from zero.
Percentile(vals, p) ==
    LET sorted == Sorted(vals)
        idx    == (p * Len(vals) + 99) \div 100
    IN  IF vals = <<>> THEN 0 ELSE sorted[IF idx < 1 THEN 1 ELSE idx]

\* stats of a tool's samples.
Stats(samples) ==
    LET vals == [k \in 1 .. Len(samples) |-> samples[k].value]
    IN  [count |-> Len(vals), p50 |-> Percentile(vals, 50),
         p95 |-> Percentile(vals, 95), p99 |-> Percentile(vals, 99)]

-----------------------------------------------------------------------------
(* Properties *)

RowsOf(t) == {k \in kept + 1 .. Len(rows) : rows[k].call.tool = t}

\* The metrics and the store tell the same of the process's executions: a tool's
\* samples are its rows that were within the window at the last of them, in
\* their order, and its count is that of all its rows, also when an insert
\* failed between two calls of an answer.
SamplesAreRecentRows ==
    \A t \in Tools :
        LET s      == tools[t].samples
            last   == CHOOSE k \in RowsOf(t) : \A j \in RowsOf(t) : j <= k
            recent == {k \in RowsOf(t) : rows[k].ts >= rows[last].ts - Window}
        IN  /\ tools[t].count = Cardinality(RowsOf(t))
            /\ Len(s) = Cardinality(recent)
            /\ \A k \in recent :
                  s[Cardinality({j \in recent : j <= k})] =
                      [value |-> rows[k].call.ms, ts |-> rows[k].ts]

Rank(samples, v) == Cardinality({k \in 1 .. Len(samples) : samples[k].value <= v})

\* v is the shortest duration of which p percent of the samples are no longer.
NearestRank(samples, v, p) ==
    /\ \E k \in 1 .. Len(samples) : samples[k].value = v
    /\ 100 * Rank(samples, v) >= p * Len(samples)
    /\ \A k \in 1 .. Len(samples) :
          samples[k].value < v =>
              100 * Rank(samples, samples[k].value) < p * Len(samples)

\* p50, p95 and p99 of a snapshot are durations of which that share of the
\* samples is no longer, and the shortest such.
PercentilesAreNearestRank ==
    \A t \in Tools :
        LET samples == tools[t].samples
            stats   == Stats(samples)
        IN  samples # <<>> => /\ NearestRank(samples, stats.p50, 50)
                              /\ NearestRank(samples, stats.p95, 95)
                              /\ NearestRank(samples, stats.p99, 99)
=============================================================================
