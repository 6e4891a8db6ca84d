-------------------------- MODULE MCPrometheusClient --------------------------
(* Instances of PrometheusClient for TLC.                                  *)
EXTENDS PrometheusClient, TLC

CONSTANTS w1, w2, w3, r1, r2, cpu, mem

MCWriters == {w1, w2, w3}
MCReaders == {r1}
MCMetrics == {cpu, mem}
MCLabels == {"host", "core", "value"}

TimeSeries(metric, labels, samples) ==
    [metric |-> metric, labels |-> labels, samples |-> samples]

\* Two writers need different columns of two tables, of which one exists; the
\* third one has a label that nobody can store.
MCBatch ==
    (w1 :> <<TimeSeries(cpu, {"host"}, TRUE), TimeSeries(mem, {"core"}, TRUE)>>) @@
    (w2 :> <<TimeSeries(mem, {"host", "core"}, FALSE), TimeSeries(cpu, {"core"}, TRUE)>>) @@
    (w3 :> <<TimeSeries(cpu, {"host", "value"}, TRUE)>>)

\* One reader's second query is refused, the only one of the other has no matcher.
MCReaders2 == {r1, r2}
MCQueries == (r1 :> <<mem, BadQuery>>) @@ (r2 :> <<NoMatchers>>)

MCExisting == [m \in MCMetrics |-> IF m = mem THEN {Value} ELSE {}]

\* Two requests: the batch of one lacks a metric.
MCWriters2 == {w1, w2}
MCBatch2 == (w1 :> <<TimeSeries(cpu, {"host"}, TRUE), TimeSeries(mem, {"core"}, TRUE)>>) @@
            (w2 :> <<TimeSeries(mem, {"host"}, TRUE), TimeSeries(NoMetric, {}, TRUE)>>)
MCQueries2 == [r \in MCReaders |-> <<mem, cpu>>]
=============================================================================
