---------------------------- MODULE MCSmallParts ----------------------------
(***************************************************************************)
(* Small instances of the parts: values, events, payloads, queries, series *)
(* and directories that meet the cases of the code, for TLC.               *)
(***************************************************************************)
EXTENDS SmallParts

\* Integers of 5 bits.
SignedMaxDef == 15

AllKinds == {"values", "reconcile", "records", "metrics", "quarantine", "synthetic"}
RecordsOnly == {"records"}

\* The text a, A, b.
a == <<97>>
A == <<65>>
b == <<98>>

(***************************************************************************)
(* Values around the steps of the floats, the ends of both integer types,  *)
(* letters that differ in case, and NaNs of two bit patterns.              *)
(***************************************************************************)
SamplesDef ==
    {Null, Bool(FALSE), Bool(TRUE), NaN(0), NaN(1), Text(a), Text(A), Text(b), Text(A \o b), Binary(a)}
        \union {Signed(n) : n \in {-16, -9, -1, 0, 4, 9, 15}}
        \union {Unsigned(n) : n \in {0, 4, 9, 10, 15, 17, 31}}
        \union {Float(h) : h \in {-40, -32, -20, -1, 7, 8, 16, 20, 32, 64}}
        \union {Array(<<>>), Array(<<Signed(9)>>), Array(<<Float(20), Text(a)>>), Array(<<Text(A)>>),
                Array(<<NaN(0), Text(a)>>), Array(<<NaN(1), Text(A)>>)}

(***************************************************************************)
(* Queries on records.                                                     *)
(***************************************************************************)
Event(shard, id, time, cpu, class, type, payload) ==
    [shard |-> shard, id |-> id, at |-> time, cpu |-> cpu, class |-> class, type |-> type,
     payload |-> payload]
Plain(shard, id, time, cpu) == Event(shard, id, time, cpu, Unsigned(0), a, <<>>)

Scene(query, shards, material) ==
    [query |-> query, shards |-> shards, material |-> material, readable |-> {a, A}]
Query0 == [NoQuery.query EXCEPT !.until = 9]

By(field, descending) == [field |-> field, descending |-> descending]

\* Up to two events in each shard, with few times and CPUs, so that all ties
\* occur; pages that begin and end among them.
Batches(shard) ==
    UNION {[1..n -> {1, 2} \X {Null, Unsigned(1)}] : n \in 0..2}
OrderScenes ==
    {Scene([Query0 EXCEPT !.skip = page[1], !.take = page[2], !.sort = sort, !.watch = watch],
           [s \in 1..2 |-> [i \in DOMAIN batch[s] |-> Plain(s, i, batch[s][i][1], batch[s][i][2])]], {}) :
        page \in {<<0, -1>>, <<0, 1>>, <<1, 2>>, <<2, 0>>},
        sort \in {<<>>, <<By(Cpu, TRUE)>>},
        watch \in {FALSE, TRUE},
        batch \in [1..2 -> Batches(1)]}

\* One event, and every predicate of these: times about the ends of the range,
\* header comparisons, payload fields with and without an index.
K == <<"k">>
X == <<"x">>
XY == <<"x", "y">>
Payloads ==
    {<<>>, <<Leaf("x", Text(A))>>, <<Leaf("x", Unsigned(3))>>, <<Leaf("x", Null)>>,
     <<Map("x", <<Leaf("y", Text(a))>>)>>, <<Map("x", <<Leaf("y", Bool(TRUE))>>), Leaf("x", Text(b))>>,
     <<Leaf("x", Text(b)), Leaf("x", Text(a))>>,
     <<Map("event", <<Leaf("cpu", Unsigned(7)), Map("type", <<Leaf("x", Text(a))>>)>>), Leaf("?", Text(a))>>,
     <<Leaf("x", Array(<<Text(A), Unsigned(1)>>))>>}
TimePredicates ==
    {Compare(Time, op, lit) : op \in {"=", "<>", "<", "<=", ">", ">="},
                              lit \in {Signed(-16), Signed(2), Unsigned(15), Unsigned(31), Float(5), Text(a)}}
CpuPredicates ==
    {Compare(Cpu, op, lit) : op \in {"=", "<>", "<=", ">"}, lit \in {Unsigned(0), Unsigned(20), Float(1)}}
        \union {IsNull(Cpu, FALSE), In(Cpu, TRUE, <<Unsigned(2)>>), In(Cpu, FALSE, <<Float(4), Text(a)>>)}
ClassPredicates ==
    {Compare(Class, op, lit) : op \in {"=", "<>"}, lit \in {Text(A), Text(b), Text(A \o b), Unsigned(1)}}
TypePredicates == {Compare(Type, op, Text(t)) : op \in {"=", "<>", "starts"}, t \in {a, A, b}}
PayloadPredicates ==
    {Compare(field, "=", lit) : field \in {X, XY}, lit \in {Text(a), Text(b), Bool(TRUE), Unsigned(3)}}
        \union {IsNull(field, negated) : field \in {X, XY}, negated \in BOOLEAN}
        \union {Compare(X, op, Text(A)) : op \in {"<>", "has", "contains", "ends"}}
        \union {IsNull(<<"event", "type", "x">>, FALSE), Compare(<<"event", "type", "x">>, "=", Text(a)),
                And(Compare(X, "=", Text(a)), IsNull(XY, FALSE)),
                Or(Compare(X, "=", Text(a)), IsNull(XY, FALSE))}

Judged(time, cpu, class, type, payload, predicates, material) ==
    Scene([Query0 EXCEPT !.predicates = predicates, !.since = -16, !.until = 15],
          <<<<Event(1, 1, time, cpu, class, type, payload)>>>>, material)

PredicateScenes ==
    {Judged(time, Null, Null, a, <<>>, <<p>>, {}) : time \in {-16, 1, 2, 3, 14}, p \in TimePredicates}
    \union {Judged(2, Null, Null, a, <<>>, <<p, q>>, {}) : p \in TimePredicates, q \in TimePredicates}
    \union {Judged(1, cpu, Null, a, <<>>, <<p>>, {}) :
               cpu \in {Null, Unsigned(0), Unsigned(2)}, p \in CpuPredicates}
    \union {Judged(1, Null, class, a, <<>>, <<p>>, {}) :
               class \in {Null, Unsigned(0), Unsigned(1)}, p \in ClassPredicates}
    \union {Judged(1, Null, Null, type, <<>>, <<p>>, {}) : type \in {a, A, b}, p \in TypePredicates}
    \union {Judged(1, Unsigned(0), Null, a, payload, ps, material) :
               payload \in Payloads,
               ps \in {<<p>> : p \in PayloadPredicates}
                      \union {<<p, Compare(Cpu, "=", Unsigned(0))>> : p \in PayloadPredicates},
               material \in {{}, {X}, {XY}, {X, XY}}}

\* Three events of one shard with a value each, read in any order.
GroupValues ==
    <<Null, Text(a), Text(A), Unsigned(9), Float(16), Float(20), Signed(10), NaN(0), Array(<<Text(A)>>)>>
SumValues == <<Null, Signed(-16), Signed(9), Unsigned(9), Unsigned(15), Unsigned(31)>>

Grouped(values, triples, query) ==
    {Scene(query, <<[i \in 1..3 |-> Event(1, i, i, Null, Null, a,
                        <<Leaf("x", values[t[i]])>> \o (IF i = 1 THEN <<Leaf("k", Text(a))>> ELSE <<Leaf("k", Text(A))>>))]>>, {}) :
        t \in triples}
Ascending(n) == {t \in [1..3 -> 1..n] : t[1] <= t[2] /\ t[2] <= t[3]}

\* The sums that one of the integer types can hold.
InRangeSums == {t \in Ascending(Len(SumValues)) :
    LET n(i) == IF SumValues[t[i]] = Null THEN 0 ELSE SumValues[t[i]].v[1]
    IN  n(1) + n(2) + n(3) \in SignedMin..UnsignedMax}

GroupScenes ==
    UNION {Grouped(GroupValues, Ascending(Len(GroupValues)),
                   [Query0 EXCEPT !.aggregate = aggregate, !.fields = <<X>>, !.top = 1,
                                  !.skip = page[1], !.take = page[2], !.sort = sort]) :
               aggregate \in {"distinct", "top", "count"},
               page \in {<<0, -1>>, <<1, 1>>}, sort \in {<<>>, <<By(X, TRUE)>>, <<By(<<"count">>, FALSE)>>}}
    \union Grouped(GroupValues, Ascending(Len(GroupValues)),
                   [Query0 EXCEPT !.aggregate = "distinct", !.fields = <<X>>, !.watch = TRUE])
    \union UNION {Grouped(SumValues, InRangeSums,
                   [Query0 EXCEPT !.aggregate = aggregate, !.fields = fields, !.of = X]) :
               aggregate \in {"group count", "min", "max", "sum"}, fields \in {<<K>>, <<Cpu, K>>}}

\* An event at every time, so that the answer shows the times that pass.
Metric(samples) == [metric |-> TRUE, samples |-> samples, times |-> <<>>]
Exists0(times) == [metric |-> FALSE, samples |-> <<>>, times |-> times]
SomeSamples ==
    UNION {{s \in [1..n -> [at : {-1, 1, 3}, holds : BOOLEAN]] : \A i \in 1..(n - 1) : s[i].at <= s[i + 1].at} :
               n \in 0..3}
SomeTimes == {<<>>} \union {<<t>> : t \in -2..6} \union {<<t, u>> : t \in {-1, 0, 3}, u \in {1, 2, 4}}

Crossed(filters, window, since, watch, times) ==
    Scene([Query0 EXCEPT !.filters = filters, !.window = window, !.since = since, !.until = 5, !.watch = watch],
          <<[i \in 1..Len(times) |-> Plain(1, i, times[i], Null)]>>, {})

CrossScenes ==
    {Crossed(<<Metric(s)>>, 2, since, FALSE, <<0, 1, 2, 3, 4>>) : s \in SomeSamples, since \in {0, 2}}
    \union {Crossed(<<Exists0(t)>>, w, since, FALSE, <<0, 1, 2, 3, 4>>) :
               t \in SomeTimes, w \in 1..3, since \in {0, 2}}
    \union {Crossed(<<Exists0(t), Metric(s), Exists0(u)>>, w, 0, FALSE, <<0, 1, 2, 3, 4>>) :
               t \in {<<0, 2>>, <<1>>, <<3, 0>>}, u \in {<<1>>, <<4, 1>>}, w \in 2..3,
               s \in {x \in SomeSamples : Len(x) = 2}}
    \union {Crossed(f, w, -16, TRUE, times) :
               f \in {<<Exists0(t)>> : t \in SomeTimes}
                     \union {<<Metric(s), Exists0(<<2>>)>> : s \in {x \in SomeSamples : Len(x) = 2}},
               w \in 1..2, times \in {<<1, 3>>, <<4, 0>>, <<2, 3, 2>>}}

RecordScenesDef == <<OrderScenes, PredicateScenes, GroupScenes, CrossScenes>>

\* Payloads where a leaf comes before a map under the same key.
ShadowScenes ==
    <<{Judged(1, Unsigned(0), Null, a, <<Leaf("x", Unsigned(3)), Map("x", <<Leaf("y", value)>>)>>,
            <<IsNull(XY, FALSE)>>, {XY}) : value \in SamplesDef},
      PredicateScenes>>

(***************************************************************************)
(* Queries on metrics.                                                     *)
(***************************************************************************)
Sample(id, time, n, hidden) == [id |-> id, at |-> time, n |-> n, hidden |-> hidden, counts |-> <<>>]
Histogram(id, time, counts, total) ==
    [id |-> id, at |-> time, n |-> total, hidden |-> FALSE, counts |-> counts]

\* Three samples: times that tie, a counter that begins again, a hidden one.
Series(first) ==
    {[i \in 1..3 |-> Sample(first + i, times[i], n[i], i = hidden)] :
        times \in {<<-1, 1, 2>>, <<0, 1, 1>>, <<1, 2, 4>>, <<-3, -1, 4>>},
        n \in {<<1, 3, 4>>, <<3, 1, 2>>, <<2, 2, 0>>},
        hidden \in 0..2}
OneSeries == {<<s>> : s \in Series(0)}
TwoSeries == {<<s, t>> : s \in Series(0),
                         t \in {<<Sample(4, 0, 2, FALSE), Sample(5, 3, 4, FALSE)>>, <<>>,
                                <<Sample(4, -1, 5, FALSE), Sample(5, 1, 1, FALSE), Sample(6, 3, 2, FALSE)>>}}

MetricScene(transform, function, width, ranged, bracketed, series, type) ==
    [query |-> [NoMetric.query EXCEPT !.transform = transform, !.function = function, !.width = width,
                    !.ranged = ranged, !.bracketed = bracketed,
                    !.since = IF ranged THEN 0 ELSE -16, !.until = 4],
     types |-> [i \in DOMAIN series |-> type], series |-> series]

ScalarScenes ==
    {MetricScene(transform, function, 0, ranged, bracketed, series, "counter") :
        transform \in {"none", "rate", "delta"}, function \in {"none", "avg", "max"},
        ranged \in BOOLEAN, bracketed \in BOOLEAN, series \in TwoSeries}
WindowScenes ==
    {MetricScene(transform, function, 2, ranged, bracketed, series, "counter") :
        transform \in {"none", "rate", "delta"}, function \in {"avg", "sum", "min"},
        ranged \in BOOLEAN, bracketed \in BOOLEAN, series \in TwoSeries}

\* Percentiles; 200 is past the largest count whose rank can be worked out.
HistogramScenes ==
    {[MetricScene("percentile", function, width, TRUE, TRUE,
                  <<<<Histogram(1, 0, c, 5), Histogram(2, 1, d, total)>>>>, "histogram")
          EXCEPT !.query.percentile = p] :
        function \in {"max"}, width \in {0, 2}, c \in {<<1, 3, 5>>, <<0, 0, 4>>},
        d \in {<<1, 1>>, <<0, 2>>}, total \in {0, 1, 2, 3, 200}, p \in {0, 1, 20, 34, 50, 99, 100}}

\* Queries that are refused, and pages.
RefusedScenes ==
    {[MetricScene(transform, "none", 0, TRUE, bracketed, <<<<>>, <<>>>>, "gauge") EXCEPT !.types = types] :
        transform \in {"none", "rate", "percentile"}, bracketed \in BOOLEAN,
        types \in [1..2 -> {"counter", "gauge", "histogram"}]}
PageScenes ==
    {[MetricScene("none", "none", 0, TRUE, TRUE, series, "gauge")
                EXCEPT !.query.skip = skip, !.query.take = take] :
                series \in TwoSeries, skip \in {0, 2}, take \in {0, 2}}

MetricScenesDef == <<ScalarScenes, WindowScenes, HistogramScenes, RefusedScenes, PageScenes, {NoMetric}>>

(***************************************************************************)
(* Directories: sidecars there or not, copies and quarantined files left   *)
(* from earlier.                                                           *)
(***************************************************************************)
Directory(live, copies, earlier) ==
    [n \in Names |-> IF n[2] = "live" THEN (IF n[1] \in live THEN n[1] ELSE "none")
                     ELSE IF n[2] = "copy" THEN (IF n[1] \in copies THEN "partial" ELSE "none")
                     ELSE IF n \in earlier THEN "earlier" ELSE "none"]
DirectoriesDef ==
    {Directory({"db"} \union live, copies, earlier) :
        live \in SUBSET {"wal", "shm"}, copies \in {{}, {"wal"}},
        earlier \in {{}, {Name("wal", "corrupt")},
                     {Name("db", "corrupt"), Name("shm", "corrupt.1")}}}
=============================================================================
