----------------------------- MODULE MetricQuery -----------------------------
(***************************************************************************)
(* One evaluation of a query on metrics: each matched series is read in    *)
(* the order of time and id, transformed sample by sample, and folded into *)
(* points, windows or one value per series as the query's shape asks       *)
(* (src/eventd/src/query/executor.rs).                                     *)
(*                                                                         *)
(* Numbers are fractions: a rate is a difference over the time it took,    *)
(* without the factor to seconds, and an average a sum over a count.  A    *)
(* sample that the predicates, the cross-type ranges or the caller's       *)
(* grants leave out is hidden.  Series are numbered in the order of their  *)
(* names and labels; SORT keys, rollups and withheld fields are elsewhere  *)
(* or left out.                                                            *)
(***************************************************************************)
EXTENDS TimeRanges

CONSTANTS MetricScenes,     \* the queries and series evaluated, as a sequence of sets
          CountMax          \* u64::MAX, for the counts of a histogram

VARIABLES metric,       \* the query and the series
          stage,        \* where the evaluation is
          unread,       \* samples of the series at hand yet to be read
          index,        \* the series at hand
          previous,     \* Transformer::previous
          sink,         \* what MetricSink holds
          results       \* the result rows

metricVars == <<metric, stage, unread, index, previous, sink, results>>

Asked == metric.query
PairTransform == Asked.transform \in {"rate", "delta"}

(***************************************************************************)
(* Fractions; a denominator of zero stands for no value at all.            *)
(***************************************************************************)
Whole(n) == [num |-> n, den |-> 1]
NoValue == [num |-> 0, den |-> 0]
Plus(a, b) == IF a.den = b.den THEN [num |-> a.num + b.num, den |-> a.den]
              ELSE [num |-> a.num * b.den + b.num * a.den, den |-> a.den * b.den]
Over(a, n) == [num |-> a.num, den |-> a.den * n]
LessThan(a, b) == a.num * b.den < b.num * a.den
SameNumber(a, b) == (a.den = 0) = (b.den = 0) /\ a.num * b.den = b.num * a.den

(***************************************************************************)
(* A fold: one window's, or one series', aggregation.  A point has a time, *)
(* a value, and for a pair the difference and the time it took.            *)
(***************************************************************************)
Point(series, id, at, value, delta, elapsed) ==
    [series |-> series, id |-> id, at |-> at, value |-> value, delta |-> delta, elapsed |-> elapsed]

NewFold(point) ==
    [count |-> 1, total |-> point.value, least |-> point.value, most |-> point.value,
     overflow |-> point.value = NoValue,
     delta |-> point.delta, elapsed |-> point.elapsed, latest |-> point.at]

FoldPoint(fold, point) ==
    [count    |-> fold.count + 1,
     total    |-> Plus(fold.total, point.value),
     least    |-> IF LessThan(point.value, fold.least) THEN point.value ELSE fold.least,
     most     |-> IF LessThan(fold.most, point.value) THEN point.value ELSE fold.most,
     overflow |-> fold.overflow \/ point.value = NoValue,
     delta    |-> fold.delta + point.delta,
     elapsed  |-> fold.elapsed + point.elapsed,
     latest   |-> Larger(fold.latest, point.at)]

\* A window of a rate or a delta sums its pairs, over the time they cover.
FoldValue(fold, function, pairs) ==
    CASE pairs = "rate" -> [num |-> fold.delta, den |-> fold.elapsed]
      [] pairs = "delta" -> Whole(fold.delta)
      [] pairs = "none" /\ fold.overflow -> NoValue
      [] pairs = "none" /\ ~fold.overflow ->
             CASE function = "avg" -> Over(fold.total, fold.count)
               [] function = "sum" -> fold.total
               [] function = "min" -> fold.least
               [] function = "max" -> fold.most

\* Windows are aligned to the epoch, below it too.
WindowStart(at, width) == (at \div width) * width

WindowsPush(windows, point) ==
    LET start == WindowStart(point.at, Asked.width)
    IN  IF start \in DOMAIN windows
        THEN [windows EXCEPT ![start] = FoldPoint(@, point)]
        ELSE (start :> NewFold(point)) @@ windows

Row(series, at, value, tie) == [series |-> series, at |-> at, value |-> value, tie |-> tie]

\* One row for each window, in the order of their starts.
WindowsRows(windows, pairs, series) ==
    LET starts == SetToSortSeq(DOMAIN windows, <)
    IN  [i \in DOMAIN starts |->
            Row(series, starts[i], FoldValue(windows[starts[i]], Asked.function, pairs), series)]

(***************************************************************************)
(* The sink: where points go, chosen once from the query's shape.          *)
(***************************************************************************)
\* Mutation: windows of several series' pairs are pooled, not combined.
ModePooled ==
    CASE Asked.width > 0 -> IF Asked.bracketed THEN "series windows" ELSE "shared"
      [] Asked.width = 0 /\ Asked.function # "none" ->
             IF Asked.bracketed \/ Asked.ranged THEN "per series" ELSE "reduced"
      [] Asked.function = "none" ->
             IF Asked.ranged THEN "points" ELSE IF Asked.bracketed THEN "latest" ELSE "reduced"

Mode ==
    CASE Asked.width > 0 -> IF Asked.bracketed THEN "series windows"
                            ELSE IF PairTransform THEN "combined" ELSE "shared"
      [] Asked.width = 0 /\ Asked.function # "none" ->
             IF Asked.bracketed \/ Asked.ranged THEN "per series" ELSE "reduced"
      [] Asked.function = "none" ->
             IF Asked.ranged THEN "points" ELSE IF Asked.bracketed THEN "latest" ELSE "reduced"

\* The transform whose pairs a window sums.
Pairs == IF PairTransform THEN Asked.transform ELSE "none"

\* current: the fold or the latest point of the series at hand; windows: its
\* windows; shared: windows of all series; points: what is kept across series.
EmptySink == [current |-> <<>>, windows |-> <<>>, shared |-> <<>>, points |-> <<>>]

SinkPush(point) ==
    CASE Mode = "points" -> [sink EXCEPT !.points = Append(@, point)]
      [] Mode \in {"latest", "reduced"} -> [sink EXCEPT !.current = <<point>>]
      [] Mode = "per series" ->
             [sink EXCEPT !.current = IF @ = <<>> THEN <<NewFold(point)>>
                                      ELSE <<FoldPoint(@[1], point)>>]
      [] Mode \in {"series windows", "combined"} ->
             [sink EXCEPT !.windows = WindowsPush(@, point)]
      [] Mode = "shared" -> [sink EXCEPT !.shared = WindowsPush(@, point)]

\* Each window of a series is one value of the combined window.
CombineRows(windows, rows) ==
    FoldLeft(LAMBDA acc, row : WindowsPush(acc, Point(0, 0, row.at, row.value, 0, 0)), windows, rows)

(***************************************************************************)
(* Opening the query.                                                      *)
(***************************************************************************)
NoMetric ==
    [query |-> [transform |-> "none", percentile |-> 0, function |-> "none", width |-> 0,
                ranged |-> TRUE, bracketed |-> TRUE, since |-> 0, until |-> 0,
                skip |-> 0, take |-> -1],
     types |-> <<>>, series |-> <<>>]

MetricBegin(m) ==
    /\ metric = m
    /\ stage = "start" /\ unread = <<>> /\ index = 1 /\ previous = <<>>
    /\ sink = EmptySink /\ results = <<>>

MetricInit == \E i \in DOMAIN MetricScenes : \E m \in MetricScenes[i] : MetricBegin(m)
MetricIdle == MetricBegin(NoMetric)

\* Which transform each type of metric allows.
ValidPipeline(type) ==
    \/ type \in {"counter", "gauge"} /\ Asked.transform = "none"
    \/ type = "counter" /\ PairTransform
    \/ type = "histogram" /\ Asked.transform = "percentile"

Mixed == \E i, j \in DOMAIN metric.types : metric.types[i] # metric.types[j]

NeedsWindow ==
    ~Asked.bracketed /\ Asked.ranged /\ Len(metric.series) > 1 /\ Asked.width = 0

OpenQuery ==
    /\ stage = "start"
    /\ stage' = IF metric.series = <<>> THEN "done"
                ELSE IF Mixed \/ ~ValidPipeline(metric.types[1]) \/ NeedsWindow THEN "error"
                ELSE "open"
    /\ UNCHANGED <<metric, unread, index, previous, sink, results>>

(***************************************************************************)
(* Reading and transforming one series.                                    *)
(***************************************************************************)
\* A pair transform starts from the sample in force when the range begins.
ToRead(samples) ==
    IF PairTransform THEN SamplesRead(samples, Asked.since, Asked.until)
    ELSE SelectSeq(samples, LAMBDA s : s.at >= Asked.since /\ s.at < Asked.until)

OpenSeries ==
    /\ stage = "open" /\ index <= Len(metric.series)
    /\ stage' = "read"
    /\ unread' = ToRead(metric.series[index])
    /\ previous' = <<>>
    /\ UNCHANGED <<metric, index, sink, results>>

\* A value below the one before is a counter that began again.
Adjusted(earlier, later) == IF later >= earlier THEN later - earlier ELSE later

PairPoint(series, before, sample) ==
    LET elapsed == sample.at - before.at
        delta == Adjusted(before.n, sample.n)
    IN  Point(series, sample.id, sample.at,
              IF Asked.transform = "rate" THEN [num |-> delta, den |-> elapsed] ELSE Whole(delta),
              delta, elapsed)

\* Mutation: the rank is rounded down.
RankDown(total, percentile) == IF total * percentile + 99 > CountMax THEN -1
                               ELSE (total * percentile) \div 100

\* The rank of a percentile, rounded up; -1 when it overflows.
Rank(total, percentile) == IF total * percentile + 99 > CountMax THEN -1
                           ELSE (total * percentile + 99) \div 100

\* The first boundary whose cumulative count reaches the rank; the boundaries
\* are 1, 2, 3 and so on.
HistogramPercentile(counts, total, percentile) ==
    LET reached == {b \in DOMAIN counts : counts[b] >= Rank(total, percentile)}
    IN  IF reached = {} THEN NoValue ELSE Whole(Min(reached))

\* The point a sample gives rise to, if any.
Transformed(sample) ==
    CASE Asked.transform = "none" ->
             IF sample.at >= Asked.since THEN <<Point(index, sample.id, sample.at, Whole(sample.n), 0, 0)>>
             ELSE <<>>
      [] Asked.transform = "percentile" ->
             IF sample.at < Asked.since \/ sample.n = 0 THEN <<>>
             ELSE <<Point(index, sample.id, sample.at,
                          HistogramPercentile(sample.counts, sample.n, Asked.percentile), 0, 0)>>
      [] PairTransform ->
             IF previous = <<>> \/ sample.at < Asked.since \/ sample.at <= previous[1].at THEN <<>>
             ELSE <<PairPoint(index, previous[1], sample)>>

RankOverflows(sample) ==
    Asked.transform = "percentile" /\ sample.n # 0 /\ Rank(sample.n, Asked.percentile) = -1

\* A hidden sample is not looked at, not even as the half of a pair.
ReadSample ==
    /\ stage = "read" /\ unread # <<>>
    /\ unread' = Tail(unread)
    /\ LET sample == Head(unread)
           point == Transformed(sample)
       IN  \/ sample.hidden /\ UNCHANGED <<stage, previous, sink>>
           \/ ~sample.hidden /\ RankOverflows(sample)
              /\ stage' = "error" /\ UNCHANGED <<previous, sink>>
           \/ /\ ~sample.hidden /\ ~RankOverflows(sample)
              /\ previous' = IF PairTransform THEN <<sample>> ELSE previous
              /\ sink' = IF point = <<>> THEN sink ELSE SinkPush(point[1])
              /\ UNCHANGED stage
    /\ UNCHANGED <<metric, index, results>>

EndSeries ==
    /\ stage = "read" /\ unread = <<>>
    /\ stage' = "open"
    /\ index' = index + 1
    /\ \/ /\ Mode \in {"points", "shared"}
          /\ UNCHANGED <<sink, results>>
       \/ /\ Mode \in {"latest", "reduced"}
          /\ sink' = [sink EXCEPT !.points = @ \o sink.current, !.current = <<>>]
          /\ UNCHANGED results
       \/ /\ Mode = "per series"
          /\ results' = results \o [i \in DOMAIN sink.current |->
                 Row(index, sink.current[i].latest,
                     FoldValue(sink.current[i], Asked.function, "none"), index)]
          /\ sink' = [sink EXCEPT !.current = <<>>]
       \/ /\ Mode = "series windows"
          /\ results' = results \o WindowsRows(sink.windows, Pairs, index)
          /\ sink' = [sink EXCEPT !.windows = <<>>]
       \/ /\ Mode = "combined"
          /\ sink' = [sink EXCEPT !.windows = <<>>,
                                  !.shared = CombineRows(@, WindowsRows(sink.windows, Pairs, 0))]
          /\ UNCHANGED results
    /\ UNCHANGED <<metric, unread, previous>>

\* Without an aggregate the latest values are averaged.
Reduced(points) ==
    LET fold == FoldLeft(FoldPoint, NewFold(points[1]), Tail(points))
        function == IF Asked.function = "none" THEN "avg" ELSE Asked.function
    IN  Row(0, fold.latest, FoldValue(fold, function, "none"), 0)

Finished ==
    CASE Mode \in {"points", "latest"} ->
             [i \in DOMAIN sink.points |->
                 Row(sink.points[i].series, sink.points[i].at, sink.points[i].value, sink.points[i].id)]
      [] Mode = "reduced" -> IF sink.points = <<>> THEN <<>> ELSE <<Reduced(sink.points)>>
      [] Mode = "combined" -> WindowsRows(sink.shared, "none", 0)
      [] Mode = "shared" -> WindowsRows(sink.shared, Pairs, 0)
      [] Mode \in {"per series", "series windows"} -> results

\* By time, then name and labels, then id.
RowBefore(a, b) ==
    \/ a.at < b.at
    \/ a.at = b.at /\ a.series < b.series
    \/ a.at = b.at /\ a.series = b.series /\ a.tie < b.tie

Page(rows) ==
    LET rest == SubSeq(rows, Asked.skip + 1, Len(rows))
    IN  IF Asked.take >= 0 THEN SubSeq(rest, 1, Smaller(Asked.take, Len(rest))) ELSE rest

FinishQuery ==
    /\ stage = "open" /\ index > Len(metric.series)
    /\ stage' = "done"
    /\ results' = Page(SortSeq(Finished, RowBefore))
    /\ UNCHANGED <<metric, unread, index, previous, sink>>

MetricNext == OpenQuery \/ OpenSeries \/ ReadSample \/ EndSeries \/ FinishQuery

(***************************************************************************)
(* What a metric query should answer, from the samples by definition.      *)
(***************************************************************************)
InRange(s) == s.at >= Asked.since /\ s.at < Asked.until

\* The samples of a series in the range, and for a pair the one it starts from.
Earlier(samples, k) ==
    LET from == {j \in 1..(k - 1) : ~samples[j].hidden}
        inside == {j \in from : InRange(samples[j])}
        last == {j \in 1..(k - 1) : samples[j].at < Asked.since}
    IN  IF inside # {} THEN {Max(inside)} ELSE IF last = {} THEN {} ELSE {Max(last)} \intersect from

\* The values a series contributes, each with its time, by its sample's index.
Contributions(i) ==
    LET samples == metric.series[i]
        shown == {k \in DOMAIN samples : InRange(samples[k]) /\ ~samples[k].hidden}
        pair(k) == CHOOSE j \in Earlier(samples, k) : TRUE
    IN  CASE Asked.transform = "none" ->
                 {Point(i, samples[k].id, samples[k].at, Whole(samples[k].n), 0, 0) : k \in shown}
          [] Asked.transform = "percentile" ->
                 {Point(i, samples[k].id, samples[k].at,
                        LET enough == {b \in DOMAIN samples[k].counts :
                                           samples[k].counts[b] * 100 >= samples[k].n * Asked.percentile}
                        IN  IF enough = {} THEN NoValue ELSE Whole(Min(enough)), 0, 0) :
                     k \in {j \in shown : samples[j].n > 0}}
          [] PairTransform ->
                 {PairPoint(i, samples[pair(k)], samples[k]) :
                     k \in {j \in shown : /\ Earlier(samples, j) # {}
                                          /\ samples[pair(j)].at < samples[j].at}}

FractionSum(points) == FoldSet(LAMBDA p, acc : Plus(acc, p.value), Whole(0), points)
Overflowed(points) == \E p \in points : p.value = NoValue

Aggregate(points, function) ==
    IF Overflowed(points) THEN NoValue
    ELSE CASE function = "avg" -> Over(FractionSum(points), Cardinality(points))
           [] function = "sum" -> FractionSum(points)
           [] function = "min" -> (CHOOSE p \in points : \A q \in points : ~LessThan(q.value, p.value)).value
           [] function = "max" -> (CHOOSE p \in points : \A q \in points : ~LessThan(p.value, q.value)).value

\* A window's value: what its pairs sum to, or the function over its values.
WindowValue(points) ==
    LET delta == MapThenSumSet(LAMBDA p : p.delta, points)
    IN  CASE Asked.transform = "delta" -> Whole(delta)
          [] Asked.transform = "rate" -> [num |-> delta, den |-> MapThenSumSet(LAMBDA p : p.elapsed, points)]
          [] OTHER -> Aggregate(points, Asked.function)

StartOf(at) == CHOOSE s \in (at - Asked.width + 1)..at : s % Asked.width = 0
Starts(points) == {StartOf(p.at) : p \in points}
Inside(points, start) == {p \in points : p.at >= start /\ p.at < start + Asked.width}

Latest(points) == CHOOSE p \in points : \A q \in points : q.at < p.at \/ (q.at = p.at /\ q.id <= p.id)

\* by: the points each series contributes; all: those of all series.
ExpectedWindows(by, all) ==
    IF Asked.bracketed
    THEN UNION {{Row(i, s, WindowValue(Inside(by[i], s)), i) : s \in Starts(by[i])} : i \in DOMAIN by}
    ELSE IF PairTransform
    THEN {Row(0, s, Aggregate({Point(i, 0, s, WindowValue(Inside(by[i], s)), 0, 0) :
                                  i \in {j \in DOMAIN by : Inside(by[j], s) # {}}},
                              Asked.function), 0) : s \in Starts(all)}
    ELSE {Row(0, s, WindowValue(Inside(all, s)), 0) : s \in Starts(all)}

ReducedRow(latest) ==
    Row(0, Max({p.at : p \in latest}),
        Aggregate(latest, IF Asked.function = "none" THEN "avg" ELSE Asked.function), 0)

ExpectedRows(by, all) ==
    LET some == {i \in DOMAIN by : by[i] # {}}
        latest == {Latest(by[i]) : i \in some}
    IN  IF Asked.width > 0 THEN ExpectedWindows(by, all)
        ELSE IF Asked.function # "none" /\ (Asked.bracketed \/ Asked.ranged)
        THEN {Row(i, Latest(by[i]).at, Aggregate(by[i], Asked.function), i) : i \in some}
        ELSE IF Asked.ranged \/ Asked.bracketed
        THEN {Row(p.series, p.at, p.value, p.id) : p \in IF Asked.ranged THEN all ELSE latest}
        ELSE IF latest = {} THEN {} ELSE {ReducedRow(latest)}

Wanted ==
    LET by == [i \in DOMAIN metric.series |-> Contributions(i)]
    IN  Page(SetToSortSeq(ExpectedRows(by, UNION Range(by)), RowBefore))

SameRows(got, wanted) ==
    /\ Len(got) = Len(wanted)
    /\ \A i \in DOMAIN got :
           /\ got[i].at = wanted[i].at /\ got[i].series = wanted[i].series
           /\ SameNumber(got[i].value, wanted[i].value)

RowsExact == stage = "done" /\ metric.series # <<>> => SameRows(results, Wanted)

\* What a series increased by between two times, as DELTA over the range sums it.
Increase(samples, since, until) ==
    LET read == SamplesRead(samples, since, until)
    IN  MapThenSumSet(LAMBDA k : Adjusted(read[k - 1].n, read[k].n),
                      {k \in 2..Len(read) : read[k].at >= since /\ read[k].at > read[k - 1].at})

\* NO INCREASE IS LOST BETWEEN RANGES.  Wherever a range is cut in two, what a
\* counter increased by in the parts adds up to what it did in the whole: the
\* pair across the cut belongs to the later part.
DeltaAdditive ==
    PairTransform => \A i \in DOMAIN metric.series : \A cut \in Asked.since..Asked.until :
        Increase(metric.series[i], Asked.since, Asked.until)
            = Increase(metric.series[i], Asked.since, cut) + Increase(metric.series[i], cut, Asked.until)

\* THE METRIC ANSWER IS BY DEFINITION.  Reading sample by sample, holding one
\* pair and one fold at a time, gives the rows that the samples of the range
\* define when they are all looked at together, in the documented order; a
\* percentile is the first boundary that enough counts reach; and no increase is
\* lost where a range is cut (executor.rs, read_series, Transformer::push,
\* MetricSink and histogram_percentile).
MetricExact == RowsExact /\ DeltaAdditive
=============================================================================
