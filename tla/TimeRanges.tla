----------------------------- MODULE TimeRanges -----------------------------
(***************************************************************************)
(* Cross-type conditions: the ranges of time in which every condition of a *)
(* query on another store holds, worked out once for the history, and the  *)
(* judgement of a batch while a stream watches                             *)
(* (src/eventd/src/query/executor.rs).                                     *)
(*                                                                         *)
(* A condition on a metric is the samples of its one series, in the order  *)
(* of time and id, each with whether the comparison holds of it.  A        *)
(* condition that an event or a log exists is the times of those the       *)
(* caller may see.                                                         *)
(***************************************************************************)
EXTENDS Integers, Sequences, FiniteSets, FiniteSetsExt, SequencesExt, TLC

Larger(m, n) == IF m < n THEN n ELSE m
Smaller(m, n) == IF m < n THEN m ELSE n

TimeRange(start, end) == [start |-> start, end |-> end]
Proper(range) == range.start < range.end

\* The window is split with the odd nanosecond after the record.
LowerHalf(window) == window \div 2
UpperHalf(window) == window - LowerHalf(window)

MergeRange(merged, range) ==
    IF merged # <<>> /\ range.start <= Last(merged).end
    THEN [merged EXCEPT ![Len(merged)].end = Larger(@, range.end)]
    ELSE Append(merged, range)

MergeRanges(ranges) ==
    FoldLeft(MergeRange, <<>>,
             SortSeq(ranges, LAMBDA a, b : a.start < b.start \/ (a.start = b.start /\ a.end < b.end)))

ExistenceRanges(times, since, until, window) ==
    LET around == [i \in DOMAIN times |->
                      TimeRange(Larger(times[i] - LowerHalf(window), since),
                                Smaller(times[i] + UpperHalf(window), until))]
    IN  MergeRanges(SelectSeq(around, Proper))

\* cross_event_timestamps and cross_log_timestamps: those that can matter.
Timestamps(times, since, until, window) ==
    SelectSeq(times, LAMBDA t : t >= since - UpperHalf(window) /\ t < until + LowerHalf(window))

\* Mutation: the sample before the range is not read.
SamplesWithin(samples, since, until) ==
    SelectSeq(samples, LAMBDA s : s.at >= since /\ s.at < until)

\* The sample in force when the range begins, then those in it.
SamplesRead(samples, since, until) ==
    LET before == SelectSeq(samples, LAMBDA s : s.at < since)
    IN  (IF before = <<>> THEN <<>> ELSE <<Last(before)>>)
            \o SelectSeq(samples, LAMBDA s : s.at >= since /\ s.at < until)

MetricTrueRanges(samples, since, until) ==
    LET read == SamplesRead(samples, since, until)
        end(i) == IF i < Len(read) THEN Smaller(read[i + 1].at, until) ELSE until
        span == [i \in DOMAIN read |->
                    [range |-> TimeRange(Larger(read[i].at, since), end(i)),
                     holds |-> read[i].holds]]
        kept == SelectSeq(span, LAMBDA s : s.holds /\ Proper(s.range))
    IN  MergeRanges([i \in DOMAIN kept |-> kept[i].range])

\* The latest sample at or before t decides; none decides against.
MetricConditionAt(samples, t) ==
    LET before == SelectSeq(samples, LAMBDA s : s.at <= t)
    IN  before # <<>> /\ Last(before).holds

\* Mutation: the range that ends later is left behind.
AdvanceWrong(left, right, l, r) == left[l].end > right[r].end

\* Whether the walk goes on in the left ranges.
AdvanceLeft(left, right, l, r) == left[l].end <= right[r].end

RECURSIVE IntersectFrom(_, _, _, _)

IntersectFrom(left, right, l, r) ==
    IF l > Len(left) \/ r > Len(right) THEN <<>>
    ELSE LET common == TimeRange(Larger(left[l].start, right[r].start),
                                 Smaller(left[l].end, right[r].end))
             more == IF AdvanceLeft(left, right, l, r)
                     THEN IntersectFrom(left, right, l + 1, r)
                     ELSE IntersectFrom(left, right, l, r + 1)
         IN  IF Proper(common) THEN <<common>> \o more ELSE more

IntersectRanges(left, right) == IntersectFrom(left, right, 1, 1)

\* The last range that starts at or before t.
RangeContains(ranges, t) ==
    LET index == Cardinality({i \in DOMAIN ranges : ranges[i].start <= t})
    IN  index # 0 /\ t < ranges[index].end

CrossFilterRanges(filter, since, until, window) ==
    IF filter.metric THEN MetricTrueRanges(filter.samples, since, until)
    ELSE ExistenceRanges(Timestamps(filter.times, since, until, window), since, until, window)

CrossTypeRanges(filters, since, until, window) ==
    FoldLeft(LAMBDA ranges, filter :
                 IntersectRanges(ranges, CrossFilterRanges(filter, since, until, window)),
             <<TimeRange(since, until)>>, filters)

\* One condition on a batch of record times: a metric is judged once, at the
\* latest of the batch as it was read.
WatchFilter(times, filter, first, last, window) ==
    IF filter.metric
    THEN IF MetricConditionAt(filter.samples, last) THEN times ELSE <<>>
    ELSE LET ranges == CrossFilterRanges(filter, first, last + 1, window)
         IN  SelectSeq(times, LAMBDA t : RangeContains(ranges, t))

ApplyWatchCrossFilters(times, filters, window) ==
    IF times = <<>> THEN <<>>
    ELSE LET first == Min(ToSet(times))
             last == Max(ToSet(times))
         IN  FoldLeft(LAMBDA kept, filter : WatchFilter(kept, filter, first, last, window),
                      times, filters)

(***************************************************************************)
(* What a condition means at a time.                                       *)
(***************************************************************************)
Holds(filter, t, window) ==
    IF filter.metric
    THEN LET before == {i \in DOMAIN filter.samples : filter.samples[i].at <= t}
         IN  before # {} /\ filter.samples[Max(before)].holds
    ELSE \E i \in DOMAIN filter.times :
             filter.times[i] - LowerHalf(window) <= t /\ t < filter.times[i] + UpperHalf(window)
=============================================================================
