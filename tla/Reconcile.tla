----------------------------- MODULE Reconcile -----------------------------
(***************************************************************************)
(* The interval arithmetic behind gap detection, for one CPU's stream: how *)
(* receipt rows are merged into coverage (eventd-core/src/receipt.rs and   *)
(* shard.rs), and how the reconciler turns an observed sequence into gap   *)
(* ranges (eventd-core/src/reconcile.rs).  The other modules speak of sets *)
(* of sequences; this one shows that the ranges denote those sets.         *)
(*                                                                         *)
(* Limit stands for u64::MAX.  An event's timestamp is represented by its  *)
(* sequence, and 0 stands for no timestamp.                                *)
(***************************************************************************)
EXTENDS Integers, Sequences, FiniteSets, FiniteSetsExt, SequencesExt, TLC

CONSTANTS
    Limit,      \* the largest sequence
    MaxRows     \* bound: receipt rows found at startup

ASSUME LimitAssumption == Limit \in Nat \ {0} /\ MaxRows \in Nat

Intervals == {i \in [first : 1..Limit, last : 1..Limit] : i.first <= i.last}
Members(i) == i.first..i.last
Union(s) == UNION {Members(s[k]) : k \in DOMAIN s}

\* Saturating and checked addition of one.
SaturatingSucc(n) == IF n = Limit THEN n ELSE n + 1
MaxOf(a, b) == IF a < b THEN b ELSE a

(***************************************************************************)
(* Coverage.                                                               *)
(***************************************************************************)
\* Mutation: ranges that touch stay apart.
MergeOverlaps(merged, row) ==
    IF merged # <<>> /\ row.first <= Last(merged).last
    THEN [merged EXCEPT ![Len(merged)].last = MaxOf(@, row.last)]
    ELSE Append(merged, row)

\* One turn of the loop that merges sorted rows.
MergeStep(merged, row) ==
    IF merged # <<>> /\ row.first <= SaturatingSucc(Last(merged).last)
    THEN [merged EXCEPT ![Len(merged)].last = MaxOf(@, row.last)]
    ELSE Append(merged, row)

\* Coverage::from_receipts; merge_intervals, which a commit applies to its own
\* receipts, is the same loop in place.
FromReceipts(rs) ==
    FoldLeft(MergeStep, <<>>, SortSeq(rs, LAMBDA a, b : a.first < b.first))

\* partition_point on the first sequences, then one interval to look at.
IsCovered(cov, q) ==
    LET index == Cardinality({k \in DOMAIN cov : cov[k].first <= q})
    IN  index > 0 /\ q \in Members(cov[index])

\* Mutation: the first range need not begin the stream.
EndOfFirstRange(cov) == IF cov # <<>> THEN cov[1].last ELSE 0

HighestContiguous(cov) ==
    IF cov # <<>> /\ cov[1].first = 1 THEN cov[1].last ELSE 0

(***************************************************************************)
(* The reconciler.                                                         *)
(***************************************************************************)
VARIABLES
    receipts,   \* the rows found at startup
    next,       \* next_sequence
    preceding,  \* preceding_timestamp
    gaps,       \* the gap ranges of the last observation
    stored,     \* sequences to be stored so far
    told,       \* sequences reported lost so far
    error,      \* the error observe returned, if it did
    stood       \* history: next_sequence before the last observation

reconcileVars == <<receipts, next, preceding, gaps, stored, told, error, stood>>

Cov == FromReceipts(receipts)

MakeGap(f, l, prec, q) == [first |-> f, last |-> l, prec |-> prec, reveal |-> q]

\* One turn of the loop over the coverage, up to the sequence before q.
GapStep(q, acc, r) ==
    IF acc.done \/ r.last < acc.first THEN acc
    ELSE IF r.first > q - 1 THEN [acc EXCEPT !.done = TRUE]
    ELSE LET f == MaxOf(acc.first, SaturatingSucc(r.last))
         IN  [first |-> f,
              prec  |-> 0,
              gaps  |-> IF acc.first < r.first
                        THEN Append(acc.gaps, MakeGap(acc.first, r.first - 1, acc.prec, q))
                        ELSE acc.gaps,
              done  |-> f > q - 1]

\* Mutation: what follows the last range is not reported.
GapsBetweenRanges(q) ==
    IF q <= next THEN <<>>
    ELSE LET start == [first |-> next, prec |-> preceding, gaps |-> <<>>, done |-> FALSE]
         IN  FoldLeft(LAMBDA a, r : GapStep(q, a, r), start, Cov).gaps

UncoveredGaps(q) ==
    IF q <= next THEN <<>>
    ELSE LET start == [first |-> next, prec |-> preceding, gaps |-> <<>>, done |-> FALSE]
             acc == FoldLeft(LAMBDA a, r : GapStep(q, a, r), start, Cov)
         IN  IF acc.first <= q - 1
             THEN Append(acc.gaps, MakeGap(acc.first, q - 1, acc.prec, q))
             ELSE acc.gaps

Observe(q) ==
    /\ error = "none"
    /\ UNCHANGED receipts
    /\ stood' = next
    /\ \/ /\ q = 0
          /\ error' = "zero"
          /\ gaps' = <<>>
          /\ UNCHANGED <<next, preceding, stored, told>>
       \/ /\ q > 0 /\ q < next /\ IsCovered(Cov, q)
          /\ preceding' = q
          /\ gaps' = <<>>
          /\ UNCHANGED <<next, stored, told, error>>
       \/ /\ q > 0 /\ q < next /\ ~IsCovered(Cov, q)
          /\ error' = "regression"
          /\ gaps' = <<>>
          /\ UNCHANGED <<next, preceding, stored, told>>
       \/ /\ q >= next /\ q = Limit
          /\ error' = "exhausted"
          /\ gaps' = <<>>
          /\ UNCHANGED <<next, preceding, stored, told>>
       \/ /\ q >= next /\ q < Limit
          /\ gaps' = UncoveredGaps(q)
          /\ told' = told \cup Union(gaps')
          /\ stored' = IF IsCovered(Cov, q) THEN stored ELSE stored \cup {q}
          /\ next' = q + 1
          /\ preceding' = q
          /\ UNCHANGED error

\* Any rows at all may be found at startup: shards commit out of order, and
\* rows of different shards may touch or overlap.
ReconcileBegin(rows) ==
    /\ receipts = rows
    /\ next = 1 /\ preceding = 0 /\ gaps = <<>>
    /\ stored = {} /\ told = {} /\ error = "none" /\ stood = 1

ReconcileInit ==
    \E rows \in UNION {[1..n -> Intervals] : n \in 0..MaxRows} : ReconcileBegin(rows)
ReconcileIdle == ReconcileBegin(<<>>)

ReconcileNext == \E q \in 0..Limit : Observe(q)

-----------------------------------------------------------------------------
\* COVERAGE IS THE UNION.  Whatever the rows, looking a sequence up in the
\* merged coverage says whether some row contains it, and the merged ranges are
\* in order with a gap between each and the next.
CoverageIsUnion ==
    /\ \A q \in 1..Limit : IsCovered(Cov, q) <=> q \in Union(receipts)
    /\ \A k \in 1..(Len(Cov) - 1) : Cov[k].last + 1 < Cov[k + 1].first

\* The resume point that the startup and shutdown records carry is the last
\* sequence before the first uncovered one.
ResumePointExact ==
    LET h == HighestContiguous(Cov)
    IN  /\ 1..h \subseteq Union(receipts)
        /\ h < Limit => h + 1 \notin Union(receipts)

\* EACH SEQUENCE HAS ONE FATE.  The sequences the reconciler has moved past are
\* covered, to be stored or reported lost, and no two of these.
OneFate ==
    LET covered == Union(receipts) \cap 1..(next - 1)
    IN  /\ covered \cup stored \cup told = 1..(next - 1)
        /\ stored \cap told = {}
        /\ (stored \cup told) \cap covered = {}

\* GAPS ARE MAXIMAL AND DATED.  Two ranges of one observation never touch, and a
\* range carries the time of the event last seen only if it begins where that
\* event left off, with no receipt in between.
GapsWellFormed ==
    /\ \A k \in DOMAIN gaps : gaps[k].first <= gaps[k].last
    /\ \A k \in 1..(Len(gaps) - 1) : gaps[k].last + 1 < gaps[k + 1].first
    /\ \A k \in DOMAIN gaps :
         /\ gaps[k].prec # 0 => gaps[k].first = stood
         /\ gaps[k].reveal = next - 1

\* RECONCILIATION IS EXACT.  However receipts are cut into ranges, merging them,
\* finding the resume point and walking the gaps between observed events gives
\* what the sets of sequences give (receipt.rs, Coverage; reconcile.rs, observe
\* and uncovered_gaps).
ReconcileExact == CoverageIsUnion /\ ResumePointExact /\ OneFate /\ GapsWellFormed
=============================================================================
