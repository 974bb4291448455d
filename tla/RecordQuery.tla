----------------------------- MODULE RecordQuery -----------------------------
(***************************************************************************)
(* One evaluation of a query on events: the shards are read, newest first  *)
(* and merged when the result is in the default order, else one after the  *)
(* other; each row is judged and handed over, kept or folded into a group; *)
(* what was kept is put in order and cut to the page asked for             *)
(* (src/eventd/src/query/executor.rs).                                     *)
(*                                                                         *)
(* Stored events do not change meanwhile: each statement reads a snapshot  *)
(* up to the ids of the cursor.  What the result memory costs, and the     *)
(* withholding of single fields, are not modelled here.                    *)
(***************************************************************************)
EXTENDS Predicates, TimeRanges

CONSTANTS RecordScenes,     \* the queries and stores evaluated, as a sequence of sets
          TrimAt            \* TRIM_AT

VARIABLES scene,        \* the query and the stores it reads
          phase,        \* where the evaluation is
          cursors,      \* what each shard's statement has yet to yield
          toSkip,       \* skip
          toTake,       \* remaining
          gathered,     \* rows kept so far
          groups,       \* groups so far, in the order they appeared
          answer        \* what was handed over

recordVars == <<scene, phase, cursors, toSkip, toTake, gathered, groups, answer>>

Query == scene.query

\* What idle evaluations hold.
NoQuery ==
    [query |-> [predicates |-> <<>>, since |-> 0, until |-> 0, sort |-> <<>>,
                aggregate |-> "none", fields |-> <<>>, of |-> <<>>, filters |-> <<>>,
                window |-> 0, top |-> 0, skip |-> 0, take |-> -1, watch |-> FALSE],
     shards |-> <<>>, material |-> {}, readable |-> {}]

RecordBegin(s) ==
    /\ scene = s
    /\ phase = "begin"
    /\ cursors = <<>>
    /\ toSkip = s.query.skip
    /\ toTake = s.query.take
    /\ gathered = <<>> /\ groups = <<>> /\ answer = <<>>

RecordInit == \E i \in DOMAIN RecordScenes : \E s \in RecordScenes[i] : RecordBegin(s)
RecordIdle == RecordBegin(NoQuery)

\* A take of -1 is none.
Taking == Query.take >= 0
Aggregated == Query.aggregate # "none"
DefaultOrder == ~Query.watch /\ ~Aggregated /\ Query.sort = <<>>

Until == IF Query.watch THEN SignedMax ELSE Query.until

\* Only history is judged by ranges.
HistoricalRanges == CrossTypeRanges(Query.filters, Query.since, Until, Query.window)

(***************************************************************************)
(* Orders.                                                                 *)
(***************************************************************************)
FieldOf(row, field) == Get(RecordOf(row), field)

\* How the SORT keys order two records, by what field they have, or else tie.
SortKeyOrder(get(_, _), a, b, tie) ==
    Decided([i \in DOMAIN Query.sort |->
                (IF Query.sort[i].descending THEN -1 ELSE 1)
                    * LanguageCmp(get(a, Query.sort[i].field), get(b, Query.sort[i].field))],
            tie)

\* Timestamp descending, shard ascending, id descending.
TieBreak(a, b) ==
    IF a.at # b.at THEN Cmp(b.at, a.at)
    ELSE IF a.shard # b.shard THEN Cmp(a.shard, b.shard)
    ELSE Cmp(b.id, a.id)

RowOrder(a, b) == SortKeyOrder(FieldOf, a, b, TieBreak(a, b))

SortRows(rows) == SortSeq(rows, LAMBDA a, b : RowOrder(a, b) = -1)

ByTie(rows) == SortSeq(rows, LAMBDA a, b : a.shard < b.shard \/ (a.shard = b.shard /\ a.id < b.id))

FirstOf(rows, n) == SubSeq(rows, 1, Smaller(n, Len(rows)))

ApplyPagination(rows) ==
    LET rest == SubSeq(rows, Query.skip + 1, Len(rows))
    IN  IF Taking THEN FirstOf(rest, Query.take) ELSE rest

(***************************************************************************)
(* Groups.                                                                 *)
(***************************************************************************)
KeysOf(row) == [i \in DOMAIN Query.fields |-> FieldOf(row, Query.fields[i])]
Hash(keys) == [i \in DOMAIN keys |-> GroupKey(keys[i])]
SameKeys(a, b) == \A i \in DOMAIN a : LanguageEqual(a[i], b[i])
SmallerKeys(a, b) == [i \in DOMAIN a |-> IF LanguageCmp(b[i], a[i]) = -1 THEN b[i] ELSE a[i]]

\* The groups under the same hash whose representative equals the keys.
Found(keys) ==
    {g \in DOMAIN groups : groups[g].hash = Hash(keys) /\ SameKeys(groups[g].keys, keys)}

Counted(group, row) ==
    [group EXCEPT !.count = @ + 1,
                  !.numeric = IF Query.of = <<>> THEN @
                              ELSE PushNumber(@, FieldOf(row, Query.of))]

NewGroup(keys) == [hash |-> Hash(keys), keys |-> keys, count |-> 0, numeric |-> NoNumbers]

\* Mutation: a group is shown by the first member seen.
JoinGroupFirst(group, keys) == group

\* A group is shown by its least member.
JoinGroup(group, keys) == [group EXCEPT !.keys = SmallerKeys(@, keys)]

AddAt(found, keys, row) ==
    IF found = {} THEN Append(groups, Counted(NewGroup(keys), row))
    ELSE [groups EXCEPT ![Min(found)] = Counted(JoinGroup(@, keys), row)]

GroupsAdd(row) == AddAt(Found(KeysOf(row)), KeysOf(row), row)

ByKeys(a, b) == LexBy(LanguageCmp, a.keys, b.keys)

CountShown == Query.aggregate \in {"count", "top", "group count"}

GroupRecord(group) ==
    [keys |-> group.keys,
     value |-> IF CountShown THEN Unsigned(group.count)
               ELSE IF Query.aggregate = "distinct" THEN Null
               ELSE FinishNumbers(group.numeric, Query.aggregate)]

\* Counted groups largest first, then by their keys.
GroupOrder(a, b) ==
    Decided(<<IF CountShown THEN Cmp(b.count, a.count) ELSE 0>>, ByKeys(a, b))

GroupRecords(gs) == [i \in DOMAIN gs |-> GroupRecord(gs[i])]

\* TOP cuts before the page is cut.
FinishGroups(gs) ==
    GroupRecords(FirstOf(SortSeq(gs, LAMBDA a, b : GroupOrder(a, b) = -1),
                         IF Query.aggregate = "top" THEN Query.top ELSE Len(gs)))

\* A field of a group's record: a key, or what was computed.
GroupField(record, field) ==
    LET at == {i \in DOMAIN Query.fields : Query.fields[i] = field}
    IN  IF at # {} THEN record.keys[Min(at)] ELSE record.value

\* Records that tie on the SORT keys keep the order they had.
ApplyRecordSort(records) ==
    LET before(i, j) == SortKeyOrder(GroupField, records[i], records[j], Cmp(i, j)) = -1
        order == SetToSortSeq(DOMAIN records, before)
    IN  [i \in DOMAIN records |-> records[order[i]]]

(***************************************************************************)
(* The scan.                                                               *)
(***************************************************************************)
\* Newest first, each shard for itself.
Newest(rows) == SortSeq(rows, LAMBDA a, b : a.at > b.at \/ (a.at = b.at /\ a.id > b.id))

Statement(rows) ==
    LET range == NarrowByTimestamp(Query.predicates, Query.since, Until)
    IN  SelectSeq(rows, LAMBDA row : /\ row.at >= range.since /\ row.at < range.until
                                     /\ Selected(Query.predicates, scene.material, row)
                                     /\ row.type \in scene.readable)

Begin ==
    /\ phase = "begin"
    /\ IF Query.since >= Until \/ (DefaultOrder /\ Query.take = 0)
       THEN phase' = "done" /\ UNCHANGED cursors
       ELSE /\ phase' = "scan"
            /\ cursors' = [s \in DOMAIN scene.shards |-> Newest(Statement(scene.shards[s]))]
    /\ UNCHANGED <<scene, toSkip, toTake, gathered, groups, answer>>

Passing(row) ==
    /\ (Query.filters # <<>> /\ ~Query.watch) => RangeContains(HistoricalRanges, row.at)
    /\ Passes(Query.predicates, RecordOf(row))

\* Mutation: what is kept is cut without being put in order.
TrimUnsorted(rows) ==
    IF Taking /\ Len(rows) >= Larger(2 * (Query.take + Query.skip), TrimAt)
    THEN SubSeq(rows, 1, Query.take + Query.skip)
    ELSE rows

\* With TAKE only the best are kept, cut now and then.
Trimmed(rows) ==
    IF Taking /\ ~Query.watch /\ Len(rows) >= Larger(2 * (Query.take + Query.skip), TrimAt)
    THEN SubSeq(SortRows(rows), 1, Query.take + Query.skip)
    ELSE rows

\* A watched batch keeps its rows, also those of a DISTINCT.
Gather(row) ==
    IF Aggregated /\ ~Query.watch
    THEN groups' = GroupsAdd(row) /\ UNCHANGED gathered
    ELSE gathered' = Trimmed(Append(gathered, row)) /\ UNCHANGED groups

HandOver(row) ==
    \/ /\ toSkip > 0
       /\ toSkip' = toSkip - 1
       /\ UNCHANGED <<toTake, answer, phase>>
    \/ /\ toSkip = 0
       /\ answer' = Append(answer, row)
       /\ toTake' = IF Taking THEN toTake - 1 ELSE toTake
       /\ phase' = IF Taking /\ toTake' = 0 THEN "done" ELSE "scan"
       /\ UNCHANGED toSkip

NewestHead(heads) ==
    CHOOSE s \in heads : \A t \in heads : \/ cursors[s][1].at > cursors[t][1].at
                                          \/ cursors[s][1].at = cursors[t][1].at /\ s <= t

Waiting == {s \in DOMAIN cursors : cursors[s] # <<>>}

VisitNewest ==
    /\ phase = "scan" /\ DefaultOrder /\ Waiting # {}
    /\ LET shard == NewestHead(Waiting)
           row == cursors[shard][1]
       IN  /\ cursors' = [cursors EXCEPT ![shard] = Tail(@)]
           /\ IF Passing(row) THEN HandOver(row) ELSE UNCHANGED <<toSkip, toTake, answer, phase>>
    /\ UNCHANGED <<scene, gathered, groups>>

\* A statement without an order yields its rows in any.
VisitStored ==
    /\ phase = "scan" /\ ~DefaultOrder /\ Waiting # {}
    /\ \E i \in DOMAIN cursors[Min(Waiting)] :
           LET shard == Min(Waiting)
               row == cursors[shard][i]
           IN  /\ cursors' = [cursors EXCEPT ![shard] = RemoveAt(@, i)]
               /\ IF Passing(row) THEN Gather(row) ELSE UNCHANGED <<gathered, groups>>
    /\ UNCHANGED <<scene, phase, toSkip, toTake, answer>>

\* The conditions of a watched batch are judged on its times.
WatchKept(rows) ==
    LET times == [i \in DOMAIN rows |-> rows[i].at]
        kept == ToSet(ApplyWatchCrossFilters(times, Query.filters, Query.window))
    IN  SelectSeq(rows, LAMBDA row : row.at \in kept)

\* A watched DISTINCT yields the value of each row; the stream drops those it
\* has sent before.
Shown(rows) ==
    IF Aggregated THEN [i \in DOMAIN rows |-> [keys |-> KeysOf(rows[i]), value |-> Null]] ELSE rows

Complete ==
    /\ phase = "scan" /\ Waiting = {}
    /\ phase' = "done"
    /\ answer' = IF DefaultOrder THEN answer
                 ELSE IF Query.watch THEN Shown(ByTie(WatchKept(gathered)))
                 ELSE IF Aggregated THEN ApplyPagination(ApplyRecordSort(FinishGroups(groups)))
                 ELSE ApplyPagination(SortRows(gathered))
    /\ UNCHANGED <<scene, cursors, toSkip, toTake, gathered, groups>>

RecordNext == Begin \/ VisitNewest \/ VisitStored \/ Complete

(***************************************************************************)
(* What a query should answer: from the set of all rows, by definition.    *)
(***************************************************************************)
AllRows == UNION {ToSet(scene.shards[s]) : s \in DOMAIN scene.shards}

Matching ==
    {row \in AllRows : /\ row.at >= Query.since /\ row.at < Until
                       /\ row.type \in scene.readable
                       /\ Passes(Query.predicates, RecordOf(row))}

\* The conditions hold of each record at its time; in a watched batch those on
\* metrics hold at the latest record of the batch.
Visible(matching) ==
    {row \in matching : \A i \in DOMAIN Query.filters :
        Holds(Query.filters[i],
              IF Query.watch /\ Query.filters[i].metric THEN Max({r.at : r \in matching}) ELSE row.at,
              Query.window)}

Ranked(rows, before(_, _)) == SortSeq(SetToSeq(rows), before)

\* The rows that share a group with a row.
Peers(row, rows) == {other \in rows : SameKeys(KeysOf(row), KeysOf(other))}

LeastKeys(rows) ==
    [i \in DOMAIN Query.fields |->
        FieldOf(CHOOSE r \in rows : \A q \in rows :
                    LanguageCmp(FieldOf(r, Query.fields[i]), FieldOf(q, Query.fields[i])) # 1,
                Query.fields[i])]

Summed(rows) ==
    {row \in rows : Query.of # <<>> /\ FieldOf(row, Query.of).kind \in {"signed", "unsigned"}}

\* The true value of an integer column's sum, and the extremes.
ClassValue(rows) ==
    LET total == MapThenSumSet(LAMBDA r : FieldOf(r, Query.of).v[1], Summed(rows))
        extreme(sign) ==
            LET numeric == {row \in rows : IsNumber(FieldOf(row, Query.of))}
            IN  IF numeric = {} THEN Null
                ELSE FieldOf(CHOOSE r \in numeric : \A q \in numeric :
                         sign * LanguageCmp(FieldOf(r, Query.of), FieldOf(q, Query.of)) # 1, Query.of)
    IN  CASE CountShown -> Unsigned(Cardinality(rows))
          [] Query.aggregate = "distinct" -> Null
          [] Query.aggregate = "min" -> extreme(1)
          [] Query.aggregate = "max" -> extreme(-1)
          [] Query.aggregate = "sum" ->
                 IF Summed(rows) = {} THEN Null
                 ELSE IF total <= SignedMax THEN Signed(total) ELSE Unsigned(total)

ClassRecord(rows) == [keys |-> LeastKeys(rows), value |-> ClassValue(rows)]

ByDefault(a, b) ==
    Decided(<<IF CountShown THEN LanguageCmp(b.value, a.value) ELSE 0>>, ByKeys(a, b))

Topped(records) ==
    IF Query.aggregate = "top"
    THEN ToSet(FirstOf(Ranked(records, LAMBDA a, b : ByDefault(a, b) = -1), Query.top))
    ELSE records

ExpectedGroups(rows) ==
    Ranked(Topped({ClassRecord(Peers(row, rows)) : row \in rows}),
           LAMBDA a, b : SortKeyOrder(GroupField, a, b, ByDefault(a, b)) = -1)

ExpectedOf(rows) ==
    IF Query.since >= Until THEN <<>>
    ELSE IF Query.watch THEN Shown(ByTie(SetToSeq(rows)))
    ELSE ApplyPagination(IF Aggregated THEN ExpectedGroups(rows)
                         ELSE Ranked(rows, LAMBDA a, b : RowOrder(a, b) = -1))

\* Two answers agree: the same rows, or groups whose values compare equal.
Agree(got, wanted) ==
    /\ Len(got) = Len(wanted)
    /\ \A i \in DOMAIN got :
           IF Aggregated
           THEN /\ ByKeys(got[i], wanted[i]) = 0
                /\ LanguageCmp(got[i].value, wanted[i].value) = 0
           ELSE got[i] = wanted[i]

\* AN INDEX ONLY NARROWS.  A row that the predicates accept is never left out by
\* the constraint put into the SQL, whichever indexes there are.
IndexOnlyNarrows ==
    phase = "scan" => \A row \in AllRows :
        Passes(Query.predicates, RecordOf(row)) => Selected(Query.predicates, scene.material, row)

\* THE TIME READ COVERS THE PREDICATES.  Comparisons of the time narrow what is
\* read, up to the ends of the integers, without losing a row they accept.
TimeOnlyNarrows ==
    phase = "scan" => \A row \in Matching :
        LET range == NarrowByTimestamp(Query.predicates, Query.since, Until)
        IN  row.at >= range.since /\ row.at < range.until

\* THE ANSWER IS THE ONE ASKED FOR.  Whatever the shards hold and however they
\* are narrowed, scanned, merged, trimmed and folded meanwhile, the answer is the
\* page cut from all matching records in the documented order; or one group for
\* each class of equal keys, shown by its least member, with the class's exact
\* count, sum and extremes; and a cross-type condition keeps the records at whose
\* time it holds, and those only (executor.rs, execute_at, scan_events,
\* Groups::add and cross_filter_ranges).
RecordsExact ==
    /\ phase = "done" => Agree(answer, ExpectedOf(Visible(Matching)))
    /\ IndexOnlyNarrows /\ TimeOnlyNarrows
=============================================================================
