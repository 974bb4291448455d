---------------------------- MODULE MetricStore ----------------------------
(***************************************************************************)
(* The metric store: series, samples and rollups as tables, and the         *)
(* bounded cache of resolved series (MetricStore.cache).                    *)
(*                                                                          *)
(* A series row is [id, key, type]; its key stands for the name, the labels *)
(* and the histogram boundaries. A sample is [id, sid, uid, at, of], where  *)
(* of is the key it was sent under; a rollup is [sid, start, pair, value,   *)
(* largest, baseline], its value the samples it comes from. The cache is a sequence, least         *)
(* recently used first.                                                     *)
(***************************************************************************)
EXTENDS StoreState

CONSTANTS CacheSize, \* MetricSeriesCacheSize
          Width      \* width of a rollup window

VARIABLES mseries, msamples, mrollups, mcache

storeVars == <<mseries, msamples, mrollups, mcache>>

StoreInit ==
    /\ mseries = {}
    /\ msamples = {}
    /\ mrollups = {}
    /\ mcache = <<>>

\* The cache: a look-up moves an entry to the back, an insert evicts from
\* the front.
Cached(cache, key) == \E i \in 1..Len(cache) : cache[i].key = key
Entry(cache, key) == CHOOSE e \in ToSet(cache) : e.key = key
Without(cache, key) == SelectSeq(cache, LAMBDA e : e.key /= key)
ToBack(cache, key) == Append(Without(cache, key), Entry(cache, key))
Shrunk(cache) ==
    IF Len(cache) > CacheSize
    THEN SubSeq(cache, Len(cache) - CacheSize + 1, Len(cache)) ELSE cache
Insert(cache, info) == Shrunk(Append(Without(cache, info.key), info))

\* Mutation: a series is found by its hash alone, which another may share.
ResolveByHash(series, r) ==
    IF series /= {} THEN CHOOSE s \in series : TRUE
    ELSE [id |-> NextId(series), key |-> r.key, type |-> r.type]

\* resolve_or_insert: the series with exactly this key, or a new one.
Resolve(series, r) ==
    IF \E s \in series : s.key = r.key
    THEN CHOOSE s \in series : s.key = r.key
    ELSE [id |-> NextId(series), key |-> r.key, type |-> r.type]

\* One record of a batch: the transaction's own resolutions first, then the
\* cache, then the table. A sample of another type than its series is dropped.
AddRecord(tx, r) ==
    LET own == Cached(tx.pending, r.key)
        hit == ~own /\ Cached(tx.cache, r.key)
        info == CASE own -> Entry(tx.pending, r.key)
                  [] hit -> Entry(tx.cache, r.key)
                  [] OTHER -> Resolve(tx.series, r)
    IN [series  |-> IF own \/ hit THEN tx.series ELSE tx.series \cup {info},
        samples |-> IF info.type = r.type
                    THEN tx.samples \cup {[id |-> NextId(tx.samples), sid |-> info.id,
                                           uid |-> r.uid, at |-> r.at,
                                           of |-> r.key]}
                    ELSE tx.samples,
        cache   |-> IF hit THEN ToBack(tx.cache, r.key) ELSE tx.cache,
        pending |-> IF own \/ hit THEN tx.pending ELSE Append(tx.pending, info)]

\* What a batch makes of the store, as a set of one outcome.
Transaction(b) ==
    FoldLeft(LAMBDA txs, r : {AddRecord(tx, r) : tx \in txs},
             {[series |-> mseries, samples |-> msamples, cache |-> mcache,
               pending |-> <<>>]}, b)

\* MetricStore::commit: what the transaction resolved enters the cache after
\* it committed.
StoreCommit(b) ==
    \E tx \in Transaction(b) :
       /\ mseries' = tx.series
       /\ msamples' = tx.samples
       /\ mcache' = FoldLeft(Insert, tx.cache, tx.pending)
       /\ UNCHANGED mrollups

\* The same, rolled back at some record: only the order of the cache changed.
StoreRollBack(b) ==
    /\ \E n \in 0..Len(b) : mcache' \in {tx.cache : tx \in Transaction(SubSeq(b, 1, n))}
    /\ UNCHANGED <<mseries, msamples, mrollups>>

\* replace_corrupt: an empty database, opened with an empty cache.
StoreReplaced ==
    /\ mseries' = {}
    /\ msamples' = {}
    /\ mrollups' = {}
    /\ mcache' = <<>>

Victims(c) ==
    IF c.kind = "delete"
    THEN Oldest(IF c.aged THEN {s \in msamples : s.at < Cutoff} ELSE msamples,
                DeleteRows)
    ELSE {}

\* Mutation: the cache survives the delete.
RetainOldestCached(c) ==
    LET kept == msamples \ Victims(c)
        empty == {s \in mseries : ~\E x \in kept : x.sid = s.id}
    IN /\ msamples' = kept
       /\ mseries' = IF c.kind = "delete" THEN mseries \ empty ELSE mseries
       /\ mrollups' = {r \in mrollups : ~\E v \in Victims(c) : v.sid = r.sid}
       /\ UNCHANGED mcache

\* retain_oldest: the rollups of every series that loses a sample go first,
\* then the samples, then as many series without samples as the limit allows
\* (their rollups with them), in one transaction. The cache is dropped when
\* anything was deleted.
RetainOldest(c) ==
    LET kept == msamples \ Victims(c)
        empty == {s \in mseries : ~\E x \in kept : x.sid = s.id}
    IN /\ msamples' = kept
       /\ IF c.kind = "delete"
          THEN \E gone \in SUBSET empty :
                 /\ Cardinality(gone) = Min({Cardinality(empty), DeleteRows})
                 /\ mseries' = mseries \ gone
                 /\ mrollups' = {r \in mrollups :
                                   /\ ~\E v \in Victims(c) : v.sid = r.sid
                                   /\ ~\E s \in gone : s.id = r.sid}
          ELSE UNCHANGED <<mseries, mrollups>>
       /\ mcache' = IF Victims(c) = {} THEN mcache ELSE <<>>

\* prune_rollups: the excess over the limit, oldest windows first.
Pruned(rollups, max) ==
    IF max = 0 THEN {{}}
    ELSE {kept \in SUBSET rollups :
            /\ Cardinality(kept) = Min({Cardinality(rollups), max})
            /\ \A k \in kept, g \in rollups \ kept : g.start <= k.start}

SameWindow(r, s) == r.sid = s.sid /\ r.start = s.start /\ r.pair = s.pair

\* commit_rollups: upsert, then prune. A rollup of a series that is no longer
\* there breaks the foreign key and fails the transaction.
CommitRollups(rows, max) ==
    /\ \A r \in rows : \E s \in mseries : s.id = r.sid
    /\ mrollups' \in Pruned({r \in mrollups : ~\E s \in rows : SameWindow(r, s)}
                              \cup rows, max)
    /\ UNCHANGED <<mseries, msamples, mcache>>

PruneRollups(max) ==
    /\ mrollups' \in Pruned(mrollups, max)
    /\ UNCHANGED <<mseries, msamples, mcache>>

\* The raw samples a window's value is computed from: those in it and, for a
\* transform of pairs, the last one before it.
InWindow(sid, start) ==
    {s \in msamples : s.sid = sid /\ s.at >= start /\ s.at < start + Width}
Before(sid, start) == {s \in msamples : s.sid = sid /\ s.at < start}
LastOf(samples) == {s \in samples : ~\E t \in samples : Older(s, t)}
Raw(sid, start, pair) ==
    {s.uid : s \in InWindow(sid, start)
                     \cup (IF pair THEN LastOf(Before(sid, start)) ELSE {})}
Baseline(sid, start) == {s.id : s \in LastOf(Before(sid, start))}

\* Mutation: a late sample before the window does not matter to a pair.
ValidIgnoringBaseline(r) == ~\E s \in InWindow(r.sid, r.start) : s.id > r.largest

\* read_valid_rollups: no newer sample in the window, and the same baseline.
Valid(r) ==
    /\ ~\E s \in InWindow(r.sid, r.start) : s.id > r.largest
    /\ r.pair => r.baseline = Baseline(r.sid, r.start)
=============================================================================
