--------------------------- MODULE MCServiceSystem ---------------------------
(***************************************************************************)
(* Instances of the query side for model checking: two shards and the log  *)
(* store, two types, three connections, one shard writer.  Each scene lets *)
(* one group of parts loose on the others.                                 *)
(***************************************************************************)
EXTENDS ServiceSystem

MCConns == {"c1", "c2", "c3"}
MCOneConn == {"c1"}
MCReaders == Conns \union {"metrics"}
MCShards == <<"s1", "s2">>
MCLogStores == <<"log">>
MCStores == {"s1", "s2", "log"}
MCSourceOf == [s \in MCStores |-> IF s = "log" THEN "logs" ELSE "events"]
MCPatterns == {"a.b", "a", "admin"}
MCCandidates == "deep" :> <<"a.b", "a">> @@ "flat" :> <<"a">> @@ "admin" :> <<"admin">>
MCDatagrams == <<<<"deep", "flat">>, <<"deep">>>>
MCWriters == <<"w">>

\* What the registry may hold: the two thresholds, and a key that only a
\* restart changes.
Stored(create, drop, shards) ==
    Create :> create @@ Drop :> drop @@ "StorageShards" :> shards

Plain == Stored(Absent, Absent, Absent)
Raised == Stored(Absent, Dword(60), Absent)
Lowered == Stored(Dword(20), Absent, Dword(3))
Crossed == Stored(Dword(50), Dword(60), Absent)
Garbled == Stored(Path(1), Dword(5), Absent)
MCContents == {Plain, Raised, Lowered, Crossed, Garbled}

NoAsk == [user |-> "other", kind |-> "none", source |-> "events", fields |-> {}]

Ask(user, kind, source) ==
    [user |-> user, kind |-> kind, source |-> source,
     fields |-> IF kind = "index" THEN {1} ELSE {1, 3}]

None == [k \in {"delete", "fail", "spawn", "watch", "registry", "stop",
                "write", "signal", "unreadable", "degrade", "window", "metadata",
                "shard", "batch", "interval", "watcher", "configurer", "indexer",
                "publisher"} |-> 0]

All(v) == [p \in MCPatterns |-> v]

\* As many rows of each type as "deep" and "flat" say.
Rows(deep, flat) ==
    [s \in MCStores |-> "deep" :> (IF s \in DOMAIN deep THEN deep[s] ELSE 0)
                       @@ "flat" :> (IF s \in DOMAIN flat THEN flat[s] ELSE 0)]

Scene(asks, supplied, allowance) ==
    [plan |-> [c \in Conns |-> IF c \in DOMAIN asks THEN asks[c] ELSE NoAsk],
     supply |-> supplied,
     budget |-> allowance @@ None,
     registries |-> {All("grants")},
     contents |-> {Plain},
     counts |-> [f \in Fields |-> 0],
     desired |-> <<>>]

\* A stream over two shards among commits, and among deletions.
StreamScene == Scene("c1" :> Ask("user", "stream", "events"),
                     Rows(<<>>, [s1 |-> 2, s2 |-> 1]), <<>>)

DeleteScene == Scene("c1" :> Ask("user", "stream", "events"),
                     Rows(<<>>, [s1 |-> 2]), [delete |-> 2])

\* A distinct stream over the log store.
DistinctScene == Scene("c1" :> Ask("user", "distinct", "logs"),
                       Rows([log |-> 1], [log |-> 2]), <<>>)

\* Three clients for two query slots, one stream slot and little memory.
SlotScene == Scene("c1" :> Ask("user", "sorted", "logs")
                   @@ "c2" :> Ask("user", "stream", "logs")
                   @@ "c3" :> Ask("other", "stream", "logs"),
                   Rows(<<>>, [log |-> 1]), [fail |-> 1])

\* Two gathering queries, one of them not counted against its user; threads
\* may run out.
MemoryScene == Scene("c1" :> Ask("user", "sorted", "logs")
                     @@ "c2" :> Ask("system", "sorted", "logs"),
                     Rows(<<>>, [log |-> 2]), [spawn |-> 1])

\* A query and the metric thread check access while descriptors change.
AccessScene == [Scene("c1" :> Ask("user", "newest", "logs"),
                      Rows([log |-> 1], <<>>),
                      [watcher |-> 1, registry |-> 1, watch |-> 1])
                EXCEPT !.registries = {[All("grants") EXCEPT !["a.b"] = "none"]}]

PublishScene == [Scene(<<>>, Rows(<<>>, <<>>),
                       [watcher |-> 1, registry |-> 2, publisher |-> 1])
                 EXCEPT !.registries = {[All("grants") EXCEPT !["a.b"] = "none"]}]

\* INDEX commands and queries against the policy thread, with counts about
\* the thresholds.
Counted(scene) == [scene EXCEPT !.counts = (1 :> 15 @@ 2 :> 70 @@ 3 :> 0), !.desired = <<2>>]

IndexScene == Counted(Scene("c1" :> Ask("user", "index", "events")
                            @@ "c2" :> Ask("other", "newest", "events"),
                            Rows(<<>>, <<>>),
                            [indexer |-> 1, window |-> 1]))

\* The registry written while eventd runs.
ConfigScene == [Counted(Scene(<<>>, Rows(<<>>, <<>>),
                              [indexer |-> 1, configurer |-> 1, write |-> 2,
                               signal |-> 1, unreadable |-> 1, degrade |-> 1]))
                EXCEPT !.contents = {Plain, Crossed}]

\* A shard under load whose store may fail.
ShardScene == Counted(Scene(<<>>, Rows(<<>>, <<>>),
                            [indexer |-> 1, interval |-> 1, window |-> 1,
                             batch |-> 2, shard |-> 1, metadata |-> 1]))

\* eventd is asked to stop, with a stream and a client without a name.
StopScene == Counted(Scene("c1" :> Ask("user", "stream", "events")
                           @@ "c2" :> Ask("anonymous", "newest", "events"),
                           Rows(<<>>, <<>>),
                           [watcher |-> 1, configurer |-> 1, indexer |-> 1, stop |-> 1,
                            spawn |-> 1]))

MCScenes == {StreamScene, DeleteScene, DistinctScene, SlotScene, MemoryScene,
             AccessScene, PublishScene, IndexScene, ConfigScene, ShardScene, StopScene}

\* For liveness: fewer rows, and no fault that ends a thread.
CatchUpScene == Scene("c1" :> Ask("user", "stream", "events"),
                      Rows(<<>>, [s1 |-> 1, s2 |-> 1]), [fail |-> 1])

RetuneScene == Counted(Scene("c1" :> Ask("user", "index", "events"), Rows(<<>>, <<>>),
                             [indexer |-> 1, configurer |-> 1, write |-> 1]))

LoadScene == Counted(Scene(<<>>, Rows(<<>>, <<>>), [indexer |-> 1, batch |-> 2]))

PeriodicScene == [LoadScene EXCEPT !.budget.interval = 1]

MCProgress == {CatchUpScene, RetuneScene, LoadScene, PeriodicScene, StopScene}

\* For the run that contradicts the manual.
MCReuse == {DeleteScene}

=============================================================================
