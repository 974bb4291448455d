---------------------------- MODULE Configuration ----------------------------
(***************************************************************************)
(* The configuration: its values and how they are read from the registry,  *)
(* the configuration in force, and the thread that keeps it up to date     *)
(* (src/eventd/src/config.rs).                                             *)
(*                                                                         *)
(* The code states the range of a value three times: where it is loaded,   *)
(* where a reload decides whether the new value is valid, and (as a list   *)
(* of values) where a reload looks for what has changed.  The three are    *)
(* kept apart here as they are there.  A stored value is a record of its   *)
(* registry type and a number.  A path is a number too, 0 for one that is  *)
(* empty, relative or not text.  MaxQueryHeldBytes is counted in KiB, to   *)
(* fit TLC's integers.                                                     *)
(*                                                                         *)
(* The thread arms a watch on the registry, reloads once, and then reloads *)
(* whenever the watch or a signal says so.  What it reads becomes the      *)
(* shared configuration only if it changes something; publishing it comes  *)
(* before anyone is told of it.                                            *)
(***************************************************************************)
EXTENDS Naturals, Sequences

\* The default, minimum and maximum each value is loaded with.
Loaded ==
    [AdaptiveIndexCreateThreshold |-> <<100, 10, 10000>>,
     AdaptiveIndexDropThreshold |-> <<10, 1, 1000>>,
     StorageShards |-> <<0, 0, 256>>,
     MaxBatchSize |-> <<10000, 100, 100000>>,
     MaxBatchLatencyMs |-> <<100, 10, 5000>>,
     WalCheckpointPages |-> <<1000, 100, 100000>>,
     LogMaxBatchSize |-> <<5000, 100, 100000>>,
     LogMaxBatchLatencyMs |-> <<500, 10, 5000>>,
     MaxLogDatagramBytes |-> <<262144, 262144, 1048576>>,
     MetricMaxBatchSize |-> <<5000, 100, 100000>>,
     MetricMaxBatchLatencyMs |-> <<1000, 10, 5000>>,
     MaxMetricDatagramBytes |-> <<262144, 262144, 1048576>>,
     MetricSeriesCacheSize |-> <<50000, 1000, 1000000>>,
     MetricAuthorizationCacheSize |-> <<16384, 256, 1000000>>,
     HealthMetricIntervalSeconds |-> <<15, 0, 3600>>,
     QueryTimeoutMs |-> <<30000, 1000, 300000>>,
     MaxConcurrentQueries |-> <<128, 1, 4096>>,
     MaxStreamingQueries |-> <<64, 1, 1024>>,
     MaxQueriesPerUser |-> <<16, 1, 4096>>,
     MaxDistinctStreamValues |-> <<100000, 1000, 10000000>>,
     MaxQueryRequestBytes |-> <<65536, 1024, 16777216>>,
     QueryResponseTargetBytes |-> <<65536, 1024, 16777216>>,
     MaxQueryHeldBytes |-> <<262144, 16384, 4194303>>,
     AdaptiveRollupMinSamples |-> <<1000, 100, 1000000>>,
     AdaptiveRollupBatchRows |-> <<512, 16, 4096>>,
     AdaptiveRollupMaxRows |-> <<100000, 0, 10000000>>,
     CrossTypeWindowMs |-> <<15000, 1000, 300000>>,
     CrossTypeMaxLookbackSeconds |-> <<604800, 3600, 2592000>>,
     AdaptiveIndexWindowHours |-> <<24, 1, 168>>,
     AdaptiveIndexPolicyIntervalMinutes |-> <<60, 60, 1440>>,
     SheddingWindowSeconds |-> <<30, 10, 300>>,
     SheddingBatchPercent |-> <<75, 50, 100>>,
     EmergencySheddingBufferPercent |-> <<75, 50, 95>>,
     EventRetentionDays |-> <<30, 1, 3650>>,
     LogRetentionDays |-> <<14, 1, 3650>>,
     MetricRetentionDays |-> <<90, 1, 3650>>,
     RetentionCheckIntervalMinutes |-> <<60, 1, 1440>>,
     RetentionDeleteBatchRows |-> <<10000, 100, 100000>>]

\* The minimum and maximum by which a reload judges each value.
Reloaded ==
    [MaxBatchSize |-> <<100, 100000>>,
     MaxBatchLatencyMs |-> <<10, 5000>>,
     WalCheckpointPages |-> <<100, 100000>>,
     LogMaxBatchSize |-> <<100, 100000>>,
     LogMaxBatchLatencyMs |-> <<10, 5000>>,
     MaxLogDatagramBytes |-> <<262144, 1048576>>,
     MetricMaxBatchSize |-> <<100, 100000>>,
     MetricMaxBatchLatencyMs |-> <<10, 5000>>,
     MaxMetricDatagramBytes |-> <<262144, 1048576>>,
     MetricSeriesCacheSize |-> <<1000, 1000000>>,
     MetricAuthorizationCacheSize |-> <<256, 1000000>>,
     HealthMetricIntervalSeconds |-> <<0, 3600>>,
     QueryTimeoutMs |-> <<1000, 300000>>,
     MaxConcurrentQueries |-> <<1, 4096>>,
     MaxStreamingQueries |-> <<1, 1024>>,
     MaxQueriesPerUser |-> <<1, 4096>>,
     MaxDistinctStreamValues |-> <<1000, 10000000>>,
     MaxQueryRequestBytes |-> <<1024, 16777216>>,
     QueryResponseTargetBytes |-> <<1024, 16777216>>,
     MaxQueryHeldBytes |-> <<16384, 4194303>>,
     AdaptiveRollupMinSamples |-> <<100, 1000000>>,
     AdaptiveRollupBatchRows |-> <<16, 4096>>,
     AdaptiveRollupMaxRows |-> <<0, 10000000>>,
     CrossTypeWindowMs |-> <<1000, 300000>>,
     CrossTypeMaxLookbackSeconds |-> <<3600, 2592000>>,
     AdaptiveIndexWindowHours |-> <<1, 168>>,
     AdaptiveIndexPolicyIntervalMinutes |-> <<60, 1440>>,
     SheddingWindowSeconds |-> <<10, 300>>,
     SheddingBatchPercent |-> <<50, 100>>,
     EmergencySheddingBufferPercent |-> <<50, 95>>,
     EventRetentionDays |-> <<1, 3650>>,
     LogRetentionDays |-> <<1, 3650>>,
     MetricRetentionDays |-> <<1, 3650>>,
     RetentionCheckIntervalMinutes |-> <<1, 1440>>,
     RetentionDeleteBatchRows |-> <<100, 100000>>,
     AdaptiveIndexCreateThreshold |-> <<10, 10000>>,
     AdaptiveIndexDropThreshold |-> <<1, 1000>>]

\* The values a reload compares to find what has changed.
Compared ==
    {"WalCheckpointPages", "MaxBatchSize", "MaxBatchLatencyMs",
     "LogMaxBatchSize", "LogMaxBatchLatencyMs", "MaxLogDatagramBytes",
     "MetricMaxBatchSize", "MetricMaxBatchLatencyMs",
     "MaxMetricDatagramBytes", "MetricSeriesCacheSize",
     "MetricAuthorizationCacheSize", "HealthMetricIntervalSeconds",
     "AdaptiveIndexWindowHours", "AdaptiveIndexPolicyIntervalMinutes",
     "AdaptiveIndexCreateThreshold", "AdaptiveIndexDropThreshold",
     "SheddingWindowSeconds", "SheddingBatchPercent",
     "EmergencySheddingBufferPercent", "EventRetentionDays",
     "EventRetentionMaxBytes", "LogRetentionDays", "LogRetentionMaxBytes",
     "MetricRetentionDays", "MetricRetentionMaxBytes",
     "RetentionCheckIntervalMinutes", "RetentionDeleteBatchRows",
     "QueryTimeoutMs", "MaxConcurrentQueries", "MaxStreamingQueries",
     "MaxQueriesPerUser", "MaxDistinctStreamValues", "MaxQueryRequestBytes",
     "QueryResponseTargetBytes", "MaxQueryHeldBytes",
     "AdaptiveRollupMinSamples", "AdaptiveRollupBatchRows",
     "AdaptiveRollupMaxRows", "CrossTypeWindowMs",
     "CrossTypeMaxLookbackSeconds"}

Qwords == [EventRetentionMaxBytes |-> 0, LogRetentionMaxBytes |-> 0,
           MetricRetentionMaxBytes |-> 1073741824]

Paths ==
    {"EventStorePath", "LogStorePath", "MetricStorePath", "QuerySocketPath",
     "LogSocketPath", "MetricSocketPath"}

\* What takes effect only when eventd starts.
Deferred == Paths \union {"StorageShards"}

Create == "AdaptiveIndexCreateThreshold"

Drop == "AdaptiveIndexDropThreshold"

Pair == {Create, Drop}

AllKeys == DOMAIN Loaded \union DOMAIN Qwords \union Paths

Absent == [ty |-> "absent", n |-> 0]
Dword(n) == [ty |-> "dword", n |-> n]
Qword(n) == [ty |-> "qword", n |-> n]
Path(n) == [ty |-> "path", n |-> n]

-----------------------------------------------------------------------------
(* Loading. *)

ReadDword(v, k) ==
    IF v.ty = "dword" /\ v.n >= Loaded[k][2] /\ v.n <= Loaded[k][3]
    THEN v.n ELSE Loaded[k][1]

ReadQword(v, k) == IF v.ty = "qword" THEN v.n ELSE Qwords[k]

ValidPath(v) == v.ty = "path" /\ v.n # 0

\* A mutation of ReadPair: the two are not compared.
ReadPairApart(values) == [k \in Pair |-> ReadDword(values[k], k)]

\* Both thresholds as stored, or both defaults when they are out of relation.
ReadPair(values) ==
    LET read == [k \in Pair |-> ReadDword(values[k], k)]
    IN  IF read[Drop] >= read[Create]
        THEN [k \in Pair |-> IF k = Create THEN 100 ELSE 10]
        ELSE read

\* What is in force after loading: every value but the paths has one.
FromValues(values) ==
    [force |-> [k \in DOMAIN values |->
                   IF k \in Pair THEN ReadPair(values)[k]
                   ELSE IF k \in DOMAIN Qwords THEN ReadQword(values[k], k)
                   ELSE IF k \in Paths THEN values[k].n
                   ELSE ReadDword(values[k], k)],
     raw |-> values]

\* Loading fails when a path is missing or invalid.
Loadable(values) == \A k \in DOMAIN values \intersect Paths : ValidPath(values[k])

-----------------------------------------------------------------------------
(* Reloading. *)

ValidDword(v, k) ==
    \/ v.ty = "absent"
    \/ v.ty = "dword" /\ v.n >= Reloaded[k][1] /\ v.n <= Reloaded[k][2]

ValidQword(v) == v.ty \in {"absent", "qword"}

\* A threshold for the comparison of the two: the default if none is stored,
\* the stored one whatever its size, or the one in force.
Configured(self, v, k) ==
    IF v.ty = "absent" THEN Loaded[k][1]
    ELSE IF v.ty = "dword" THEN v.n ELSE self.force[k]

PairInvalid(self, values) ==
    \/ \E k \in Pair : ~ValidDword(values[k], k)
    \/ Configured(self, values[Drop], Drop)
         >= Configured(self, values[Create], Create)

\* What the values are adjusted to before they are loaded again.
Adjusted(self, values) ==
    [k \in DOMAIN values |->
        IF k \in Paths /\ ~ValidPath(values[k]) THEN Path(self.force[k])
        ELSE IF k \in Pair /\ PairInvalid(self, values)
        THEN Dword(self.force[k])
        ELSE values[k]]

\* The values a reload leaves as they are.
Retained(self, values) ==
    {k \in DOMAIN values :
        \/ k \in DOMAIN Reloaded \ Pair /\ ~ValidDword(values[k], k)
        \/ k \in Pair /\ PairInvalid(self, values)
        \/ k \in DOMAIN Qwords /\ ~ValidQword(values[k])
        \/ k \in Deferred}

Reload(self, values) ==
    LET next == FromValues(Adjusted(self, values))
        kept == Retained(self, values)
    IN  [force |-> [k \in DOMAIN values |->
                      IF k \in kept THEN self.force[k] ELSE next.force[k]],
         raw |-> [k \in DOMAIN values |->
                      IF k \in kept THEN self.raw[k] ELSE next.raw[k]]]

\* One side of a reported change: nothing when no value is stored, else the
\* stored number, or the one in force when what is stored has another type.
AppliedValue(conf, k) ==
    LET ty == IF k \in DOMAIN Qwords THEN "qword" ELSE "dword" IN
    IF conf.raw[k].ty = "absent" THEN <<>>
    ELSE IF conf.raw[k].ty = ty THEN <<conf.raw[k].n>>
    ELSE <<conf.force[k]>>

AppliedChanges(self, next) ==
    {[key |-> k, previous |-> AppliedValue(self, k),
      current |-> AppliedValue(next, k)] :
        k \in {c \in DOMAIN self.force \intersect Compared :
                 self.force[c] # next.force[c]}}

-----------------------------------------------------------------------------
(* The configuration in force. *)

CONSTANTS Contents  \* what the registry may hold: functions from the keys

\* The registry is read for a fixed list of values, the thresholds among them;
\* one that is not stored is read as absent.
ASSUME ContentsAssumption ==
    \A v, w \in Contents :
        /\ DOMAIN v = DOMAIN w
        /\ Pair \subseteq DOMAIN v /\ DOMAIN v \subseteq AllKeys
        /\ \A k \in DOMAIN v : v[k].n \in Nat

VARIABLES stored,    \* what the registry holds
          conf,      \* the shared configuration
          cwatch,    \* where the watch thread is, and where a reload returns
          fresh,     \* the configuration it is about to publish
          notified,  \* the armed watch has a change to tell
          forced,    \* a signal asked for a reload
          unread,    \* the last reload could not read the registry
          stopping,  \* eventd is shutting down
          budget     \* how often each thing outside eventd's hands may happen

configVars == <<stored, conf, cwatch, fresh, notified, forced, unread>>

Spend(what) ==
    /\ budget[what] > 0
    /\ budget' = [budget EXCEPT ![what] = @ - 1]

Armed == cwatch.pc # "arm" /\ cwatch.back = "poll"

ConfigInit ==
    /\ stored \in {v \in Contents : Loadable(v)}
    /\ conf = FromValues(stored)
    /\ cwatch = [pc |-> "arm", back |-> "poll"]
    /\ fresh = conf
    /\ notified = FALSE
    /\ forced = FALSE
    /\ unread = FALSE

\* Someone writes to the registry, or sends the signal.
ConfigWrite(values) ==
    /\ values # stored
    /\ Spend("write")
    /\ stored' = values
    /\ notified' = (notified \/ Armed)
    /\ UNCHANGED <<conf, cwatch, fresh, forced, unread, stopping>>

ConfigSignal ==
    /\ Spend("signal")
    /\ forced' = TRUE
    /\ UNCHANGED <<stored, conf, cwatch, fresh, notified, unread, stopping>>

-----------------------------------------------------------------------------
(* The watch thread. *)

ConfigArm ==
    /\ cwatch.pc = "arm"
    /\ cwatch' = [pc |-> "reload", back |-> "poll"]
    /\ UNCHANGED <<stored, conf, fresh, notified, forced, unread, stopping,
                   budget>>

Return == [cwatch EXCEPT !.pc = cwatch.back]

\* The registry is read and the new configuration worked out.
ConfigRead ==
    LET next == Reload(conf, stored) IN
    /\ cwatch.pc = "reload"
    /\ unread' = FALSE
    /\ IF AppliedChanges(conf, next) = {}
       THEN cwatch' = Return /\ UNCHANGED fresh
       ELSE cwatch' = [cwatch EXCEPT !.pc = "publish"] /\ fresh' = next
    /\ UNCHANGED <<stored, conf, notified, forced, stopping, budget>>

\* A registry that cannot be read leaves the configuration as it is.
ConfigUnreadable ==
    /\ cwatch.pc = "reload"
    /\ Spend("unreadable")
    /\ cwatch' = Return
    /\ unread' = TRUE
    /\ UNCHANGED <<stored, conf, fresh, notified, forced, stopping>>

ConfigPublish ==
    /\ cwatch.pc = "publish"
    /\ conf' = fresh
    /\ cwatch' = [cwatch EXCEPT !.pc = "tell"]
    /\ UNCHANGED <<stored, fresh, notified, forced, unread, stopping, budget>>

\* Retention and the index policy are woken, and the changes reported.
ConfigTold ==
    /\ cwatch.pc = "tell"
    /\ cwatch' = Return
    /\ UNCHANGED <<stored, conf, fresh, notified, forced, unread, stopping,
                   budget>>

\* A notification or the signal leads to a reload.
ConfigPoll ==
    /\ cwatch.pc = "poll"
    /\ ~stopping
    /\ notified \/ forced
    /\ notified' = FALSE
    /\ forced' = FALSE
    /\ cwatch' = [cwatch EXCEPT !.pc = "reload"]
    /\ UNCHANGED <<stored, conf, fresh, unread, stopping, budget>>

\* The watch closes: its notifications are gone, and the signal with them.
ConfigDegrade ==
    /\ cwatch.pc = "poll"
    /\ Spend("degrade")
    /\ notified' = FALSE
    /\ forced' = FALSE
    /\ cwatch' = [pc |-> "degraded", back |-> "degraded"]
    /\ UNCHANGED <<stored, conf, fresh, unread, stopping>>

\* A mutation of ConfigRearm: what was missed is not read.
ConfigRearmOnly ==
    /\ cwatch.pc = "degraded"
    /\ ~stopping
    /\ cwatch' = [pc |-> "poll", back |-> "poll"]
    /\ UNCHANGED <<stored, conf, fresh, notified, forced, unread, stopping,
                   budget>>

\* A new watch is armed and what the old one missed is read.
ConfigRearm ==
    /\ cwatch.pc = "degraded"
    /\ ~stopping
    /\ cwatch' = [pc |-> "reload", back |-> "poll"]
    /\ UNCHANGED <<stored, conf, fresh, notified, forced, unread, stopping,
                   budget>>

\* It cannot be armed: the signal alone leads to a reload.
ConfigRearmFails ==
    /\ cwatch.pc = "degraded"
    /\ ~stopping
    /\ forced
    /\ forced' = FALSE
    /\ cwatch' = [cwatch EXCEPT !.pc = "reload"]
    /\ UNCHANGED <<stored, conf, fresh, notified, unread, stopping, budget>>

ConfigStop ==
    /\ stopping
    /\ cwatch.pc \in {"poll", "degraded"}
    /\ cwatch' = [cwatch EXCEPT !.pc = "stopped"]
    /\ UNCHANGED <<stored, conf, fresh, notified, forced, unread, stopping,
                   budget>>

=============================================================================
