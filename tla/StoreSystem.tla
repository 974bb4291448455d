---------------------------- MODULE StoreSystem ----------------------------
(***************************************************************************)
(* The log thread, the metric thread and the retention coordinator          *)
(* together, with the producers that send to their sockets, the query       *)
(* workers that propose rollups, and the supervisor's orderly stop.         *)
(***************************************************************************)
EXTENDS Retention

CONSTANTS Starts,    \* the full windows of a query
          MinSamples \* AdaptiveRollupMinSamples

VARIABLES qpc,    \* where the query worker stands
          qask,   \* its series, its transform and the sample before its range
          qrows,  \* rollups it proposes
          spc     \* where the supervisor stands

queryVars == <<qpc, qask, qrows>>
vars == <<sharedVars, logVars, metricVars, evs, retentionVars, queryVars, spc>>

Init ==
    /\ SharedInit
    /\ LogInit
    /\ MetricInit
    /\ RetentionInit
    /\ qpc = "idle"
    /\ qask = [sid |-> 0, pair |-> FALSE, cached |-> {}, before |-> {}]
    /\ qrows = {}
    /\ spc = "running"

-----------------------------------------------------------------------------
\* execute_rollup_window_query: a range with a complete set of valid rollups is
\* answered from them; otherwise the worker reads the samples, those of a pair
\* transform in two statements, and proposes what it computed.
Since == Min(Starts)
CachedWindows(sid, pair) ==
    {r.start : r \in {x \in mrollups : x.sid = sid /\ x.pair = pair /\ Valid(x)}}

QueryPreceding ==
    /\ qpc = "idle"
    /\ rollupRows > 0
    /\ ~ingestStopping
    /\ Spend("queries")
    /\ \E s \in mseries, pair \in BOOLEAN :
         /\ CachedWindows(s.id, pair) /= Starts
         /\ qask' = [sid |-> s.id, pair |-> pair,
                     cached |-> CachedWindows(s.id, pair),
                     before |-> IF pair THEN LastOf(Before(s.id, Since)) ELSE {}]
    /\ qpc' = "read"
    /\ UNCHANGED qrows

\* series_windows and RollupSources: the value of a window and its proof.
Seen == qask.before \cup {s \in msamples : s.sid = qask.sid /\ s.at >= Since
                                             /\ s.at < Max(Starts) + Width}
SeenIn(start) == {s \in Seen : s.at >= start /\ s.at < start + Width}
SeenBefore(start) == LastOf({s \in Seen : s.at < start})
Proposal(start) ==
    LET base == IF qask.pair THEN SeenBefore(start) ELSE {}
    IN [sid |-> qask.sid, start |-> start, pair |-> qask.pair,
        value |-> {s.uid : s \in SeenIn(start) \cup base},
        largest |-> Max({0} \cup {s.id : s \in SeenIn(start)}),
        baseline |-> {s.id : s \in base}]

QueryRead ==
    /\ qpc = "read"
    /\ qrows' = IF Cardinality(Seen) >= MinSamples
                THEN {Proposal(w) : w \in Starts \ qask.cached} ELSE {}
    /\ qpc' = IF qrows' = {} THEN "idle" ELSE "send"
    /\ UNCHANGED <<qask, load>>

\* RollupSender::try_send: a full channel drops the rollups, ...
QuerySend ==
    /\ qpc = "send"
    /\ IF Len(rollq) < RollupSlots /\ ~MetricGone
       THEN rollq' = Append(rollq, qrows) /\ qpc' = "wake"
       ELSE UNCHANGED rollq /\ qpc' = "idle"
    /\ qrows' = {}
    /\ UNCHANGED qask

\* ... an accepted one wakes the metric thread.
QueryWake ==
    /\ qpc = "wake"
    /\ Wake("metric")
    /\ qpc' = "idle"
    /\ UNCHANGED <<qask, qrows>>

-----------------------------------------------------------------------------
\* supervise: a stop, asked for or forced by a thread that failed, ends the
\* coordinator before the ingest threads, which are woken once told.
StopAsked ==
    /\ spc = "running"
    /\ load.stop \/ lpc = "failed" \/ mpc = "failed"
    /\ stopping' = TRUE
    /\ spc' = "joining"
    /\ UNCHANGED <<ingestStopping, wakes>>

StopIngest ==
    /\ spc = "joining"
    /\ rpc = "ended"
    /\ qpc = "idle"
    /\ ingestStopping' = TRUE
    /\ spc' = "flagged"
    /\ UNCHANGED <<stopping, wakes>>

StopWake ==
    /\ spc = "flagged"
    /\ wakes' = [o \in Owners |-> IF wakes[o] < WakeCap THEN wakes[o] + 1 ELSE wakes[o]]
    /\ spc' = "woken"
    /\ UNCHANGED <<stopping, ingestStopping>>

\* Joins done; both threads have ended, or failed.
Finished == spc = "woken" /\ LogGone /\ MetricGone /\ UNCHANGED vars

-----------------------------------------------------------------------------
\* Events keep arriving in the current boot.
EventArrives ==
    /\ Spend("events")
    /\ \E s \in Arrivals :
         evs' = evs \cup {[id |-> NextId(evs), shard |-> s, boot |-> CurrentBoot,
                           at |-> Cutoff + 1]}

\* Both threads time out with nothing to do.
IdlePass == lpc = "waiting" /\ mpc = "waiting" /\ UNCHANGED vars

rest == <<queryVars, spc>>
LogTurn == (LogStep \/ LogTick) /\ UNCHANGED <<metricVars, evs, retentionVars, rest>>
MetricTurn == /\ MetricStep \/ MetricTick
              /\ UNCHANGED <<logVars, evs, retentionVars, rest>>
RetentionTurn == /\ RetentionStep \/ RetHoldEnds
                 /\ UNCHANGED <<logVars, metricVars, rest>>
ReloadTurn == Reload /\ UNCHANGED <<logVars, metricVars, evs, retentionVars, rest>>
QueryTurn == /\ \/ QueryPreceding /\ UNCHANGED <<wakes, rollq>>
                \/ QueryRead /\ UNCHANGED <<wakes, rollq>>
                \/ QuerySend /\ UNCHANGED <<load, wakes>>
                \/ QueryWake /\ UNCHANGED <<load, rollq>>
             /\ UNCHANGED <<sock, commands, response, settings, requested, stopping,
                            ingestStopping, reports, logVars, mpc, mbatch, mopen,
                            mconf, mexpired, mrest, midle, mapplied, mfate, storeVars,
                            evs, retentionVars, spc>>
StopTurn == /\ StopAsked \/ StopIngest \/ StopWake
            /\ UNCHANGED <<load, sock, commands, response, settings, requested,
                           reports, logVars, metricVars, evs, retentionVars,
                           queryVars>>
Produce == /\ \E o \in Owners : Deliver(o) \/ DeliverNoise(o)
           /\ UNCHANGED <<wakes, commands, response, settings, requested, stopping,
                          ingestStopping, reports, logVars, metricVars, evs,
                          retentionVars, rest>>
Arrive == /\ EventArrives
          /\ UNCHANGED <<sock, wakes, commands, response, settings, requested,
                         stopping, ingestStopping, reports, logVars, metricVars,
                         retentionVars, rest>>

Next == LogTurn \/ MetricTurn \/ RetentionTurn \/ ReloadTurn \/ QueryTurn \/ StopTurn
        \/ Produce \/ Arrive \/ IdlePass \/ Finished

\* Threads are scheduled, time passes, and a stop once begun goes on. Producers,
\* queries and reloads need not happen; the coordinator's interval elapses.
Fairness ==
    /\ WF_vars(LogStep /\ UNCHANGED <<metricVars, evs, retentionVars, rest>>)
    /\ WF_vars(LogTick /\ UNCHANGED <<metricVars, evs, retentionVars, rest>>)
    /\ WF_vars(MetricStep /\ UNCHANGED <<logVars, evs, retentionVars, rest>>)
    /\ WF_vars(MetricTick /\ UNCHANGED <<logVars, evs, retentionVars, rest>>)
    /\ WF_vars(RetentionTurn)
    /\ WF_vars(QueryTurn)
    /\ WF_vars(StopTurn)

Spec == Init /\ [][Next]_vars /\ Fairness

-----------------------------------------------------------------------------
\* Properties.

\* What the log thread owes a place: queued, at hand, in the batch, stored.
Queued(o) == UNION {UidsOf(Usable(sock[o].queue[i])) : i \in 1..Len(sock[o].queue)}
LogHeld == Queued("log") \cup UidsOf(lrest) \cup UidsOf(lbatch) \cup LogUids
LogSettled == lfate.discarded \cup lfate.quarantined \cup lfate.deleted
MetricHeld == Queued("metric") \cup UidsOf(mrest) \cup UidsOf(mbatch) \cup Sampled(msamples)
MetricSettled == mfate.discarded \cup mfate.quarantined \cup mfate.deleted \cup mfate.mistyped

\* No accepted log record disappears unnoticed and none comes back: unless the
\* thread fails, a record that was queued, at hand, batched or stored is so
\* after every step, or was given up to a full disk, moved aside with a corrupt
\* database or deleted by retention; and what was settled is never held again.
LogAccounted ==
    [][lpc' /= "failed" => /\ LogHeld \subseteq LogHeld' \cup LogSettled'
                          /\ LogHeld' \cap LogSettled' = {}]_vars

\* The same of metric samples, which a type conflict may also drop.
MetricAccounted ==
    [][mpc' /= "failed" => /\ MetricHeld \subseteq MetricHeld' \cup MetricSettled'
                          /\ MetricHeld' \cap MetricSettled' = {}]_vars

\* A thread that ended in order left nothing behind: its socket was shut before
\* the drain, so nothing was queued behind it, and the last batch is committed.
DrainComplete ==
    /\ lpc = "ended" => /\ sock["log"].queue = <<>> /\ sock["log"].shut
                        /\ lbatch = <<>> /\ lrest = <<>>
    /\ mpc = "ended" => /\ sock["metric"].queue = <<>> /\ sock["metric"].shut
                        /\ mbatch = <<>> /\ mrest = <<>>

\* All of these (log_ingest.rs and metric_ingest.rs, run and commit_batch).
RecordsAccounted == LogAccounted /\ MetricAccounted /\ []DrainComplete

\* What the threads remember of their tables agrees with them through failed
\* transactions, deletes and replaced databases: the origins known to be
\* catalogued are, and so are those of all stored rows; the cached series exist,
\* keys name one series each, and every sample is filed under the series of its
\* own key (log_store.rs, commit; metric_store.rs, resolve_or_insert and
\* retain_oldest).
CachesCoherent ==
    /\ {r.origin : r \in lrows} \cup lknown \subseteq lorigins
    /\ ToSet(mcache) \subseteq mseries
    /\ \A s \in msamples : \E t \in mseries : t.id = s.sid /\ t.key = s.of
    /\ \A t, u \in mseries : t.key = u.key \/ t.id = u.id => t = u
    /\ \A t \in mseries : \E s \in msamples : s.sid = t.id

\* A rollup that passes the reader's test has the value that the raw samples
\* give.
RollupsAgree == \A r \in mrollups : Valid(r) => r.value = Raw(r.sid, r.start, r.pair)

\* Until a sample is deleted or moved aside, a rollup that passes the reader's
\* test has the value the raw samples give: late and out-of-order samples, and
\* a late sample before the window, are seen.  The rollups never outgrow the
\* bound last applied (executor.rs, read_valid_rollups; metric_ingest.rs,
\* process_rollups).
RollupExact ==
    /\ mfate.deleted \cup mfate.quarantined = {} => RollupsAgree
    /\ Cardinality(mrollups) <= Max({0, mapplied})

\* Size retention deletes boot by boot, in the order of their newest rows, and
\* rows of the current boot only when no other boot has any left, unless it has
\* left a boot because the limit was lifted.  The first boot of a pass goes
\* whatever the size of the store; each one after it goes only if the store with
\* it was over the limit, and a batch of the current boot likewise
\* (retention.rs, retain_event_size and delete_boot).
OldestBootFirst ==
    [][\A e \in evs \ evs' :
         /\ rpc = "trimDelete" =>
              /\ rpast.lifted \/ OtherBoots = {}
              /\ Cardinality(evs) + rcount > eventMax
         /\ rpc = "bootDelete" =>
              LET whole == {r \in rpast.rows : r.boot = e.boot} \cup evs
              IN /\ rpast.lifted \/ \A b \in OtherBoots : Newest(b) >= Newest(e.boot)
                 /\ \/ \A r \in rpast.rows \ evs : r.boot = e.boot
                    \/ Cardinality(whole) > eventMax]_vars

\* A batch does not stay open for ever, even under an endless stream of
\* datagrams that yield nothing.
BatchCommits ==
    /\ (lbatch /= <<>>) ~> (lbatch = <<>> \/ lpc = "failed")
    /\ (mbatch /= <<>>) ~> (mbatch = <<>> \/ mpc = "failed")

\* A stop completes, whoever is waiting for whom and whatever keeps arriving.
StopCompletes == stopping ~> (rpc = "ended" /\ LogGone /\ MetricGone)

\* While passes go on, the log store is brought back under its limit again and
\* again, even if the event store fails every time; so is the metric store.
StoresBounded ==
    load.forever => /\ []<>(~OverStore("log") \/ LogGone)
                    /\ []<>(~OverStore("metric") \/ MetricGone)
=============================================================================
