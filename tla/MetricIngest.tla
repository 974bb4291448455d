---------------------------- MODULE MetricIngest ----------------------------
(***************************************************************************)
(* The metric thread (metric_ingest::run), the owner of the metric store.   *)
(* Its loop is the log thread's with two additions: its own health samples  *)
(* at the head of a pass, and the rollups of the query workers when a pass  *)
(* was idle. A datagram whose publisher is refused counts as noise.         *)
(***************************************************************************)
EXTENDS MetricStore

CONSTANTS RollupSlots \* AdaptiveRollupQueueSlots

VARIABLES mpc,      \* where the thread stands
          mbatch,   \* records of the open transaction
          mopen,    \* its size cap, fixed when it opened; 0 when none is open
          mconf,    \* the settings as the pass read them
          mexpired, \* its latency cap has passed
          mrest,    \* records at hand not yet pushed
          midle,    \* the pass found its socket empty
          mapplied, \* the rollup bound last applied; -1 for none
          rollq,    \* the channel of computed rollups
          mfate     \* history: uids discarded, quarantined, deleted, mistyped

metricVars == <<mpc, mbatch, mopen, mconf, mexpired, mrest, midle, mapplied,
                rollq, mfate, storeVars>>

MetricInit ==
    /\ StoreInit
    /\ mpc = "top"
    /\ mbatch = <<>>
    /\ mopen = 0
    /\ mconf = [batch |-> 0, rollups |-> 0]
    /\ mexpired = FALSE
    /\ mrest = <<>>
    /\ midle = FALSE
    /\ mapplied = -1
    /\ rollq = <<>>
    /\ mfate = [discarded |-> {}, quarantined |-> {}, deleted |-> {}, mistyped |-> {}]

UidsOf(records) == {r.uid : r \in ToSet(records)}
Sampled(samples) == {s.uid : s \in samples}

MetricStored(b) ==
    /\ StoreCommit(b)
    /\ mfate' = [mfate EXCEPT !.mistyped = @ \cup (UidsOf(b) \ Sampled(msamples'))]
    /\ UNCHANGED <<requested, reports, load>>

\* request_retention
MetricRefused(b) ==
    /\ Spend("refuse")
    /\ requested' = TRUE
    /\ StoreRollBack(b)
    /\ mfate' = [mfate EXCEPT !.discarded = @ \cup UidsOf(b)]
    /\ UNCHANGED reports

\* recover_corruption
MetricCorrupt(uids) ==
    /\ Spend("corrupt")
    /\ StoreReplaced
    /\ mfate' = [mfate EXCEPT !.quarantined = @ \cup Sampled(msamples) \cup uids]
    /\ reports' = Append(reports, "metric")
    /\ UNCHANGED requested

\* Any other error ends the thread; the transaction may be durable.
MetricFatal(b) ==
    /\ Spend("fatal")
    /\ StoreCommit(b) \/ StoreRollBack(b)
    /\ UNCHANGED <<mfate, requested, reports>>

\* commit_batch, and the clearing of the batch that follows it everywhere.
MetricCommit(b, next) ==
    /\ \/ MetricStored(b) /\ mpc' = next
       \/ MetricRefused(b) /\ mpc' = next
       \/ MetricCorrupt(UidsOf(b)) /\ mpc' = next
       \/ MetricFatal(b) /\ mpc' = "failed"
    /\ mbatch' = <<>>
    /\ mopen' = 0
    /\ mexpired' = FALSE

batchUnchanged == <<mbatch, mopen, mexpired, storeVars, mfate, requested,
                    reports, load>>
channelVars == <<wakes, commands, response, settings, stopping, ingestStopping>>

\* Time passes: the latency cap of the open transaction is reached.
MetricTick ==
    /\ mopen > 0
    /\ ~mexpired
    /\ mexpired' = TRUE
    /\ UNCHANGED <<sharedVars, mpc, mbatch, mopen, mconf, mrest, midle, mapplied,
                   rollq, mfate, storeVars>>

HealthSample == [uid |-> 10 + load.health, key |-> "health", type |-> "gauge",
                 at |-> Cutoff, ok |-> TRUE]

\* The head of the loop: the settings are read; the thread's own samples are
\* due, or the latency cap has passed, or neither.
MetricTop ==
    /\ mpc = "top"
    /\ ~ingestStopping
    /\ mconf' = [batch |-> batchSize, rollups |-> rollupRows]
    /\ \/ /\ Spend("health")
          /\ mrest' = <<HealthSample>>
          /\ mpc' = "health"
          /\ UNCHANGED <<mbatch, mopen, mexpired, storeVars, mfate, requested, reports>>
       \/ /\ IF mopen > 0 /\ mexpired
             THEN MetricCommit(mbatch, "receive")
             ELSE mpc' = "receive" /\ UNCHANGED batchUnchanged
          /\ UNCHANGED mrest
    /\ UNCHANGED <<sock, channelVars, midle, mapplied, rollq>>

\* One record joins the batch, which takes the size cap the pass read as it
\* opens; due says whether the batch is committed with it.
MetricPushed(due(_), next) ==
    LET b == Append(mbatch, Head(mrest))
        cap == IF mopen = 0 THEN mconf.batch ELSE mopen
        after == IF Len(mrest) = 1 THEN next ELSE mpc
    IN /\ mrest' = Tail(mrest)
       /\ IF due(Len(b) >= cap)
          THEN MetricCommit(b, after)
          ELSE /\ mbatch' = b
               /\ mopen' = cap
               /\ mpc' = after
               /\ UNCHANGED <<mexpired, storeVars, mfate, requested, reports, load>>
       /\ UNCHANGED <<sock, channelVars, mconf, midle, mapplied, rollq>>

\* Mutation: the health samples replace the open batch.
MetricHealthAlone ==
    /\ mpc = "health"
    /\ MetricCommit(<<Head(mrest)>>, "receive")
    /\ mrest' = Tail(mrest)
    /\ UNCHANGED <<sock, channelVars, mconf, midle, mapplied, rollq>>

\* commit_health_samples: the open transaction is filled to its own cap, and
\* the last sample commits whatever is there.
MetricHealth ==
    /\ mpc = "health"
    /\ MetricPushed(LAMBDA full : full \/ Len(mrest) = 1, "receive")

MetricReceive ==
    /\ mpc = "receive"
    /\ midle' = ReceiveEmpty("metric")
    /\ IF ReceiveEmpty("metric")
       THEN /\ IF mbatch = <<>>
               THEN mpc' = "waiting" /\ UNCHANGED batchUnchanged
               ELSE MetricCommit(mbatch, "maintain")
            /\ UNCHANGED <<sock, mrest>>
       ELSE /\ Taken("metric")
            /\ mrest' = Usable(Received("metric"))
            /\ mpc' = IF Usable(Received("metric")) = <<>> THEN "maintain" ELSE "push"
            /\ UNCHANGED batchUnchanged
    /\ UNCHANGED <<channelVars, mconf, mapplied, rollq>>

\* batch_is_due: at the size cap, or at the latency cap.
MetricPush ==
    /\ mpc = "push"
    /\ MetricPushed(LAMBDA full : full \/ (mopen > 0 /\ mexpired), "maintain")

MetricWait ==
    /\ mpc = "waiting"
    /\ Due("metric", rollq /= <<>> \/ load.health > 0
                     \/ mconf /= [batch |-> batchSize, rollups |-> rollupRows])
    /\ TakeWake("metric")
    /\ mpc' = "maintain"
    /\ UNCHANGED <<sock, commands, response, settings, stopping, ingestStopping,
                   batchUnchanged, mconf, mrest, midle, mapplied, rollq>>

MetricRemove(c) ==
    /\ RetainOldest(c)
    /\ mfate' = [mfate EXCEPT !.deleted = @ \cup Sampled(Victims(c))]

\* process_maintenance: one command, or none, at each pass.
MetricMaintain ==
    /\ mpc = "maintain"
    /\ IF commands["metric"] = <<>>
       THEN /\ mpc' = "rollups"
            /\ UNCHANGED <<commands, response, storeVars, mfate, requested,
                           reports, load>>
       ELSE LET c == Head(commands["metric"])
            IN /\ commands' = [commands EXCEPT !["metric"] = Tail(@)]
               /\ \/ /\ MetricRemove(c)
                     /\ ReplyTo("metric", Answer(Cardinality(Victims(c))))
                     /\ mpc' = "rollups"
                     /\ UNCHANGED <<requested, reports, load>>
                  \/ /\ Spend("refuse")
                     /\ requested' = TRUE
                     /\ MetricRemove(c) \/ UNCHANGED <<storeVars, mfate>>
                     /\ ReplyTo("metric", Refusal)
                     /\ mpc' = "rollups"
                     /\ UNCHANGED reports
                  \/ /\ MetricCorrupt({})
                     /\ ReplyTo("metric", Refusal)
                     /\ mpc' = "rollups"
                  \/ /\ Spend("fatal")
                     /\ MetricRemove(c) \/ UNCHANGED <<storeVars, mfate>>
                     /\ ReplyTo("metric", Refusal)
                     /\ mpc' = "failed"
                     /\ UNCHANGED <<requested, reports>>
    /\ UNCHANGED <<sock, wakes, settings, stopping, ingestStopping, mbatch, mopen,
                   mexpired, mconf, mrest, midle, mapplied, rollq>>

\* What process_rollups writes: the rollups at the head of the channel, or the
\* new bound alone.
RollupWrite ==
    IF rollq /= <<>> /\ mconf.rollups /= 0
    THEN CommitRollups(Head(rollq), mconf.rollups)
    ELSE PruneRollups(mconf.rollups)

\* A rollup of a series that is gone breaks the foreign key.
Orphaned ==
    /\ rollq /= <<>> /\ mconf.rollups /= 0
    /\ \E r \in Head(rollq) : ~\E s \in mseries : s.id = r.sid

\* Mutation: a bound of zero is taken for no bound.
MetricRollupsLax ==
    /\ mpc = "rollups"
    /\ mpc' = "top"
    /\ rollq' = IF midle /\ rollq /= <<>> THEN Tail(rollq) ELSE rollq
    /\ mapplied' = IF midle THEN mconf.rollups ELSE mapplied
    /\ IF midle /\ rollq /= <<>> /\ mconf.rollups /= 0
       THEN \/ CommitRollups(Head(rollq), mconf.rollups)
            \/ UNCHANGED storeVars
       ELSE UNCHANGED storeVars
    /\ UNCHANGED <<mfate, requested, reports, load, sock, channelVars, mbatch,
                   mopen, mexpired, mconf, mrest, midle>>

\* process_rollups, only after a pass that found the socket empty. One message
\* is taken; with none to write, a changed bound is applied. Whatever fails,
\* the message is gone, and the bound is applied again at the next idle pass.
MetricRollups ==
    /\ mpc = "rollups"
    /\ mpc' = "top"
    /\ rollq' = IF midle /\ rollq /= <<>> THEN Tail(rollq) ELSE rollq
    /\ IF ~midle \/ (mapplied = mconf.rollups /\ (rollq = <<>> \/ mconf.rollups = 0))
       THEN UNCHANGED <<mapplied, storeVars, mfate, requested, reports, load>>
       ELSE \/ /\ RollupWrite
               /\ mapplied' = mconf.rollups
               /\ UNCHANGED <<mfate, requested, reports, load>>
            \/ /\ Spend("refuse")
               /\ requested' = TRUE
               /\ UNCHANGED <<mapplied, storeVars, mfate, reports>>
            \/ /\ MetricCorrupt({})
               /\ UNCHANGED mapplied
            \/ /\ Orphaned \/ load.fatal > 0
               /\ UNCHANGED <<mapplied, storeVars, mfate, requested, reports, load>>
    /\ UNCHANGED <<sock, channelVars, mbatch, mopen, mexpired, mconf, mrest, midle>>

\* The loop is over: shut the socket for reading, then drain its queue.
MetricShut ==
    /\ mpc = "top"
    /\ ingestStopping
    /\ ShutForReading("metric")
    /\ mpc' = "drain"
    /\ UNCHANGED <<channelVars, batchUnchanged, mconf, mrest, midle, mapplied, rollq>>

MetricDrain ==
    /\ mpc = "drain"
    /\ mconf' = [mconf EXCEPT !.batch = batchSize]
    /\ IF ReceiveEmpty("metric")
       THEN /\ IF mbatch = <<>>
               THEN mpc' = "ended" /\ UNCHANGED batchUnchanged
               ELSE MetricCommit(mbatch, "ended")
            /\ UNCHANGED <<sock, mrest>>
       ELSE /\ Taken("metric")
            /\ mrest' = Usable(Received("metric"))
            /\ mpc' = IF Usable(Received("metric")) = <<>> THEN "drain" ELSE "drainPush"
            /\ UNCHANGED batchUnchanged
    /\ UNCHANGED <<channelVars, midle, mapplied, rollq>>

MetricDrainPush ==
    /\ mpc = "drainPush"
    /\ MetricPushed(LAMBDA full : full, "drain")

MetricGone == mpc \in {"ended", "failed"}

MetricStep == MetricTop \/ MetricHealth \/ MetricReceive \/ MetricWait \/ MetricPush
              \/ MetricMaintain \/ MetricRollups \/ MetricShut \/ MetricDrain
              \/ MetricDrainPush
=============================================================================
