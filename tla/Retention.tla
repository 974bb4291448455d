----------------------------- MODULE Retention -----------------------------
(***************************************************************************)
(* The retention coordinator (retention::run). A pass retains the event     *)
(* shards, then the log store, then the metric store; one that fails does   *)
(* not keep it from the others.                                             *)
(*                                                                          *)
(* An event row is [id, shard, boot, at]. The writers of current shards     *)
(* execute the coordinator's commands between their own batches (module     *)
(* ShardWriter), the historical shards belong to the coordinator: either    *)
(* way a command is one transaction, and a step here. Sizes count rows.     *)
(***************************************************************************)
EXTENDS LogIngest, MetricIngest

CONSTANTS Shards,      \* sequence: current shards, then historical ones
          Arrivals,    \* the current shards, where events arrive
          CurrentBoot

VARIABLES evs,     \* the rows of all shards
          rpc,     \* where the coordinator stands
          rhold,   \* after a failed pass: "holding" off requests, then "held"
          rfailed, \* some store failed in this pass
          ri,      \* shard at hand, an index of Shards
          rcount,  \* rows that delete_boot_once has deleted so far
          rboots,  \* boots that retain_event_size has yet to delete
          rowner,  \* the ingest thread being asked
          rask,    \* what it is asked for
          rpast    \* history: the rows that size retention began with, and whether
                   \* it has left a boot because there was no limit any more

retentionVars == <<rpc, rhold, rfailed, ri, rcount, rboots, rowner, rask, rpast>>

RetentionInit ==
    /\ evs = load.rows
    /\ rpc = "wait"
    /\ rhold = "no"
    /\ rfailed = FALSE
    /\ ri = 1
    /\ rcount = 0
    /\ rboots = <<>>
    /\ rowner = "log"
    /\ rask = "age"
    /\ rpast = [rows |-> {}, lifted |-> FALSE]

Over(size, maximum) == maximum /= 0 /\ size > maximum
OverEvents == Over(Cardinality(evs), eventMax)
OverStore(o) == IF o = "log" THEN Over(Cardinality(lrows), LogMaxRows)
                ELSE Over(Cardinality(msamples), MetricMaxRows)

others == <<sock, wakes, commands, response, settings, stopping, ingestStopping,
            reports>>

\* wait_interval: a request is taken, or the interval has passed, which leaves
\* a request made late, or during a longer hold, standing; neither happens
\* before the hold has passed. A scenario has a number of intervals, or passes
\* for ever.
RetBegin ==
    /\ rpc = "wait"
    /\ ~stopping
    /\ rhold /= "holding"
    /\ \/ requested /\ requested' = FALSE /\ UNCHANGED load
       \/ /\ rhold = "held" \/ ~requested
          /\ (load.forever /\ UNCHANGED load) \/ Spend("passes")
          /\ UNCHANGED requested
    /\ rpc' = "ageEvents"
    /\ ri' = 1
    /\ rfailed' = FALSE
    /\ UNCHANGED <<others, evs, rhold, rcount, rboots, rowner, rask, rpast>>

RetHoldEnds ==
    /\ rpc = "wait"
    /\ rhold = "holding"
    /\ rhold' = "held"
    /\ UNCHANGED <<others, load, requested, evs, rpc, rfailed, ri, rcount, rboots,
                   rowner, rask, rpast>>

RetStop ==
    /\ rpc = "wait"
    /\ stopping
    /\ rpc' = "ended"
    /\ UNCHANGED <<others, load, requested, evs, rhold, rfailed, ri, rcount,
                   rboots, rowner, rask, rpast>>

\* Asking an ingest thread begins with its age limit, or, when stopping, with
\* the checkpoint that follows it.
Turn(o) ==
    /\ rpc' = "ask"
    /\ rowner' = o
    /\ rask' = IF stopping THEN "check" ELSE "age"

\* Mutation: the first store that fails ends the pass.
StoreDoneHasty(o, failed) ==
    /\ rfailed' = (rfailed \/ failed)
    /\ IF o = "metric" \/ failed
       THEN /\ rpc' = "wait"
            /\ rhold' = IF rfailed' THEN "holding" ELSE "no"
            /\ UNCHANGED <<rowner, rask>>
       ELSE /\ Turn(IF o = "event" THEN "log" ELSE "metric")
            /\ UNCHANGED rhold

\* A store is done with, whether or not it failed; after the last one a pass
\* that failed anywhere holds off requests.
StoreDone(o, failed) ==
    /\ rfailed' = (rfailed \/ failed)
    /\ IF o = "metric"
       THEN /\ rpc' = "wait"
            /\ rhold' = IF rfailed' THEN "holding" ELSE "no"
            /\ UNCHANGED <<rowner, rask>>
       ELSE /\ Turn(IF o = "event" THEN "log" ELSE "metric")
            /\ UNCHANGED rhold

-----------------------------------------------------------------------------
\* Events.

\* A command to an event shard fails.
EventFails ==
    /\ load.flaky
    /\ StoreDone("event", TRUE)
    /\ UNCHANGED <<evs, ri, rcount, rboots, rpast>>

Goto(next) ==
    /\ rpc' = next
    /\ UNCHANGED <<rhold, rfailed, rowner, rask>>

\* retain_event_age and the same loop over the historical shards.
AgedIn(s) == Oldest({e \in evs : e.shard = s /\ e.at < Cutoff}, DeleteRows)
RetAgeEvents ==
    /\ rpc = "ageEvents"
    /\ \/ LET gone == IF stopping THEN {} ELSE AgedIn(Shards[ri])
          IN /\ evs' = evs \ gone
             /\ IF Cardinality(gone) = DeleteRows
                THEN UNCHANGED ri /\ Goto("ageEvents")
                ELSE IF ri < Len(Shards)
                     THEN ri' = ri + 1 /\ Goto("ageEvents")
                     ELSE ri' = 1 /\ Goto("checkEvents")
             /\ UNCHANGED <<rcount, rboots, rpast>>
       \/ EventFails
    /\ UNCHANGED <<others, load, requested>>

\* boot_inventory: the other boots, the one with the oldest newest row first.
Newest(boot) == Max({e.at : e \in {x \in evs : x.boot = boot}})
OtherBoots == {e.boot : e \in evs} \ {CurrentBoot}

\* Mutation: the boots in any order.
InventoryUnsorted == SetToSeqs(OtherBoots)

Inventory == {q \in SetToSeqs(OtherBoots) :
                \A i, j \in 1..Len(q) : i < j => Newest(q[i]) <= Newest(q[j])}

\* checkpoint_events, then retain_event_size when there is a limit. The boots
\* are deleted from the first one on, whatever the size is before that.
RetCheckEvents ==
    /\ rpc = "checkEvents"
    /\ \/ /\ IF eventMax /= 0
             THEN rboots' \in Inventory /\ Goto("bootTest")
             ELSE StoreDone("event", FALSE) /\ UNCHANGED rboots
          /\ rpast' = [rows |-> evs, lifted |-> FALSE]
          /\ UNCHANGED <<evs, ri, rcount>>
       \/ EventFails
    /\ UNCHANGED <<others, load, requested>>

\* The loop of delete_boot, which a lifted limit or a stop ends.
RetBootTest ==
    /\ rpc = "bootTest"
    /\ ri' = 1
    /\ rcount' = 0
    /\ Goto(CASE rboots = <<>> -> "trimTest"
              [] rboots /= <<>> /\ ~stopping /\ eventMax /= 0 -> "bootDelete"
              [] OTHER -> "bootCheck")
    /\ rpast' = [rpast EXCEPT !.lifted = @ \/ (rboots /= <<>> /\ eventMax = 0)]
    /\ UNCHANGED <<others, load, requested, evs, rboots>>

\* delete_boot_once, one shard.
OfBoot(s, boot) == Oldest({e \in evs : e.shard = s /\ e.boot = boot}, DeleteRows)
DeleteBootIn(boot, again, done) ==
    LET gone == OfBoot(Shards[ri], boot)
    IN /\ evs' = evs \ gone
       /\ rcount' = rcount + Cardinality(gone)
       /\ IF ri < Len(Shards)
          THEN ri' = ri + 1 /\ Goto(rpc)
          ELSE ri' = 1 /\ (IF rcount' /= 0 THEN Goto(again) ELSE done)
       /\ UNCHANGED <<rboots, rpast>>

RetBootDelete ==
    /\ rpc = "bootDelete"
    /\ DeleteBootIn(Head(rboots), "bootTest", Goto("bootCheck")) \/ EventFails
    /\ UNCHANGED <<others, load, requested>>

\* Mutation: the size is not looked at between two boots.
RetBootCheckBlind ==
    /\ rpc = "bootCheck"
    /\ \/ /\ rboots' = Tail(rboots)
          /\ Goto("bootTest")
          /\ UNCHANGED <<evs, ri, rcount, rpast>>
       \/ EventFails
    /\ UNCHANGED <<others, load, requested>>

\* checkpoint_events, and the next boot while the store is over its limit.
RetBootCheck ==
    /\ rpc = "bootCheck"
    /\ \/ /\ rboots' = Tail(rboots)
          /\ IF OverEvents THEN Goto("bootTest") ELSE StoreDone("event", FALSE)
          /\ UNCHANGED <<evs, ri, rcount, rpast>>
       \/ EventFails
    /\ UNCHANGED <<others, load, requested>>

\* Only the current boot is left: its oldest rows, until the limit holds.
RetTrimTest ==
    /\ rpc = "trimTest"
    /\ IF ~stopping /\ OverEvents THEN Goto("trimDelete") ELSE StoreDone("event", FALSE)
    /\ ri' = 1
    /\ rcount' = 0
    /\ UNCHANGED <<others, load, requested, evs, rboots, rpast>>

RetTrimDelete ==
    /\ rpc = "trimDelete"
    /\ \/ DeleteBootIn(CurrentBoot, "trimCheck", StoreDone("event", FALSE))
       \/ EventFails
    /\ UNCHANGED <<others, load, requested>>

RetTrimCheck ==
    /\ rpc = "trimCheck"
    /\ \/ Goto("trimTest") /\ UNCHANGED <<evs, ri, rcount, rboots, rpast>>
       \/ EventFails
    /\ UNCHANGED <<others, load, requested>>

-----------------------------------------------------------------------------
\* Logs and metrics.

Gone(o) == IF o = "log" THEN LogGone ELSE MetricGone
Command == IF rask \in {"age", "size"}
           THEN [kind |-> "delete", aged |-> rask = "age"]
           ELSE [kind |-> "checkpoint", aged |-> FALSE]

\* WakingSender::send: the command, unless its receiver is gone, ...
RetAsk ==
    /\ rpc = "ask"
    /\ IF Gone(rowner)
       THEN StoreDone(rowner, TRUE) /\ UNCHANGED <<commands, response>>
       ELSE /\ SendCommand(rowner, Command)
            /\ ReplyTo(rowner, NoReply)
            /\ Goto("wake")
    /\ UNCHANGED <<load, sock, wakes, settings, requested, stopping, ingestStopping,
                   reports, evs, ri, rcount, rboots, rpast>>

\* ... and then the wake.
RetWake ==
    /\ rpc = "wake"
    /\ Wake(rowner)
    /\ Goto("await")
    /\ UNCHANGED <<load, sock, commands, response, settings, requested, stopping,
                   ingestStopping, reports, evs, ri, rcount, rboots, rpast>>

Ask(what) ==
    /\ rpc' = "ask"
    /\ rask' = what
    /\ UNCHANGED <<rhold, rfailed, rowner>>

\* log_delete and metric_delete, checkpoint_log and checkpoint_metric, and what
\* retain_logs and retain_metrics do next. A thread that ends drops the
\* sender of the reply.
RetReply ==
    /\ rpc = "await"
    /\ LET r == response[rowner]
       IN \/ /\ r.kind = "ok"
             /\ CASE rask = "age" -> Ask(IF r.rows = DeleteRows /\ ~stopping
                                         THEN "age" ELSE "check")
                  [] rask = "size" /\ r.rows /= 0 -> Ask("check")
                  [] rask = "check" /\ ~stopping /\ OverStore(rowner) -> Ask("size")
                  [] OTHER -> StoreDone(rowner, FALSE)
          \/ /\ r.kind = "error"
             /\ StoreDone(rowner, TRUE)
          \/ /\ r.kind = "none"
             /\ Gone(rowner)
             /\ StoreDone(rowner, TRUE)
    /\ UNCHANGED <<others, load, requested, evs, ri, rcount, rboots, rpast>>

RetentionStep == RetBegin \/ RetStop \/ RetAgeEvents \/ RetCheckEvents \/ RetBootTest
                 \/ RetBootDelete \/ RetBootCheck \/ RetTrimTest \/ RetTrimDelete
                 \/ RetTrimCheck \/ RetAsk \/ RetWake \/ RetReply
=============================================================================
