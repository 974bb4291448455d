---------------------------- MODULE ShardWriter ----------------------------
(***************************************************************************)
(* The writer thread of one shard (eventd/src/writer.rs) and the           *)
(* transactions it runs on the shard database (eventd-core/src/shard.rs).  *)
(*                                                                         *)
(*   wpc[s]     where the thread is in its loop                            *)
(*   batch[s]   the batch being collected or committed                     *)
(*   ctl[s]     the control message taken from the queue, if any           *)
(*   pending[s] pending_gaps: keys consumed and not stored, whose loss is  *)
(*              not recorded yet                                           *)
(*                                                                         *)
(* A transaction is one step, with the outcome SQLite gives it: committed, *)
(* refused for want of space, corrupt, or another error.  The checkpoint   *)
(* that follows a commit can fail too, so the last two outcomes may come   *)
(* with the transaction committed or not.                                  *)
(***************************************************************************)
EXTENDS IngestState

Running == phase # "down"

Enter(s, label) == wpc' = [wpc EXCEPT ![s] = label]

Pop(s) == queue' = [queue EXCEPT ![s] = Tail(@)]

\* A reply lost with its sender reads as an error.
Reply(s, m, ok) == replies' = replies \cup {<<m.from, s, ok>>}

\* Mutation: the losses wait for another batch.
CommitRowsFirst(s) == Enter(s, "rows")

\* commit_batch: losses not recorded yet go first.
Commit(s) == Enter(s, IF pending[s] = {} THEN "rows" ELSE "gaps")

\* What follows commit_batch: the control message that closed the batch.
AfterBatch(s) == IF ctl[s] = NoMsg THEN "idle" ELSE "control"

\* Inner::pop passes over a cancelled slot.
SkipCancelled(s) ==
    /\ Running /\ wpc[s] \in {"idle", "batch", "draining"}
    /\ HeadIs(queue[s], Cancelled)
    /\ Pop(s)
    /\ UNCHANGED <<closed, replies, kernelVars, storeVars, drainVars, writerVars,
                   superVars, budget>>

\* pop_wait returns a message: an event opens a batch.
PopFirst(s) ==
    /\ Running /\ wpc[s] = "idle"
    /\ HeadIs(queue[s], Published)
    /\ Pop(s)
    /\ LET m == HeadMsg(queue[s])
       IN  IF m.kind = "event"
           THEN /\ batch' = [batch EXCEPT ![s] = <<m>>]
                /\ Enter(s, "batch")
                /\ UNCHANGED ctl
           ELSE /\ ctl' = [ctl EXCEPT ![s] = m]
                /\ Enter(s, "control")
                /\ UNCHANGED batch
    /\ UNCHANGED <<pending, dropped, closed, replies, kernelVars, storeVars,
                   drainVars, superVars, budget>>

\* pop fills the batch; a control message commits it first.
PopMore(s) ==
    /\ Running /\ wpc[s] = "batch"
    /\ Len(batch[s]) < MaxBatch
    /\ HeadIs(queue[s], Published)
    /\ Pop(s)
    /\ LET m == HeadMsg(queue[s])
       IN  IF m.kind = "event"
           THEN /\ batch' = [batch EXCEPT ![s] = Append(@, m)]
                /\ UNCHANGED <<wpc, ctl>>
           ELSE /\ ctl' = [ctl EXCEPT ![s] = m]
                /\ Commit(s)
                /\ UNCHANGED batch
    /\ UNCHANGED <<pending, dropped, closed, replies, kernelVars, storeVars,
                   drainVars, superVars, budget>>

\* The batch is full, the latency has elapsed, or the queue shows nothing.
CloseBatch(s) ==
    /\ Running /\ wpc[s] = "batch"
    /\ Commit(s)
    /\ UNCHANGED <<batch, ctl, pending, dropped, chanVars, kernelVars, storeVars,
                   drainVars, superVars, budget>>

(***************************************************************************)
(* Outcomes.                                                               *)
(***************************************************************************)
\* Mutation: a reported loss gets no receipt.
RecordRowReceipts(s, st, gs) ==
    /\ rows' = [rows EXCEPT ![s] = @ \cup st]
    /\ lost' = [lost EXCEPT ![s] = @ \cup gs]
    /\ receipts' = [receipts EXCEPT ![s] = @ \cup st]
    /\ UNCHANGED <<retired, quarantined>>

\* A committed transaction: rows, the losses it records, receipts for both.
Record(s, st, gs) ==
    /\ rows' = [rows EXCEPT ![s] = @ \cup st]
    /\ lost' = [lost EXCEPT ![s] = @ \cup gs]
    /\ receipts' = [receipts EXCEPT ![s] = @ \cup st \cup gs]
    /\ UNCHANGED <<retired, quarantined>>

\* Mutation: the database is opened again without being moved aside first, and
\* loses its receipts only.
QuarantineReceipts(s, extra) ==
    /\ receipts' = [receipts EXCEPT ![s] = {}]
    /\ UNCHANGED <<rows, lost, retired, quarantined>>

\* Shard::replace_corrupt: the database is moved aside and an empty one opened.
\* What it recorded, with extra committed last, is no longer readable.
Quarantine(s, extra) ==
    /\ rows' = [rows EXCEPT ![s] = {}]
    /\ lost' = [lost EXCEPT ![s] = {}]
    /\ receipts' = [receipts EXCEPT ![s] = {}]
    /\ retired' = [retired EXCEPT ![s] = {}]
    /\ quarantined' = quarantined \cup receipts[s] \cup extra

\* The database after another error: the transaction rolled back, or committed
\* before its checkpoint failed, or the database was corrupt and could be moved
\* aside but not replaced.
AfterFatal(s, st, gs) ==
    \/ Record(s, {}, {})
    \/ Record(s, st, gs)
    \/ \E done \in {{}, st \cup gs} : Quarantine(s, done)

\* Mutation: the gaps that the batch was to report are forgotten.
RecordLostEvents(s) ==
    /\ pending' = [pending EXCEPT ![s] = @ \cup BatchStores(batch[s])]
    /\ batch' = [batch EXCEPT ![s] = <<>>]

\* record_lost: the batch's claims join the unrecorded losses.
RecordLost(s) ==
    /\ pending' = [pending EXCEPT ![s] = @ \cup BatchClaims(batch[s])]
    /\ batch' = [batch EXCEPT ![s] = <<>>]

\* The thread returns an error: it sets the stop flag, closes its queue, and
\* what it held is discarded, the control message in hand answered with an
\* error.
Fail(s) ==
    /\ stopping' = TRUE
    /\ closed' = [closed EXCEPT ![s] = TRUE]
    /\ dropped' = dropped \cup BatchClaims(batch[s]) \cup pending[s]
    /\ batch' = [batch EXCEPT ![s] = <<>>]
    /\ pending' = [pending EXCEPT ![s] = {}]
    /\ IF ctl[s] = NoMsg THEN UNCHANGED replies ELSE Reply(s, ctl[s], FALSE)
    /\ ctl' = [ctl EXCEPT ![s] = NoMsg]
    /\ Enter(s, "draining")

(***************************************************************************)
(* Shard::commit_gaps, retried once on a replaced database.                *)
(***************************************************************************)
\* Mutation: losses once recorded stay pending.
GapsCommittedAgain(s) ==
    /\ Running /\ wpc[s] \in {"gaps", "regaps"}
    /\ Record(s, {}, pending[s])
    /\ Enter(s, "rows")
    /\ UNCHANGED <<batch, ctl, pending, dropped, chanVars, kernelVars, drainVars,
                   superVars, budget>>

GapsCommitted(s) ==
    /\ Running /\ wpc[s] \in {"gaps", "regaps"}
    /\ Record(s, {}, pending[s])
    /\ pending' = [pending EXCEPT ![s] = {}]
    /\ Enter(s, "rows")
    /\ UNCHANGED <<batch, ctl, dropped, chanVars, kernelVars, drainVars, superVars,
                   budget>>

\* batch_refused
GapsRefused(s) ==
    /\ Running /\ wpc[s] \in {"gaps", "regaps"}
    /\ Spend("refuse")
    /\ RecordLost(s)
    /\ Enter(s, AfterBatch(s))
    /\ UNCHANGED <<ctl, dropped, chanVars, kernelVars, storeVars, drainVars,
                   superVars>>

GapsCorrupt(s) ==
    /\ Running /\ wpc[s] = "gaps"
    /\ Spend("corrupt")
    /\ \E done \in {{}, pending[s]} : Quarantine(s, done)
    /\ Enter(s, "regaps")
    /\ UNCHANGED <<batch, ctl, pending, dropped, chanVars, kernelVars, drainVars,
                   superVars>>

GapsFatal(s) ==
    /\ Running /\ wpc[s] \in {"gaps", "regaps"}
    /\ Spend("fatal")
    /\ AfterFatal(s, {}, pending[s])
    /\ Fail(s)
    /\ UNCHANGED <<queue, kernelVars, drainVars, phase, coverage, smark>>

(***************************************************************************)
(* Shard::commit.                                                          *)
(***************************************************************************)
RowsCommitted(s) ==
    /\ Running /\ wpc[s] = "rows"
    /\ Record(s, BatchStores(batch[s]), BatchGaps(batch[s]))
    /\ batch' = [batch EXCEPT ![s] = <<>>]
    /\ Enter(s, AfterBatch(s))
    /\ UNCHANGED <<ctl, pending, dropped, chanVars, kernelVars, drainVars,
                   superVars, budget>>

RowsRefused(s) ==
    /\ Running /\ wpc[s] = "rows"
    /\ Spend("refuse")
    /\ RecordLost(s)
    /\ Enter(s, AfterBatch(s))
    /\ UNCHANGED <<ctl, dropped, chanVars, kernelVars, storeVars, drainVars,
                   superVars>>

\* The batch is noted as lost before the database is replaced.
RowsCorrupt(s) ==
    /\ Running /\ wpc[s] = "rows"
    /\ Spend("corrupt")
    /\ RecordLost(s)
    /\ \E done \in {{}, BatchClaims(batch[s])} : Quarantine(s, done)
    /\ Enter(s, AfterBatch(s))
    /\ UNCHANGED <<ctl, dropped, chanVars, kernelVars, drainVars, superVars>>

RowsFatal(s) ==
    /\ Running /\ wpc[s] = "rows"
    /\ Spend("fatal")
    /\ AfterFatal(s, BatchStores(batch[s]), BatchGaps(batch[s]))
    /\ Fail(s)
    /\ UNCHANGED <<queue, kernelVars, drainVars, phase, coverage, smark>>

(***************************************************************************)
(* handle_control.                                                         *)
(***************************************************************************)
Handled(s, ok) ==
    /\ Reply(s, ctl[s], ok)
    /\ ctl' = [ctl EXCEPT ![s] = NoMsg]
    /\ Enter(s, "idle")

\* Everything before the barrier has been committed or noted as lost.
BarrierReached(s) ==
    /\ Running /\ wpc[s] = "control" /\ ctl[s].kind = "barrier"
    /\ Handled(s, TRUE)
    /\ UNCHANGED <<batch, pending, dropped, queue, closed, kernelVars, storeVars,
                   drainVars, superVars, budget>>

\* Mutation: the receipts of deleted rows go too.
DeleteReceipts(s, old) ==
    /\ rows' = [rows EXCEPT ![s] = @ \ old]
    /\ lost' = [lost EXCEPT ![s] = @ \ old]
    /\ receipts' = [receipts EXCEPT ![s] = @ \ old]
    /\ UNCHANGED <<retired, quarantined>>

\* delete_events: rows go, receipts stay.
DeleteEvents(s, old) ==
    /\ rows' = [rows EXCEPT ![s] = @ \ old]
    /\ lost' = [lost EXCEPT ![s] = @ \ old]
    /\ retired' = [retired EXCEPT ![s] = @ \cup old]
    /\ UNCHANGED <<receipts, quarantined>>

\* A bounded delete, of any rows; none when it is rolled back.
RetainRows(s) == \E old \in SUBSET (rows[s] \cup lost[s]) : DeleteEvents(s, old)

RetainDone(s) ==
    /\ Running /\ wpc[s] = "control" /\ ctl[s].kind = "retain"
    /\ RetainRows(s)
    /\ Handled(s, TRUE)
    /\ UNCHANGED <<batch, pending, dropped, queue, closed, kernelVars, drainVars,
                   superVars, budget>>

\* The delete, or the checkpoint after it, is refused for want of space.
RetainRefused(s) ==
    /\ Running /\ wpc[s] = "control" /\ ctl[s].kind = "retain"
    /\ Spend("refuse")
    /\ RetainRows(s)
    /\ Handled(s, FALSE)
    /\ UNCHANGED <<batch, pending, dropped, queue, closed, kernelVars, drainVars,
                   superVars>>

RetainCorrupt(s) ==
    /\ Running /\ wpc[s] = "control" /\ ctl[s].kind = "retain"
    /\ Spend("corrupt")
    /\ Quarantine(s, {})
    /\ Handled(s, FALSE)
    /\ UNCHANGED <<batch, pending, dropped, queue, closed, kernelVars, drainVars,
                   superVars>>

RetainFatal(s) ==
    /\ Running /\ wpc[s] = "control" /\ ctl[s].kind = "retain"
    /\ Spend("fatal")
    /\ RetainRows(s) \/ Quarantine(s, {})
    /\ Fail(s)
    /\ UNCHANGED <<queue, kernelVars, drainVars, phase, coverage, smark>>

(***************************************************************************)
(* Exit.                                                                   *)
(***************************************************************************)
\* Mutation: the control messages left in the queue are never answered.
DrainQueueSilently(s) ==
    /\ Running /\ wpc[s] = "draining"
    /\ HeadIs(queue[s], Published)
    /\ Pop(s)
    /\ dropped' = dropped \cup Claims(HeadMsg(queue[s]))
    /\ UNCHANGED <<replies, wpc, batch, ctl, pending, closed, kernelVars, storeVars,
                   drainVars, superVars, budget>>

\* WriterExit: a failed writer empties its queue, whose control messages lose
\* their reply senders.
DrainQueue(s) ==
    /\ Running /\ wpc[s] = "draining"
    /\ HeadIs(queue[s], Published)
    /\ Pop(s)
    /\ LET m == HeadMsg(queue[s])
       IN  /\ dropped' = dropped \cup Claims(m)
           /\ IF m.kind = "event" THEN UNCHANGED replies ELSE Reply(s, m, FALSE)
    /\ UNCHANGED <<wpc, batch, ctl, pending, closed, kernelVars, storeVars,
                   drainVars, superVars, budget>>

\* Closed is returned only once no claimed slot remains.
WriterExit(s) ==
    /\ Running /\ wpc[s] \in {"idle", "draining"}
    /\ closed[s] /\ queue[s] = <<>>
    /\ Enter(s, IF wpc[s] = "idle" THEN "exited" ELSE "failed")
    /\ dropped' = dropped \cup pending[s]
    /\ pending' = [pending EXCEPT ![s] = {}]
    /\ UNCHANGED <<batch, ctl, chanVars, kernelVars, storeVars, drainVars,
                   superVars, budget>>

\* The retention thread asks for a bounded delete, one request at a time.
RetainOutstanding ==
    \E s \in Shards : \/ ctl[s].kind = "retain"
                      \/ \E i \in DOMAIN queue[s] : queue[s][i].msg.kind = "retain"

RequestRetain(s) ==
    /\ phase \in {"running", "stopping"}
    /\ ~RetainOutstanding
    /\ ~closed[s] /\ Room(s)
    /\ Spend("retain")
    /\ queue' = [queue EXCEPT ![s] = Send(@, Retention, Control("retain", Retention))]
    /\ replies' = {r \in replies : r[1] # Retention}
    /\ UNCHANGED <<closed, kernelVars, storeVars, drainVars, writerVars, superVars>>

WriterStep(s) ==
    \/ SkipCancelled(s) \/ PopFirst(s) \/ PopMore(s) \/ CloseBatch(s)
    \/ GapsCommitted(s) \/ RowsCommitted(s)
    \/ BarrierReached(s) \/ RetainDone(s)
    \/ DrainQueue(s) \/ WriterExit(s)

WriterFault(s) ==
    \/ GapsRefused(s) \/ GapsCorrupt(s) \/ GapsFatal(s)
    \/ RowsRefused(s) \/ RowsCorrupt(s) \/ RowsFatal(s)
    \/ RetainRefused(s) \/ RetainCorrupt(s) \/ RetainFatal(s)
    \/ RequestRetain(s)
=============================================================================
