----------------------------- MODULE Supervisor -----------------------------
(***************************************************************************)
(* The thread that starts the process, waits for recovery, supervises the  *)
(* workers and stops them in order (eventd/src/pipeline.rs, run and        *)
(* supervise), and the end of the process by a crash.                      *)
(*                                                                         *)
(*   phase     where the thread is; "down" when there is no process        *)
(*   stopping  the stop flag that the workers read                         *)
(*   coverage  the keys covered by the receipts read at startup            *)
(*   smark     flush barriers sent, then acknowledged                      *)
(*                                                                         *)
(* The supervisor numbers the shards; ShardSeq is that order.              *)
(***************************************************************************)
EXTENDS DrainThread, ShardWriter

CONSTANT ShardSeq   \* the shards by index

ASSUME ShardSeqAssumption ==
    /\ ShardSeq \in Seq(Shards)
    /\ ShardSeq # <<>>
    /\ \A s \in Shards : \E i \in DOMAIN ShardSeq : ShardSeq[i] = s

AllReceipts == UNION {receipts[s] : s \in Shards}

DrainFinished(c)  == dpc[c] \in {"done", "failed"}
WriterFinished(s) == wpc[s] \in {"exited", "failed"}

\* Shard::open_recovering quarantines the databases it finds corrupt.
OpenShards(bad) ==
    /\ rows' = [s \in Shards |-> IF s \in bad THEN {} ELSE rows[s]]
    /\ lost' = [s \in Shards |-> IF s \in bad THEN {} ELSE lost[s]]
    /\ receipts' = [s \in Shards |-> IF s \in bad THEN {} ELSE receipts[s]]
    /\ retired' = [s \in Shards |-> IF s \in bad THEN {} ELSE retired[s]]
    /\ quarantined' = quarantined \cup UNION {receipts[s] : s \in bad}
    /\ coverage' = UNION {receipts[s] : s \in Shards \ bad}

\* run: open the shards, load coverage, spawn the threads.
Start ==
    /\ phase = "down"
    /\ \E bad \in SUBSET Shards :
         /\ OpenShards(bad)
         /\ IF bad = {} THEN Spend("start")
            ELSE /\ {"start", "corrupt"} \subseteq Faults
                 /\ budget["start"] > 0 /\ budget["corrupt"] > 0
                 /\ budget' = [budget EXCEPT !["start"] = @ - 1, !["corrupt"] = @ - 1]
    /\ phase' = "starting"
    /\ dpc' = [c \in Cpus |-> "attached"]
    /\ wpc' = [s \in Shards |-> "idle"]
    /\ closed' = [s \in Shards |-> FALSE]
    /\ UNCHANGED <<kernelVars, queue, replies, pos, next, last, cur, router,
                   recovered, final, boundary, base, mark, note, batch, ctl,
                   pending, dropped, stopping, smark>>

\* The process is gone, and with it everything that was not in a database.
Exit ==
    /\ phase' = "down" /\ stopping' = FALSE /\ coverage' = {} /\ smark' = 0
    /\ queue' = [s \in Shards |-> <<>>]
    /\ closed' = [s \in Shards |-> TRUE]
    /\ replies' = {}
    /\ dpc' = [c \in Cpus |-> "off"]
    /\ pos' = [c \in Cpus |-> 1]
    /\ next' = [c \in Cpus |-> 1]
    /\ last' = [c \in Cpus |-> 0]
    /\ cur' = [c \in Cpus |-> NoEvent]
    /\ router' = [c \in Cpus |-> NewRouter]
    /\ recovered' = [c \in Cpus |-> FALSE]
    /\ final' = [c \in Cpus |-> 0]
    /\ boundary' = [c \in Cpus |-> 1]
    /\ base' = [c \in Cpus |-> FALSE]
    /\ mark' = [c \in Cpus |-> 0]
    /\ note' = [c \in Cpus |-> "none"]
    /\ wpc' = [s \in Shards |-> "off"]
    /\ batch' = [s \in Shards |-> <<>>]
    /\ ctl' = [s \in Shards |-> NoMsg]
    /\ pending' = [s \in Shards |-> {}]
    /\ dropped' = {}
    /\ stale' = [c \in Cpus |-> FALSE]
    /\ frozen' = [c \in Cpus |-> {}]
    /\ UNCHANGED <<head, ring, storeVars>>

\* Every drain has reported its recovery committed: the service is ready.
Ready ==
    /\ phase = "starting"
    /\ \A c \in Cpus : note[c] = "recovered"
    /\ phase' = "running"
    /\ UNCHANGED <<stopping, coverage, smark, kernelVars, storeVars, chanVars,
                   drainVars, writerVars, budget>>

\* A drain reported failure, or every sender of the startup channel is gone
\* before each drain reported.
StartupFails ==
    /\ phase = "starting"
    /\ \/ \E c \in Cpus : note[c] = "failed"
       \/ /\ \A c \in Cpus : DrainFinished(c)
          /\ \E c \in Cpus : note[c] = "none"
    /\ Exit
    /\ UNCHANGED budget

BeginStop ==
    /\ phase = "running"
    /\ phase' = "stopping"
    /\ stopping' = TRUE
    /\ UNCHANGED <<coverage, smark, kernelVars, storeVars, chanVars, drainVars,
                   writerVars, budget>>

\* A stop signal.
SignalStop == BeginStop

\* A worker has returned.
WorkerReturned ==
    /\ \/ \E c \in Cpus : DrainFinished(c)
       \/ \E s \in Shards : WriterFinished(s)
    /\ BeginStop

\* The retention thread is joined, then the drains.
JoinDrains ==
    /\ phase = "stopping"
    /\ ~RetainOutstanding
    /\ \A c \in Cpus : DrainFinished(c)
    /\ phase' = "flushing"
    /\ UNCHANGED <<stopping, coverage, smark, kernelVars, storeVars, chanVars,
                   drainVars, writerVars, budget>>

\* flush_event_queues: a barrier to every shard, then their replies.  An error
\* abandons the rest.
FlushSend ==
    LET s == ShardSeq[smark + 1]
        all == smark + 1 = Len(ShardSeq)
    IN  /\ phase = "flushing"
        /\ \/ /\ closed[s]
              /\ phase' = "closing" /\ smark' = 0
              /\ UNCHANGED queue
           \/ /\ ~closed[s] /\ Room(s)
              /\ queue' = [queue EXCEPT ![s] =
                              Send(@, Supervisor, Control("barrier", Supervisor))]
              /\ smark' = IF all THEN 0 ELSE smark + 1
              /\ phase' = IF all THEN "awaiting" ELSE "flushing"
        /\ UNCHANGED <<stopping, coverage, closed, replies, kernelVars, storeVars,
                       drainVars, writerVars, budget>>

FlushAck ==
    LET s == ShardSeq[smark + 1]
        all == smark + 1 = Len(ShardSeq)
    IN  /\ phase = "awaiting"
        /\ \E ok \in BOOLEAN :
             /\ <<Supervisor, s, ok>> \in replies
             /\ replies' = replies \ {<<Supervisor, s, ok>>}
             /\ IF ok /\ ~all
                THEN smark' = smark + 1 /\ UNCHANGED phase
                ELSE smark' = 0 /\ phase' = "closing"
        /\ UNCHANGED <<stopping, coverage, queue, closed, kernelVars, storeVars,
                       drainVars, writerVars, budget>>

CloseQueues ==
    /\ phase = "closing"
    /\ closed' = [s \in Shards |-> TRUE]
    /\ phase' = "joining"
    /\ UNCHANGED <<stopping, coverage, smark, queue, replies, kernelVars, storeVars,
                   drainVars, writerVars, budget>>

JoinWriters ==
    /\ phase = "joining"
    /\ \A s \in Shards : WriterFinished(s)
    /\ Exit
    /\ UNCHANGED budget

Crash ==
    /\ phase # "down"
    /\ Spend("crash")
    /\ Exit

SuperStep ==
    \/ Ready \/ StartupFails \/ WorkerReturned \/ JoinDrains
    \/ FlushSend \/ FlushAck \/ CloseQueues \/ JoinWriters
=============================================================================
