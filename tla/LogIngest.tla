----------------------------- MODULE LogIngest -----------------------------
(***************************************************************************)
(* The log thread (log_ingest::run) and the store it owns (LogStore).       *)
(*                                                                          *)
(* A pass of the loop walks top, receive, push or waiting, maintain.        *)
(* A row is [id, uid, origin, at]: uid is the record a producer sent, id    *)
(* the row's key, which SQLite may use again once the row is deleted.       *)
(***************************************************************************)
EXTENDS StoreState

VARIABLES lpc,        \* where the thread stands
          lbatch,     \* records of the open transaction
          lopen,      \* its size cap, fixed when it opened; 0 when none is open
          lcap,       \* LogMaxBatchSize as the pass read it
          lexpired,   \* its latency cap has passed
          lrest,      \* records of the datagram at hand not yet pushed
          lrows,      \* table logs
          lorigins,   \* table log_origins
          lknown,     \* LogStore.known_origins
          lfate       \* history: uids discarded, quarantined, deleted

logVars == <<lpc, lbatch, lopen, lcap, lexpired, lrest, lrows, lorigins, lknown, lfate>>

Uids(records) == {r.uid : r \in ToSet(records)}
LogUids == {r.uid : r \in lrows}

LogInit ==
    /\ lpc = "top"
    /\ lbatch = <<>>
    /\ lopen = 0
    /\ lcap = 0
    /\ lexpired = FALSE
    /\ lrest = <<>>
    /\ lrows = {}
    /\ lorigins = {}
    /\ lknown = {}
    /\ lfate = [discarded |-> {}, quarantined |-> {}, deleted |-> {}]

\* The rows one transaction inserts for a batch.
LogInsert(b) ==
    LET base == NextId(lrows) - 1
    IN lrows \cup {[id |-> base + i, uid |-> b[i].uid, origin |-> b[i].key,
                    at |-> b[i].at] : i \in 1..Len(b)}

\* The origins of a batch that the cache does not have are catalogued with it.
Pending(b) == {b[i].key : i \in 1..Len(b)} \ lknown

LogStored(b) ==
    /\ lrows' = LogInsert(b)
    /\ lorigins' = lorigins \cup Pending(b)
    /\ lknown' = lknown \cup Pending(b)
    /\ UNCHANGED <<lfate, requested, reports, load>>

\* request_retention: the batch is given up, and space asked for.
LogRefused(b) ==
    /\ Spend("refuse")
    /\ requested' = TRUE
    /\ lfate' = [lfate EXCEPT !.discarded = @ \cup Uids(b)]
    /\ UNCHANGED <<lrows, lorigins, lknown, reports>>

\* recover_corruption, replace_corrupt: the database is moved aside, an empty
\* one opened, its cache loaded from it, and the quarantine reported. uids are
\* the records of the operation that found the corruption.
LogCorrupt(uids) ==
    /\ Spend("corrupt")
    /\ lfate' = [lfate EXCEPT !.quarantined = @ \cup LogUids \cup uids]
    /\ lrows' = {}
    /\ lorigins' = {}
    /\ lknown' = {}
    /\ reports' = Append(reports, "log")
    /\ UNCHANGED requested

\* Any other error ends the thread, and so does a replacement that fails. The
\* transaction may have been made durable before a checkpoint failed.
LogFatal(b) ==
    /\ Spend("fatal")
    /\ lrows' \in {lrows, LogInsert(b)}
    /\ lorigins' = IF lrows' = lrows THEN lorigins ELSE lorigins \cup Pending(b)
    /\ UNCHANGED <<lknown, lfate, requested, reports>>

\* Mutation: the cache learns the origins of a batch that was refused.
LogCommitEager(b, next) ==
    /\ \/ LogStored(b) /\ lpc' = next
       \/ /\ Spend("refuse")
          /\ requested' = TRUE
          /\ lfate' = [lfate EXCEPT !.discarded = @ \cup Uids(b)]
          /\ lknown' = lknown \cup Pending(b)
          /\ UNCHANGED <<lrows, lorigins, reports>>
          /\ lpc' = next
       \/ LogCorrupt(Uids(b)) /\ lpc' = next
       \/ LogFatal(b) /\ lpc' = "failed"
    /\ lbatch' = <<>>
    /\ lopen' = 0
    /\ lexpired' = FALSE

\* commit_batch, and the clearing of the batch that follows it everywhere.
LogCommit(b, next) ==
    /\ \/ LogStored(b) /\ lpc' = next
       \/ LogRefused(b) /\ lpc' = next
       \/ LogCorrupt(Uids(b)) /\ lpc' = next
       \/ LogFatal(b) /\ lpc' = "failed"
    /\ lbatch' = <<>>
    /\ lopen' = 0
    /\ lexpired' = FALSE

storeUnchanged == <<lrows, lorigins, lknown, lfate, requested, reports, load>>

\* Time passes: the latency cap of the open transaction is reached.
LogTick ==
    /\ lopen > 0
    /\ ~lexpired
    /\ lexpired' = TRUE
    /\ UNCHANGED <<sharedVars, lpc, lbatch, lopen, lcap, lrest, lrows, lorigins,
                   lknown, lfate>>

\* Mutation: the head of the loop leaves the latency cap to the push.
LogTopHasty ==
    /\ lpc = "top"
    /\ ~ingestStopping
    /\ lcap' = batchSize
    /\ lpc' = "receive"
    /\ UNCHANGED <<sharedVars, lbatch, lopen, lexpired, lrest, lrows, lorigins,
                   lknown, lfate>>

\* The head of the loop: the latency cap holds whatever arrives.
LogTop ==
    /\ lpc = "top"
    /\ ~ingestStopping
    /\ lcap' = batchSize
    /\ IF lopen > 0 /\ lexpired
       THEN LogCommit(lbatch, "receive")
       ELSE /\ lpc' = "receive"
            /\ UNCHANGED <<lbatch, lopen, lexpired, storeUnchanged>>
    /\ UNCHANGED <<sock, wakes, commands, response, settings,
                   stopping, ingestStopping, lrest>>

\* receive and the three arms: a datagram's records are pushed, an empty
\* queue commits what is open, or else the thread waits.
LogReceive ==
    /\ lpc = "receive"
    /\ IF ReceiveEmpty("log")
       THEN /\ IF lbatch = <<>>
               THEN /\ lpc' = "waiting"
                    /\ UNCHANGED <<lbatch, lopen, lexpired, storeUnchanged>>
               ELSE LogCommit(lbatch, "maintain")
            /\ UNCHANGED <<sock, lrest>>
       ELSE /\ Taken("log")
            /\ lrest' = Usable(Received("log"))
            /\ lpc' = IF Usable(Received("log")) = <<>> THEN "maintain" ELSE "push"
            /\ UNCHANGED <<lbatch, lopen, lexpired, storeUnchanged>>
    /\ UNCHANGED <<wakes, commands, response, settings, stopping,
                   ingestStopping, lcap>>

\* wait_readable, ended by a datagram, a wake or the second's timeout.
LogWait ==
    /\ lpc = "waiting"
    /\ Due("log", lcap /= batchSize)
    /\ TakeWake("log")
    /\ lpc' = "maintain"
    /\ UNCHANGED <<load, sock, commands, response, settings,
                   requested, stopping, ingestStopping, reports, lbatch, lopen,
                   lcap, lexpired, lrest, lrows, lorigins, lknown, lfate>>

\* One record joins the batch, which takes the size cap in force as it opens;
\* due says whether the batch is committed with it.
LogPushed(due(_), next) ==
    LET b == Append(lbatch, Head(lrest))
        cap == IF lopen = 0 THEN lcap ELSE lopen
        after == IF Len(lrest) = 1 THEN next ELSE lpc
    IN /\ lrest' = Tail(lrest)
       /\ IF due(Len(b) >= cap)
          THEN LogCommit(b, after)
          ELSE /\ lbatch' = b
               /\ lopen' = cap
               /\ lpc' = after
               /\ UNCHANGED <<lexpired, storeUnchanged>>
       /\ UNCHANGED <<sock, wakes, commands, response, settings,
                      stopping, ingestStopping, lcap>>

LogPush ==
    /\ lpc = "push"
    /\ LogPushed(LAMBDA full : full \/ (lopen > 0 /\ lexpired), "maintain")

\* LogStore::retain_oldest: what a command deletes.
LogVictims(c) ==
    IF c.kind = "delete"
    THEN Oldest(IF c.aged THEN {r \in lrows : r.at < Cutoff} ELSE lrows, DeleteRows)
    ELSE {}

LogRemove(c) ==
    /\ lrows' = lrows \ LogVictims(c)
    /\ lfate' = [lfate EXCEPT !.deleted = @ \cup {r.uid : r \in LogVictims(c)}]

\* process_maintenance: one command, or none, at each pass. The checkpoint
\* that ends a delete may fail although the delete is durable.
LogMaintain ==
    /\ lpc = "maintain"
    /\ IF commands["log"] = <<>>
       THEN lpc' = "top" /\ UNCHANGED <<commands, response, storeUnchanged>>
       ELSE LET c == Head(commands["log"])
            IN /\ commands' = [commands EXCEPT !["log"] = Tail(@)]
               /\ \/ /\ LogRemove(c)
                     /\ ReplyTo("log", Answer(Cardinality(LogVictims(c))))
                     /\ lpc' = "top"
                     /\ UNCHANGED <<lorigins, lknown, requested, reports, load>>
                  \/ /\ Spend("refuse")
                     /\ requested' = TRUE
                     /\ LogRemove(c) \/ UNCHANGED <<lrows, lfate>>
                     /\ ReplyTo("log", Refusal)
                     /\ lpc' = "top"
                     /\ UNCHANGED <<lorigins, lknown, reports>>
                  \/ /\ LogCorrupt({})
                     /\ ReplyTo("log", Refusal)
                     /\ lpc' = "top"
                  \/ /\ Spend("fatal")
                     /\ LogRemove(c) \/ UNCHANGED <<lrows, lfate>>
                     /\ ReplyTo("log", Refusal)
                     /\ lpc' = "failed"
                     /\ UNCHANGED <<lorigins, lknown, requested, reports>>
    /\ UNCHANGED <<sock, wakes, settings, stopping, ingestStopping,
                   lbatch, lopen, lcap, lexpired, lrest>>

\* Mutation: the socket stays open for senders while its queue is drained.
LogShutLate ==
    /\ lpc = "top"
    /\ ingestStopping
    /\ lpc' = "drain"
    /\ UNCHANGED <<sharedVars, lbatch, lopen, lcap, lexpired, lrest, lrows, lorigins,
                   lknown, lfate>>

\* The loop is over: shut the socket for reading, then drain its queue.
LogShut ==
    /\ lpc = "top"
    /\ ingestStopping
    /\ ShutForReading("log")
    /\ lpc' = "drain"
    /\ UNCHANGED <<load, wakes, commands, response, settings,
                   requested, stopping, ingestStopping, reports, lbatch, lopen,
                   lcap, lexpired, lrest, lrows, lorigins, lknown, lfate>>

\* Mutation: the drain forgets the batch that is still open.
LogDrainForgetful ==
    /\ lpc = "drain"
    /\ lcap' = batchSize
    /\ IF ReceiveEmpty("log")
       THEN lpc' = "ended" /\ lbatch' = <<>> /\ UNCHANGED <<sock, lrest>>
       ELSE /\ Taken("log")
            /\ lrest' = Usable(Received("log"))
            /\ lpc' = IF Usable(Received("log")) = <<>> THEN "drain" ELSE "drainPush"
            /\ UNCHANGED lbatch
    /\ UNCHANGED <<lopen, lexpired, storeUnchanged, wakes, commands, response,
                   settings, stopping, ingestStopping>>

\* The drain takes what is queued and ends with a commit of what is left.
LogDrain ==
    /\ lpc = "drain"
    /\ lcap' = batchSize
    /\ IF ReceiveEmpty("log")
       THEN /\ IF lbatch = <<>>
               THEN /\ lpc' = "ended"
                    /\ UNCHANGED <<lbatch, lopen, lexpired, storeUnchanged>>
               ELSE LogCommit(lbatch, "ended")
            /\ UNCHANGED <<sock, lrest>>
       ELSE /\ Taken("log")
            /\ lrest' = Usable(Received("log"))
            /\ lpc' = IF Usable(Received("log")) = <<>> THEN "drain" ELSE "drainPush"
            /\ UNCHANGED <<lbatch, lopen, lexpired, storeUnchanged>>
    /\ UNCHANGED <<wakes, commands, response, settings, stopping,
                   ingestStopping>>

\* Without the latency cap, the open transaction keeping its size cap.
LogDrainPush ==
    /\ lpc = "drainPush"
    /\ LogPushed(LAMBDA full : full, "drain")

LogGone == lpc \in {"ended", "failed"}

LogStep == LogTop \/ LogReceive \/ LogWait \/ LogPush \/ LogMaintain
           \/ LogShut \/ LogDrain \/ LogDrainPush
=============================================================================
