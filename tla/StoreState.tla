----------------------------- MODULE StoreState -----------------------------
(***************************************************************************)
(* What the log thread, the metric thread and the retention coordinator     *)
(* share: the two datagram sockets, their wakers, the maintenance channels, *)
(* the request flag and the stop flags.                                     *)
(*                                                                          *)
(* A scenario (Loads) fixes what producers send, how many queries compute   *)
(* rollups and how often storage misbehaves; a behaviour begins by choosing *)
(* one, so that one run covers several kinds of trouble.                    *)
(***************************************************************************)
EXTENDS Integers, Sequences, FiniteSets, SequencesExt, FiniteSetsExt

CONSTANTS Loads,        \* scenarios: see MCStoreSystem
          SocketSlots,  \* net.unix.max_dgram_qlen
          DeleteRows,   \* RetentionDeleteBatchRows
          Cutoff,       \* records stamped before this are past their age
          LogMaxRows,   \* LogRetentionMaxBytes, in rows; 0 is no limit
          MetricMaxRows, \* MetricRetentionMaxBytes, in rows; 0 is no limit
          WakeCap       \* wakes beyond this many are not told apart

Owners == {"log", "metric"}

VARIABLES load,       \* what is left of the scenario
          sock,       \* sock[o]: datagrams queued, and whether reads are shut
          wakes,      \* wakes[o]: the semaphore eventfd of the socket
          commands,   \* commands[o]: the maintenance channel
          response,   \* response[o]: the coordinator's reply channel
          batchSize,  \* LogMaxBatchSize and MetricMaxBatchSize, reloadable
          rollupRows, \* AdaptiveRollupMaxRows, reloadable
          eventMax,   \* EventRetentionMaxBytes, in rows, reloadable
          requested,  \* retention_requested
          stopping,   \* stops the coordinator
          ingestStopping, \* stops the ingest threads, set after it has ended
          reports     \* storage errors handed to the synthetic reporters

sharedVars == <<load, sock, wakes, commands, response, batchSize, rollupRows,
                eventMax, requested, stopping, ingestStopping, reports>>

NoReply == [kind |-> "none"]
Answer(n) == [kind |-> "ok", rows |-> n]
Refusal == [kind |-> "error"]

\* A datagram is the sequence of the records it carries, each usable (ok) or
\* not; Noise is one that is truncated, carries no token or is not well formed.
Noise == <<>>
Usable(d) == SelectSeq(d, LAMBDA r : r.ok)

\* A producer sends the next datagram of the scenario. It is queued, unless
\* the socket was shut for reading (EPIPE) or its queue is full.
Deliver(o) ==
    /\ load.send[o] /= <<>>
    /\ ~sock[o].shut
    /\ Len(sock[o].queue) < SocketSlots
    /\ sock' = [sock EXCEPT ![o].queue = Append(@, Head(load.send[o]))]
    /\ load' = [load EXCEPT !.send[o] = Tail(@)]

\* Unusable datagrams may keep coming for ever.
DeliverNoise(o) ==
    /\ load.noise[o]
    /\ ~sock[o].shut
    /\ Len(sock[o].queue) < SocketSlots
    /\ sock' = [sock EXCEPT ![o].queue = Append(@, Noise)]
    /\ UNCHANGED load

\* IngestionSocket::receive: the head of the queue, or Empty.
Received(o) == Head(sock[o].queue)
ReceiveEmpty(o) == sock[o].queue = <<>>
Taken(o) == sock' = [sock EXCEPT ![o].queue = Tail(@)]

\* shut_for_reading: what is queued stays readable.
ShutForReading(o) == sock' = [sock EXCEPT ![o].shut = TRUE]

\* wait_readable returns on a datagram, a wake or its timeout; a wake that
\* is there is taken, whatever ended the poll.
\* A timeout that finds nothing to do is a pass that changes nothing: IdlePass
\* in StoreSystem.
Due(o, more) == wakes[o] > 0 \/ sock[o].queue /= <<>> \/ commands[o] /= <<>>
                \/ ingestStopping \/ more
TakeWake(o) == wakes' = [wakes EXCEPT ![o] = IF @ > 0 THEN @ - 1 ELSE 0]
Wake(o) == wakes' = [wakes EXCEPT ![o] = IF @ < WakeCap THEN @ + 1 ELSE @]

\* WakingSender::send: the command first ...
SendCommand(o, c) == commands' = [commands EXCEPT ![o] = Append(@, c)]

\* The owner of a store answers; the requester waits for nothing else.
ReplyTo(o, r) == response' = [response EXCEPT ![o] = r]

\* A fault of the given kind, while the scenario has one left.
Spend(kind) == load[kind] > 0 /\ load' = [load EXCEPT ![kind] = @ - 1]

\* The rows that a bounded delete removes: the oldest, by timestamp and id.
Older(r, s) == r.at < s.at \/ (r.at = s.at /\ r.id < s.id)
Oldest(rows, limit) ==
    {r \in rows : Cardinality({s \in rows : Older(s, r)}) < limit}

\* SQLite gives a new row of an INTEGER PRIMARY KEY the largest id plus one.
NextId(rows) == IF rows = {} THEN 1 ELSE Max({r.id : r \in rows}) + 1

SharedInit ==
    /\ load \in Loads
    /\ sock = [o \in Owners |-> [queue |-> <<>>, shut |-> FALSE]]
    /\ wakes = [o \in Owners |-> 0]
    /\ commands = [o \in Owners |-> <<>>]
    /\ response = [o \in Owners |-> NoReply]
    /\ batchSize = 2
    /\ rollupRows = 1
    /\ eventMax = load.eventMax
    /\ requested = FALSE
    /\ stopping = FALSE
    /\ ingestStopping = FALSE
    /\ reports = <<>>

settings == <<batchSize, rollupRows, eventMax>>

\* ConfigWatch applies a reload; an applied change requests retention.
Reload ==
    /\ Spend("reload")
    /\ \/ /\ batchSize' = 3 - batchSize
          /\ UNCHANGED <<rollupRows, eventMax>>
       \/ /\ rollupRows' = 1 - rollupRows
          /\ UNCHANGED <<batchSize, eventMax>>
       \/ /\ eventMax' = IF eventMax = 0 THEN 1 ELSE 0
          /\ UNCHANGED <<batchSize, rollupRows>>
    /\ requested' = TRUE
    /\ UNCHANGED <<sock, wakes, commands, response, stopping, ingestStopping,
                   reports>>
=============================================================================
