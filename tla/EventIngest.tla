----------------------------- MODULE EventIngest -----------------------------
(***************************************************************************)
(* The event path of eventd as one system: the kernel rings, a drain       *)
(* thread per CPU, a handoff queue and a writer per shard, and the         *)
(* supervisor that starts, stops and restarts them, with the faults that   *)
(* the code handles.                                                       *)
(***************************************************************************)
EXTENDS Supervisor

Init ==
    /\ head = [c \in Cpus |-> 0]
    /\ ring = [c \in Cpus |-> {}]
    /\ stale = [c \in Cpus |-> FALSE]
    /\ frozen = [c \in Cpus |-> {}]
    /\ rows = [s \in Shards |-> {}]
    /\ lost = [s \in Shards |-> {}]
    /\ receipts = [s \in Shards |-> {}]
    /\ retired = [s \in Shards |-> {}]
    /\ quarantined = {}
    /\ dropped = {}
    /\ queue = [s \in Shards |-> <<>>]
    /\ closed = [s \in Shards |-> TRUE]
    /\ replies = {}
    /\ dpc = [c \in Cpus |-> "off"]
    /\ pos = [c \in Cpus |-> 1]
    /\ next = [c \in Cpus |-> 1]
    /\ last = [c \in Cpus |-> 0]
    /\ cur = [c \in Cpus |-> NoEvent]
    /\ router = [c \in Cpus |-> NewRouter]
    /\ recovered = [c \in Cpus |-> FALSE]
    /\ final = [c \in Cpus |-> 0]
    /\ boundary = [c \in Cpus |-> 1]
    /\ base = [c \in Cpus |-> FALSE]
    /\ mark = [c \in Cpus |-> 0]
    /\ note = [c \in Cpus |-> "none"]
    /\ wpc = [s \in Shards |-> "off"]
    /\ batch = [s \in Shards |-> <<>>]
    /\ ctl = [s \in Shards |-> NoMsg]
    /\ pending = [s \in Shards |-> {}]
    /\ phase = "down"
    /\ stopping = FALSE
    /\ coverage = {}
    /\ smark = 0
    /\ budget \in FaultBudgets

\* Nothing is left to happen to a process that has ended.
Ended == phase = "down" /\ UNCHANGED vars

Next ==
    \/ Kernel
    \/ \E c \in Cpus : DrainStep(c) \/ DrainFault(c)
    \/ \E s \in Shards : WriterStep(s) \/ WriterFault(s)
    \/ SuperStep \/ SignalStop \/ Start \/ Crash
    \/ Ended

Spec == Init /\ [][Next]_vars

\* Threads that can run do run.  Nothing is assumed of the kernel, of
\* signals, of faults, or of whoever starts the process.
Fairness ==
    /\ \A c \in Cpus : WF_vars(DrainStep(c))
    /\ \A s \in Shards : WF_vars(WriterStep(s))
    /\ WF_vars(SuperStep)

FairSpec == Spec /\ Fairness

-----------------------------------------------------------------------------
DrainLabels == {"off", "attached", "top", "scan", "reading", "observed", "held",
                "copied", "cycle", "swapping", "marking", "acking", "done", "failed"}
WriterLabels == {"off", "idle", "batch", "gaps", "regaps", "rows", "control",
                 "draining", "exited", "failed"}
Phases == {"down", "starting", "running", "stopping", "flushing", "awaiting",
           "closing", "joining"}

KernelTypes ==
    /\ head \in [Cpus -> Nat]
    /\ ring \in [Cpus -> SUBSET (Nat \ {0})]
    /\ stale \in [Cpus -> BOOLEAN]
    /\ frozen \in [Cpus -> SUBSET (Nat \ {0})]

StoreTypes ==
    /\ rows \in [Shards -> SUBSET Key]
    /\ lost \in [Shards -> SUBSET Key]
    /\ receipts \in [Shards -> SUBSET Key]
    /\ retired \in [Shards -> SUBSET Key]
    /\ quarantined \in SUBSET Key

ChanTypes ==
    /\ queue \in [Shards -> Seq(Entry(Owners, Message))]
    /\ closed \in [Shards -> BOOLEAN]
    /\ replies \in SUBSET (Owners \X Shards \X BOOLEAN)

DrainTypes ==
    /\ dpc \in [Cpus -> DrainLabels]
    /\ pos \in [Cpus -> Nat \ {0}]
    /\ next \in [Cpus -> Nat \ {0}]
    /\ last \in [Cpus -> Nat]
    /\ cur \in [Cpus -> Verdict]
    /\ router \in [Cpus -> [index : Nat \ {0}, sent : Nat]]
    /\ recovered \in [Cpus -> BOOLEAN]
    /\ final \in [Cpus -> Nat]
    /\ boundary \in [Cpus -> Nat \ {0}]
    /\ base \in [Cpus -> BOOLEAN]
    /\ mark \in [Cpus -> Nat]
    /\ note \in [Cpus -> {"none", "recovered", "failed"}]

WriterTypes ==
    /\ wpc \in [Shards -> WriterLabels]
    /\ batch \in [Shards -> Seq(Message)]
    /\ ctl \in [Shards -> Message]
    /\ pending \in [Shards -> SUBSET Key]
    /\ dropped \in SUBSET Key

SuperTypes ==
    /\ phase \in Phases
    /\ stopping \in BOOLEAN
    /\ coverage \in SUBSET Key
    /\ smark \in Nat

\* Every variable has its type.
TypeOK == /\ KernelTypes /\ StoreTypes /\ ChanTypes
          /\ DrainTypes /\ WriterTypes /\ SuperTypes
          /\ budget \in [Faults -> Nat]

AllPending == UNION {pending[s] : s \in Shards}
AllRows    == UNION {rows[s] : s \in Shards}
AllLost    == UNION {lost[s] : s \in Shards}

\* The keys on their way to a record in s, and those with a record too.
Claimed(s) == QueueClaims(queue[s]) \cup BatchClaims(batch[s]) \cup pending[s]
Held(s) == receipts[s] \cup Claimed(s)

\* The sequences that the reconciler of c has moved past.
Passed(c) == {<<c, q>> : q \in 1..(next[c] - 1)}

\* NO SILENT LOSS.  A sequence that a drain has moved past is recorded, was
\* when the process started, is on its way to a writer, or is remembered by
\* one as a loss still to be recorded.  The exceptions are a record that was
\* in a database since quarantined, what a failed writer discarded (the next
\* start finds it uncovered), and events of reserved types.
Accounted ==
    \A c \in Cpus : \A k \in Passed(c) :
        \/ \E s \in Shards : k \in Held(s)
        \/ k \in coverage \cup quarantined \cup dropped \cup ReservedTypes

QueueApart(q) ==
    \A i, j \in DOMAIN q : i # j => Claims(q[i].msg) \cap Claims(q[j].msg) = {}

BatchApart(b) ==
    \A i, j \in DOMAIN b : i # j => Claims(b[i]) \cap Claims(b[j]) = {}

\* No key is held twice in s.
Single(s) ==
    /\ receipts[s] \cap Claimed(s) = {}
    /\ QueueClaims(queue[s]) \cap BatchClaims(batch[s]) = {}
    /\ (QueueClaims(queue[s]) \cup BatchClaims(batch[s])) \cap pending[s] = {}
    /\ QueueApart(queue[s]) /\ BatchApart(batch[s])

\* EXACTLY ONCE.  No sequence has two claims to a record: what is recorded in
\* one shard is not recorded in another, nor still queued, batched or pending
\* anywhere.
ExactlyOnce ==
    /\ \A s, t \in Shards : s # t => Held(s) \cap Held(t) = {}
    /\ \A s \in Shards : Single(s)

\* HONEST RECORD.  The receipts of a database say exactly what its rows said
\* when they were written: every receipt is a stored event, a reported loss
\* or a row that retention deleted, and no event is both stored and lost.
HonestRecord ==
    \A s \in Shards :
        /\ receipts[s] = rows[s] \cup lost[s] \cup retired[s]
        /\ rows[s] \cap lost[s] = {}
        /\ retired[s] \cap (rows[s] \cup lost[s]) = {}

\* NO TORN EVENT.  An event overwritten while it was being copied never
\* reaches a writer.
NoTornEvent ==
    \A s \in Shards :
        /\ \A i \in DOMAIN queue[s] : ~queue[s][i].msg.torn
        /\ \A i \in DOMAIN batch[s] : ~batch[s][i].torn

\* NO FALSE REGRESSION.  The stop that a sequence regression causes is never
\* brought on by eventd itself: whatever ring a drain reads, after whatever
\* lapping and replacement, the event it turns to is not behind its reconciler.
\* Only a header overwritten before it was decoded can still show a regression.
NoRegression ==
    \A c \in Cpus : dpc[c] = "reading" /\ ~Lapped(c, pos[c]) => ~Regression(c, pos[c])

\* LOSS FIRST.  An event row is committed to a shard only when no loss of that
\* shard waits to be recorded.
LossFirst ==
    [][\A s \in Shards : ~(rows'[s] \subseteq rows[s]) => pending[s] = {}]_vars

\* READY MEANS RECOVERED.  Once a drain has reported recovery, everything that
\* had been in its ring at startup is on record, not merely queued.
ReadyMeansRecovered ==
    \A c \in Cpus : recovered[c] /\ ~stopping =>
        {<<c, q>> : q \in 1..(boundary[c] - 1)} \subseteq
            AllReceipts \cup AllPending \cup quarantined \cup dropped
                \cup ReservedTypes

\* RECEIPTS ARE FOR GOOD.  Short of a quarantine no step, restart or deletion
\* takes a receipt back.
ReceiptsKept ==
    [][\A s \in Shards : receipts[s] \subseteq receipts'[s] \cup quarantined']_vars

\* RESERVED TYPES ARE RECEIPTED.  An event of a reserved type is not stored, but
\* its sequence is receipted like any other, so that no restart reports it lost.
ReservedReceipted ==
    \A c \in Cpus : recovered[c] /\ ~stopping =>
        ReservedTypes \cap {<<c, q>> : q \in 1..(boundary[c] - 1)} \subseteq
            AllReceipts \cup AllPending \cup quarantined \cup dropped

\* The shards together, read as one ledger.
Ledger == INSTANCE EventLedger WITH
    assigned <- head, stored <- AllRows, reported <- AllLost,
    receipted <- AllReceipts, withdrawn <- quarantined

\* IMPLEMENTS THE LEDGER.  All shards together, across threads, restarts,
\* retention and quarantine, are one ledger in which every sequence is entered
\* at most once and no receipt is taken back short of a quarantine.
LedgerSpec == Ledger!Spec

-----------------------------------------------------------------------------
\* EVERY SURVIVOR IS RECORDED.  While the process runs, an event that is in the
\* current ring of its CPU is eventually recorded, or noted by its writer as a
\* loss to record, although the drain may be waiting for room, being lapped or
\* following a replaced ring.  The exception is a ring that had been replaced
\* before its generation was read: the drain never learns of the replacement.
SurvivorRecorded ==
    \A c \in Cpus : \A q \in 1..MaxSeq[c] :
        (phase = "running" /\ q \in ring[c]) ~>
            \/ <<c, q>> \in AllReceipts \cup AllPending \cup quarantined \cup ReservedTypes
            \/ stopping \/ phase # "running" \/ base[c]

\* SHUTDOWN COMPLETES.  Whatever drains, writers, retention and the supervisor
\* were waiting for when the stop began, a writer lost with messages in its
\* queue included, every join and every flush returns.
StopCompletes == (phase = "stopping") ~> (phase = "down")

\* STARTUP IS RESOLVED.  The supervisor's wait for the recovery reports ends: in
\* readiness, or in a failed start.
StartupResolves == (phase = "starting") ~> (phase # "starting")

(***************************************************************************)
(* THE INDUCTIVE INVARIANT behind the safety properties.                   *)
(*                                                                         *)
(* A sequence reaches a record along one path: its drain observes it,      *)
(* claims a slot, publishes and moves past it, and the writer of the slot's *)
(* shard carries the message from queue to batch to database, or notes it  *)
(* as a loss.  The conjuncts say, stage by stage, what holds on that path. *)
(***************************************************************************)

\* A ring holds sequences that were assigned.
RingsBounded ==
    \A c \in Cpus : ring[c] \subseteq 1..head[c] /\ frozen[c] \subseteq 1..head[c]

\* Positions in the lists of shards.
InRange ==
    /\ \A c \in Cpus : /\ router[c].index <= Len(ShardOrder[c])
                       /\ mark[c] < Len(ShardOrder[c])
    /\ smark < Len(ShardSeq)

\* Nothing is passed that was not assigned.
PassedAssigned == \A c \in Cpus : next[c] <= head[c] + 1

Handling == {"observed", "held", "copied"}

\* While a drain handles an event that is still in the ring, the reconciler's
\* verdict is about that event and stands, and the copy is whole.
Stands(c) ==
    LET q == pos[c]
    IN  /\ cur[c].seq = q
        /\ ~Regression(c, q)
        /\ cur[c].gaps = Observe(c, q).gaps
        /\ cur[c].store = Observe(c, q).store
        /\ dpc[c] = "copied" => ~cur[c].torn

\* An event that has left the ring does not come back.
Upheld(c) ==
    /\ dpc[c] \in Handling \cup {"reading"} => pos[c] \in 1..head[c]
    /\ dpc[c] \in Handling => Lapped(c, pos[c]) \/ Stands(c)

VerdictStands == \A c \in Cpus : Upheld(c)

\* A drain holds one slot, of the shard its router names, exactly while it is
\* between reserving and settling.
HoldsOne(q, p) ==
    \E i \in DOMAIN q : HeldAt(q, p, i) /\ \A j \in DOMAIN q : HeldAt(q, p, j) => j = i

SlotRight(c, s) ==
    IF dpc[c] \in {"held", "copied"} /\ s = CurrentShard(c)
    THEN HoldsOne(queue[s], c)
    ELSE ~Holds(queue[s], c)

SlotsHeld == \A c \in Cpus : \A s \in Shards : SlotRight(c, s)

\* Only published events carry claims, none of them twice.
Proper(m) == /\ m.stores \cap m.gaps = {}
             /\ ~m.torn
             /\ m.kind # "event" => Claims(m) = {}

QueueProper(q) ==
    \A i \in DOMAIN q : /\ Proper(q[i].msg)
                        /\ q[i].state # Published => Claims(q[i].msg) = {}

BatchProper(b) == \A i \in DOMAIN b : Proper(b[i])

MessagesProper == \A s \in Shards : QueueProper(queue[s]) /\ BatchProper(batch[s])

\* What a writer holds, by where it is in its loop.
WriterHolds ==
    \A s \in Shards :
        /\ wpc[s] \notin {"batch", "gaps", "regaps", "rows"} => batch[s] = <<>>
        /\ wpc[s] = "rows" => pending[s] = {}

\* Nothing survives the process but its databases.
DownIsEmpty ==
    phase = "down" =>
        /\ \A s \in Shards : queue[s] = <<>> /\ batch[s] = <<>> /\ pending[s] = {}
        /\ \A c \in Cpus : dpc[c] = "off" /\ next[c] = 1

\* Every claim is a sequence passed since the start and not covered at it, and
\* every receipt was covered or has been passed since.
Behind(k) == k[2] < next[k[1]]

ClaimsAreNew ==
    \A s \in Shards : \A k \in Claimed(s) : Behind(k) /\ k \notin coverage

ReceiptsCovered ==
    phase # "down" => \A s \in Shards : \A k \in receipts[s] : k \in coverage \/ Behind(k)

TypeInv == TypeOK /\ RingsBounded /\ InRange

Inductive ==
    /\ TypeInv
    /\ PassedAssigned /\ VerdictStands
    /\ SlotsHeld /\ MessagesProper /\ WriterHolds
    /\ DownIsEmpty /\ ClaimsAreNew /\ ReceiptsCovered
    /\ Accounted /\ ExactlyOnce /\ HonestRecord

-----------------------------------------------------------------------------
(***************************************************************************)
(* Behind NoRegression: a drain reads forward.                             *)
(***************************************************************************)
Marking == {"marking", "acking"}

\* The reconciler stands just after the last event handled, and the read position
\* is never behind it.
ReadsForward(c) ==
    /\ next[c] = last[c] + 1 /\ next[c] <= pos[c]
    /\ dpc[c] = "attached" => next[c] = 1

\* Some survivor is as new as the last event handled: in the ring that is mapped,
\* and in the one that replaces it.
NewestSurvives(c) ==
    /\ last[c] # 0 => \E x \in Mapped(c) : last[c] <= x
    /\ stale[c] => \A q \in frozen[c] : \E x \in ring[c] : q <= x

(***************************************************************************)
(* Behind ReadyMeansRecovered: a drain commits its recovery markers when   *)
(* it has read everything up to the boundary, and a shard acknowledges a   *)
(* marker when nothing queued before it is left.                           *)
(***************************************************************************)
\* Short of a stop, the reconciler has caught up with the read position, or there
\* is something left to read; the markers go out behind the boundary.
CaughtUp(c) ==
    /\ final[c] # 0 => stopping
    /\ dpc[c] \in Marking => boundary[c] <= pos[c]
    /\ final[c] = 0 /\ dpc[c] \in {"cycle", "swapping"} \cup Marking => pos[c] = next[c]
    /\ final[c] = 0 /\ dpc[c] \in {"top", "scan", "reading"} \cup Handling =>
          pos[c] = next[c] \/ \E x \in Mapped(c) : pos[c] <= x

InOrder(c) == ReadsForward(c) /\ NewestSurvives(c) /\ CaughtUp(c)

Reading == \A c \in Cpus : InOrder(c)

\* A marker of c, and the shards of c.
IsMarker(c, m) == m.kind = "barrier" /\ m.from = c
ShardOf(c, s) == \E i \in DOMAIN ShardOrder[c] : ShardOrder[c][i] = s

\* No key of c is in K.
NoneOf(c, K) == \A k \in K : k[1] # c
InHand(s) == QueueClaims(queue[s]) \cup BatchClaims(batch[s])

\* In the queue q: no key of c follows a marker of c, there is none of them, and
\* a drain sends no control message but markers.
MarkersBehind(c, q) ==
    \A i, j \in DOMAIN q :
        i < j /\ IsMarker(c, q[i].msg) => NoneOf(c, Claims(q[j].msg))
Unmarked(c, q) == \A i \in DOMAIN q : ~IsMarker(c, q[i].msg)
SendersRight(q) ==
    \A i \in DOMAIN q : q[i].msg.kind \notin {"event", "barrier"} => q[i].msg.from \notin Cpus

\* The keys of a CPU go to its own shards.
Addresses(s) ==
    /\ \A k \in InHand(s) : ShardOf(k[1], s)
    /\ ctl[s].kind # "barrier" => ctl[s].from \notin Cpus
    /\ SendersRight(queue[s])

\* Until c has recovered, none of its keys follows one of its markers, and the
\* acknowledgement of a marker says that none is in hand.
MarkersLast(c, s) ==
    /\ MarkersBehind(c, queue[s])
    /\ IsMarker(c, ctl[s]) => NoneOf(c, QueueClaims(queue[s]))
    /\ <<c, s, TRUE>> \in replies => NoneOf(c, InHand(s))

\* No marker of c is out, and none is answered.
NoMarker(c, s) ==
    /\ Unmarked(c, queue[s]) /\ ~IsMarker(c, ctl[s])
    /\ \A ok \in BOOLEAN : <<c, s, ok>> \notin replies

MarkersRight(c) ==
    /\ dpc[c] \in {"off", "attached"} \cup Marking => ~recovered[c]
    /\ ~recovered[c] => \A s \in Shards : MarkersLast(c, s)
    /\ ~recovered[c] /\ dpc[c] \notin {"done", "failed"} \cup Marking =>
          \A s \in Shards : NoMarker(c, s)
    /\ dpc[c] = "acking" => \A i \in 1..mark[c] : NoneOf(c, InHand(ShardOrder[c][i]))

\* What was covered at the start is still on record, short of a quarantine.
CoverageKept == coverage \subseteq AllReceipts \cup quarantined

Recovery ==
    /\ \A c \in Cpus : MarkersRight(c)
    /\ \A s \in Shards : Addresses(s)
    /\ CoverageKept /\ ReadyMeansRecovered
=============================================================================
