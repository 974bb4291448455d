-------------------------- MODULE EventIngestSafety --------------------------
(***************************************************************************)
(* Slots and messages, claims and receipts, and the safety theorems.       *)
(*                                                                         *)
(* The properties Accounted and ExactlyOnce rest on one observation: apart *)
(* from the start and the end of the process, every step lets the keys     *)
(* that one shard holds flow on, from queue to batch to database or to     *)
(* the losses to record, and adds at most the keys that a drain passes in  *)
(* the same step.  Flow says so, and FlowKeeps draws the conclusion.       *)
(***************************************************************************)
EXTENDS EventIngestProofs

\* The time each leaf may take, in seconds.
USE ZenonT(30)

(***************************************************************************)
(* Slots held, and what messages carry.                                    *)
(***************************************************************************)
LEMMA QueueTypes ==
    ASSUME TypeInv
    PROVE  \A s \in Shards : queue[s] \in Queues /\ batch[s] \in Seq(Message)
BY DEF TypeInv, TypeOK, ChanTypes, WriterTypes, Queues

\* What a step may do to the queue of a shard, other than settle a slot or
\* claim one: nothing, take the head, or add a control message.
Touched(q, r) ==
    \/ r = q
    \/ q # <<>> /\ Head(q).state # Reserved /\ r = Tail(q)
    \/ \E k \in {"barrier", "retain"}, p \in Owners : r = Send(q, p, Control(k, p))

LEMMA TouchedEffect ==
    ASSUME NEW q \in Queues, NEW r, Touched(q, r)
    PROVE  /\ QueueProper(q) => QueueProper(r)
           /\ \A o \in Owners : SameHolds(q, r, o)
<1>1. CASE r = q
  BY <1>1 DEF SameHolds
<1>2. CASE q # <<>> /\ Head(q).state # Reserved /\ r = Tail(q)
  BY <1>2, PopEffect
<1>3. CASE \E k \in {"barrier", "retain"}, p \in Owners : r = Send(q, p, Control(k, p))
  BY <1>3, SendEffect, NoMsgEmpty, SMTT(30)
<1> QED
  BY <1>1, <1>2, <1>3 DEF Touched

LEMMA WriterTouches ==
    ASSUME TypeInv, NEW s \in Shards, WriterStep(s) \/ WriterFault(s)
    PROVE  Touched(queue[s], queue'[s])
<1>0. queue \in [Shards -> Seq(Entry(Owners, Message))]
  BY DEF TypeInv, TypeOK, ChanTypes
<1>1. CASE SkipCancelled(s) \/ PopFirst(s) \/ PopMore(s) \/ DrainQueue(s)
  BY <1>0, <1>1 DEF SkipCancelled, PopFirst, PopMore, DrainQueue, HeadIs, Pop, Touched,
          Reserved, Cancelled, Published
<1>2. CASE RequestRetain(s)
  <2>1. queue'[s] = Send(queue[s], Retention, Control("retain", Retention))
    BY <1>0, <1>2 DEF RequestRetain
  <2> QED
    BY <2>1 DEF Touched, Owners
<1>3. CASE UNCHANGED queue
  BY <1>3 DEF Touched
<1> QED
  BY <1>1, <1>2, <1>3 DEF WriterStep, WriterFault, CloseBatch,
         GapsCommitted, RowsCommitted, BarrierReached, RetainDone, WriterExit,
         GapsRefused, GapsCorrupt, GapsFatal, RowsRefused, RowsCorrupt, RowsFatal,
         RetainRefused, RetainCorrupt, RetainFatal, chanVars

LEMMA SuperTouches ==
    ASSUME TypeInv, SuperInside, NEW s \in Shards
    PROVE  Touched(queue[s], queue'[s])
<1>0. queue \in [Shards -> Seq(Entry(Owners, Message))]
  BY DEF TypeInv, TypeOK, ChanTypes
<1>1. CASE FlushSend
  <2>1. \/ queue'[s] = queue[s]
        \/ queue'[s] = Send(queue[s], Supervisor, Control("barrier", Supervisor))
    BY <1>0, <1>1 DEF FlushSend
  <2> QED
    BY <2>1 DEF Touched, Owners
<1>2. CASE UNCHANGED queue
  BY <1>2 DEF Touched
<1> QED
  BY <1>1, <1>2 DEF SuperInside, Ready, BeginStop, JoinDrains, FlushAck, CloseQueues,
         chanVars

\* A drain's step other than reserving and settling.
LEMMA DrainTouches ==
    ASSUME TypeInv, NEW c \in Cpus, DrainStep(c) \/ DrainFault(c),
           ~DrainReserve(c), ~DrainSettle(c), NEW s \in Shards
    PROVE  Touched(queue[s], queue'[s])
<1>0. queue \in [Shards -> Seq(Entry(Owners, Message))]
  BY DEF TypeInv, TypeOK, ChanTypes
<1>1. CASE DrainMark(c)
  <2>1. queue'[s] = queue[s] \/ queue'[s] = Send(queue[s], c, Control("barrier", c))
    BY <1>0, <1>1 DEF DrainMark
  <2> QED
    BY <2>1 DEF Touched, Owners
<1>2. CASE UNCHANGED queue
  BY <1>2 DEF Touched
<1> QED
  BY <1>1, <1>2 DEF DrainStep, DrainFault, DrainStart, DrainTop, DrainScan, DrainRead, DrainSkip,
         DrainCopy, DrainCycleEnd, DrainSwap, DrainAck, chanVars

\* The drain of c moves its reconciler on, or leaves it, and the keys K are
\* claimed for what it passes: none of them covered, and nothing left out but
\* what is covered or of a reserved type.
Progress(c, K) ==
    /\ next' = [next EXCEPT ![c] = next'[c]]
    /\ next'[c] \in Nat /\ next[c] <= next'[c]
    /\ \A k \in K : /\ k \notin coverage
                    /\ \E n \in next[c]..(next'[c] - 1) : k = <<c, n>>
    /\ \A n \in next[c]..(next'[c] - 1) :
           <<c, n>> \in K \cup coverage \cup ReservedTypes

\* What a settled slot holds.
Settles(c, st, m) ==
    /\ Proper(m) /\ (m.kind = "event" \/ m = NoMsg)
    /\ st # Published => Claims(m) = {}
    /\ queue' = [queue EXCEPT ![CurrentShard(c)] = Settle(queue[CurrentShard(c)], c, st, m)]
    /\ Progress(c, Claims(m))

LEMMA SettleSays ==
    ASSUME TypeInv, VerdictStands, NEW c \in Cpus, DrainSettle(c)
    PROVE  \E st \in {Published, Cancelled}, m \in Message : Settles(c, st, m)
<1> DEFINE q == cur[c].seq
<1>0. /\ next \in [Cpus -> Nat \ {0}] /\ next[c] \in Nat
      /\ cur[c] \in Verdict /\ q \in Nat
  BY DEF TypeInv, TypeOK, DrainTypes, Verdict
<1>1. CASE Overwritten(c)
  <2>1. /\ queue' = [queue EXCEPT ![CurrentShard(c)] =
                         Settle(queue[CurrentShard(c)], c, Cancelled, NoMsg)]
        /\ next' = next
    BY <1>1 DEF DrainSettle, Cancel
  <2>2. Progress(c, {})
    BY <1>0, <2>1, SMTT(30) DEF Progress
  <2>3. Settles(c, Cancelled, NoMsg)
    BY <2>1, <2>2, NoMsgEmpty DEF Settles, Published, Cancelled
  <2> QED
    BY <2>3, NoMsgEmpty
<1>2. CASE ~Overwritten(c)
  <2> DEFINE m == Handoff(c)
  <2>1. /\ queue' = [queue EXCEPT ![CurrentShard(c)] =
                         Settle(queue[CurrentShard(c)], c, Published, m)]
        /\ next' = [next EXCEPT ![c] = NextAfter(c, q)]
        /\ dpc[c] = "copied"
    BY <1>2 DEF DrainSettle, Publish, MovePast
  <2>2. /\ q # 0 /\ ~cur[c].torn
        /\ ~Regression(c, q)
        /\ cur[c].gaps = Observe(c, q).gaps /\ cur[c].store = Observe(c, q).store
    <3>1. Stands(c) /\ pos[c] \in 1..head[c]
      BY <1>2, <2>1 DEF Overwritten, VerdictStands, Upheld, Handling
    <3>2. q = pos[c] /\ ~cur[c].torn
      BY <2>1, <3>1 DEF Stands
    <3>3. q # 0
      BY <3>1, <3>2, SMTT(30)
    <3> QED
      BY <3>1, <3>2, <3>3 DEF Stands
  <2>3. /\ m.kind = "event" /\ ~m.torn
        /\ m.stores \subseteq {<<c, q>>} /\ (m.stores # {} => cur[c].store)
        /\ cur[c].store => <<c, q>> \in m.stores \cup ReservedTypes
        /\ m.gaps = cur[c].gaps
    BY <2>2 DEF Handoff, EventMsg
  <2>4. m \in Message
    <3>1. <<c, q>> \in Key /\ cur[c].gaps \subseteq Key /\ cur[c].torn \in BOOLEAN
      BY <1>0, <2>2 DEF Key, Verdict
    <3>2. \A st \in SUBSET Key, gs \in SUBSET Key, tn \in BOOLEAN :
              EventMsg(c, st, gs, tn) \in Message
      BY DEF EventMsg, Message, Owners
    <3> QED
      BY <3>1, <3>2 DEF Handoff
  <2> HIDE DEF m
  <2>5. CASE q < next[c]
    <3>1. Claims(m) = {} /\ next' = next
      BY <1>0, <2>1, <2>2, <2>3, <2>5 DEF Claims, Observe, NextAfter
    <3>2. Progress(c, {})
      BY <1>0, <3>1, SMTT(30) DEF Progress
    <3>3. Proper(m)
      BY <2>3, <3>1 DEF Proper, Claims
    <3> QED
      BY <2>1, <2>3, <2>4, <3>1, <3>2, <3>3 DEF Settles
  <2>6. CASE ~(q < next[c])
    <3>1. /\ m.gaps = UncoveredGaps(c, q) /\ next'[c] = q + 1
          /\ cur[c].store <=> <<c, q>> \notin coverage
      BY <1>0, <2>1, <2>2, <2>3, <2>6 DEF Observe, NextAfter, Covered
    <3>2. \A n \in next[c]..(q - 1) : <<c, n>> \in m.gaps \cup coverage
      BY <3>1 DEF UncoveredGaps
    <3>3. \A k \in m.gaps : /\ k \notin coverage
                            /\ \E n \in next[c]..(q - 1) : k = <<c, n>>
      BY <3>1 DEF UncoveredGaps
    <3>4. \A k \in m.stores : k \notin coverage /\ k = <<c, q>>
      BY <2>3, <3>1
    <3>5. m.stores \cap m.gaps = {}
      BY <1>0, <3>3, <3>4, SMTT(30)
    <3>6. Proper(m)
      BY <2>3, <3>5 DEF Proper
    <3>7. q \in next[c]..(next'[c] - 1) /\ next[c]..(q - 1) \subseteq next[c]..(next'[c] - 1)
      BY <1>0, <2>6, <3>1, SMTT(30)
    <3>8. \A k \in Claims(m) : /\ k \notin coverage
                               /\ \E n \in next[c]..(next'[c] - 1) : k = <<c, n>>
      BY <3>3, <3>4, <3>7 DEF Claims
    <3>9. ASSUME NEW n \in next[c]..(next'[c] - 1)
          PROVE  <<c, n>> \in Claims(m) \cup coverage \cup ReservedTypes
      <4>1. CASE n = q
        BY <2>3, <3>1, <4>1 DEF Claims
      <4>2. CASE n # q
        <5>1. n \in next[c]..(q - 1)
          BY <1>0, <3>1, <4>2, SMTT(30)
        <5> QED
          BY <3>2, <5>1 DEF Claims
      <4> QED
        BY <4>1, <4>2
    <3>10. /\ next' = [next EXCEPT ![c] = next'[c]]
           /\ next'[c] \in Nat /\ next[c] <= next'[c]
      BY <1>0, <2>1, <2>6, <3>1, SMTT(30)
    <3>11. Progress(c, Claims(m))
      BY <3>8, <3>9, <3>10 DEF Progress
    <3> QED
      BY <2>1, <2>3, <2>4, <3>6, <3>11 DEF Settles
  <2> QED
    BY <2>5, <2>6
<1> QED
  BY <1>1, <1>2

LEMMA SlotFrame ==
    ASSUME NEW c \in Cpus, NEW s \in Shards, SlotRight(c, s),
           dpc'[c] = dpc[c], router'[c] = router[c], SameHolds(queue[s], queue'[s], c)
    PROVE  SlotRight(c, s)'
BY DEF SlotRight, SameHolds, CurrentShard

LEMMA SlotsHeldStep ==
    ASSUME TypeInv, DownIsEmpty, VerdictStands, SlotsHeld, MessagesProper, [Next]_vars
    PROVE  SlotsHeld'
<1>0. /\ queue \in [Shards -> Seq(Entry(Owners, Message))]
      /\ \A s \in Shards : queue[s] \in Queues
      /\ dpc \in [Cpus -> DrainLabels]
      /\ \A d \in Cpus : d \in Owners
  BY DEF TypeInv, TypeOK, ChanTypes, DrainTypes, Queues, Owners
<1>s. \A q, o : SameHolds(q, q, o)
  BY DEF SameHolds
<1>1. CASE UNCHANGED <<queue, dpc, router>>
  BY <1>1, <1>s, SlotFrame DEF SlotsHeld
<1>2. ASSUME NEW c \in Cpus, DrainReserve(c)
      PROVE  SlotsHeld'
  <2> DEFINE h == CurrentShard(c)
  <2>1. h \in Shards
    BY Addressed
  <2>2. \A d \in Cpus \ {c} : dpc'[d] = dpc[d]
    BY <1>0, <1>2 DEF DrainReserve, Goto
  <2>3. UNCHANGED router /\ dpc[c] = "observed"
    BY <1>2 DEF DrainReserve
  <2>4. CASE UNCHANGED queue /\ dpc'[c] = "failed"
    <3>1. \A s \in Shards : SlotRight(c, s)'
      BY <2>3, <2>4 DEF SlotsHeld, SlotRight
    <3> QED
      BY <1>s, <2>2, <2>3, <2>4, <3>1, SlotFrame DEF SlotsHeld
  <2>5. CASE /\ queue' = [queue EXCEPT ![h] = Claim(queue[h], c, NoMsg)]
             /\ dpc'[c] = "held"
    <3>1. queue'[h] = Claim(queue[h], c, NoMsg) /\ \A s \in Shards \ {h} : queue'[s] = queue[s]
      BY <1>0, <2>1, <2>5
    <3>2. ~Holds(queue[h], c) => HoldsOne(queue'[h], c)
      BY <1>0, <2>1, <3>1, ClaimEffect
    <3>3. \A d \in Cpus \ {c} : SameHolds(queue[h], queue'[h], d)
      BY <1>0, <2>1, <3>1, ClaimEffect
    <3>4. \A s \in Shards : SlotRight(c, s)'
      BY <2>1, <2>3, <2>5, <3>1, <3>2 DEF SlotsHeld, SlotRight, CurrentShard
    <3>5. ASSUME NEW d \in Cpus \ {c}, NEW s \in Shards PROVE SlotRight(d, s)'
      BY <1>s, <2>2, <2>3, <3>1, <3>3, SlotFrame DEF SlotsHeld
    <3> QED
      BY <3>4, <3>5 DEF SlotsHeld
  <2> QED
    BY <1>0, <1>2, <2>4, <2>5 DEF DrainReserve, Goto
<1>3. ASSUME NEW c \in Cpus, DrainSettle(c)
      PROVE  SlotsHeld'
  <2> DEFINE h == CurrentShard(c)
  <2>1. h \in Shards
    BY Addressed
  <2>2. /\ \A d \in Cpus \ {c} : dpc'[d] = dpc[d] /\ router'[d] = router[d]
        /\ dpc[c] = "copied" /\ dpc'[c] = "scan"
    BY <1>0, <1>3, DrainOthers DEF DrainStep, DrainSettle, Goto
  <2>3. HoldsOne(queue[h], c) /\ QueueProper(queue[h])
    BY <2>1, <2>2 DEF SlotsHeld, SlotRight, MessagesProper
  <2>4. PICK st \in {Published, Cancelled}, m \in Message : Settles(c, st, m)
    BY <1>3, SettleSays
  <2>r. /\ queue'[h] = Settle(queue[h], c, st, m)
        /\ \A s \in Shards \ {h} : queue'[s] = queue[s]
    BY <1>0, <2>1, <2>4 DEF Settles
  <2>5. ~Holds(queue'[h], c) /\ \A d \in Cpus \ {c} : SameHolds(queue[h], queue'[h], d)
    BY <1>0, <2>1, <2>3, <2>4, <2>r, SettleEffect DEF Settles
  <2>6. \A s \in Shards : SlotRight(c, s)'
    BY <2>1, <2>2, <2>r, <2>5 DEF SlotsHeld, SlotRight
  <2>7. ASSUME NEW d \in Cpus \ {c}, NEW s \in Shards PROVE SlotRight(d, s)'
    BY <1>s, <2>2, <2>r, <2>5, SlotFrame DEF SlotsHeld
  <2> QED
    BY <2>6, <2>7 DEF SlotsHeld
<1>4. ASSUME NEW c \in Cpus, DrainStep(c) \/ DrainFault(c), ~DrainReserve(c), ~DrainSettle(c)
      PROVE  SlotsHeld'
  <2>1. \A s \in Shards, o \in Owners : SameHolds(queue[s], queue'[s], o)
    BY <1>0, <1>4, DrainTouches, TouchedEffect
  <2>2. /\ router'[c] = router[c]
        /\ dpc[c] \in {"held", "copied"} <=> dpc'[c] \in {"held", "copied"}
    BY <1>0, <1>4 DEF DrainStep, DrainFault, DrainStart, DrainTop, DrainScan, DrainRead,
            DrainSkip, DrainCopy, DrainCycleEnd, DrainSwap, DrainMark, DrainAck, Goto, AfterRecovery
  <2>3. \A s \in Shards : SlotRight(c, s)'
    BY <1>0, <2>1, <2>2 DEF SlotsHeld, SlotRight, SameHolds, CurrentShard
  <2>4. ASSUME NEW d \in Cpus \ {c}, NEW s \in Shards PROVE SlotRight(d, s)'
    BY <1>0, <1>4, <2>1, DrainOthers, SlotFrame DEF SlotsHeld
  <2> QED
    BY <2>3, <2>4 DEF SlotsHeld
<1>5. ASSUME NEW s \in Shards, WriterStep(s) \/ WriterFault(s)
      PROVE  SlotsHeld'
  <2>1. UNCHANGED <<dpc, router>> /\ \A t \in Shards \ {s} : queue'[t] = queue[t]
    BY <1>5, WriterFrame DEF drainVars
  <2>2. \A o \in Owners : SameHolds(queue[s], queue'[s], o)
    BY <1>0, <1>5, WriterTouches, TouchedEffect
  <2> QED
    BY <1>0, <1>s, <2>1, <2>2, SlotFrame DEF SlotsHeld
<1>6. CASE SuperInside
  <2>1. UNCHANGED <<dpc, router>>
    BY <1>6, SuperFrame DEF drainVars
  <2>2. \A s \in Shards, o \in Owners : SameHolds(queue[s], queue'[s], o)
    BY <1>0, <1>6, SuperTouches, TouchedEffect
  <2> QED
    BY <1>0, <2>1, <2>2, SlotFrame DEF SlotsHeld
<1>7. CASE Start
  BY <1>7 DEF Start, DownIsEmpty, SlotsHeld, SlotRight
<1>8. CASE Exit
  <2>1. /\ \A c \in Cpus : dpc'[c] = "off"
        /\ \A s \in Shards : queue'[s] = <<>>
    BY <1>8 DEF Exit
  <2> QED
    <3>1. \A c \in Cpus, s \in Shards : ~Holds(queue'[s], c)
      BY <2>1, SMTT(30) DEF Holds
    <3> QED
      BY <2>1, <3>1 DEF SlotsHeld, SlotRight
<1> QED
  BY <1>1, <1>2, <1>3, <1>4, <1>5, <1>6, <1>7, <1>8, StepCases, KernelFrame DEF chanVars, drainVars, vars

\* What a writer's step does to its batch.
LEMMA BatchStep ==
    ASSUME TypeInv, MessagesProper, NEW s \in Shards, WriterStep(s) \/ WriterFault(s)
    PROVE  BatchProper(batch'[s])
<1>0. /\ batch \in [Shards -> Seq(Message)] /\ queue[s] \in Queues
      /\ BatchProper(batch[s]) /\ QueueProper(queue[s])
  BY QueueTypes DEF TypeInv, TypeOK, WriterTypes, MessagesProper
<1>1. CASE PopFirst(s) \/ PopMore(s)
  <2> DEFINE m == HeadMsg(queue[s])
  <2>1. queue[s] # <<>> /\ Head(queue[s]).state # Reserved
    BY <1>1 DEF PopFirst, PopMore, HeadIs, Published, Reserved
  <2>2. m \in Message /\ Proper(m)
    BY <1>0, <2>1, PopEffect
  <2>3. \/ batch'[s] = batch[s] \/ batch'[s] = <<m>> \/ batch'[s] = Append(batch[s], m)
    BY <1>0, <1>1 DEF PopFirst, PopMore
  <2>4. BatchProper(<<m>>) /\ BatchProper(Append(batch[s], m))
    BY <1>0, <2>2, BatchOne, BatchAppend
  <2> QED
    BY <1>0, <2>3, <2>4
<1>2. CASE batch'[s] = batch[s] \/ batch'[s] = <<>>
  BY <1>0, <1>2, BatchEmpty
<1> QED
  BY <1>0, <1>1, <1>2 DEF WriterStep, WriterFault, SkipCancelled, CloseBatch,
         GapsCommitted, RowsCommitted, BarrierReached, RetainDone, DrainQueue, WriterExit,
         GapsRefused, GapsCorrupt, GapsFatal, RowsRefused, RowsCorrupt, RowsFatal,
         RetainRefused, RetainCorrupt, RetainFatal, RequestRetain, writerVars, RecordLost,
         Fail

LEMMA MessagesProperStep ==
    ASSUME TypeInv, DownIsEmpty, VerdictStands, SlotsHeld, MessagesProper, [Next]_vars
    PROVE  MessagesProper'
<1>0. /\ queue \in [Shards -> Seq(Entry(Owners, Message))]
      /\ \A s \in Shards : queue[s] \in Queues
      /\ \A s \in Shards : QueueProper(queue[s]) /\ BatchProper(batch[s])
  BY DEF TypeInv, TypeOK, ChanTypes, Queues, MessagesProper
<1>1. CASE UNCHANGED <<queue, batch>>
  BY <1>1 DEF MessagesProper
<1>2. ASSUME NEW c \in Cpus, DrainReserve(c)
      PROVE  MessagesProper'
  <2>1. CurrentShard(c) \in Shards /\ c \in Owners
    BY Addressed DEF Owners
  <2>2. UNCHANGED batch
    BY <1>2 DEF DrainReserve, writerVars
  <2>3. \A s \in Shards : \/ queue'[s] = queue[s]
                          \/ queue'[s] = Claim(queue[s], c, NoMsg)
    BY <1>0, <1>2, <2>1 DEF DrainReserve
  <2>4. \A s \in Shards : QueueProper(queue'[s])
    BY <1>0, <2>1, <2>3, ClaimEffect
  <2> QED
    BY <1>0, <2>2, <2>4 DEF MessagesProper
<1>3. ASSUME NEW c \in Cpus, DrainSettle(c)
      PROVE  MessagesProper'
  <2> DEFINE h == CurrentShard(c)
  <2>1. h \in Shards /\ c \in Owners
    BY Addressed DEF Owners
  <2>2. UNCHANGED batch /\ dpc[c] = "copied"
    BY <1>3 DEF DrainSettle, writerVars
  <2>3. HoldsOne(queue[h], c)
    BY <2>1, <2>2 DEF SlotsHeld, SlotRight
  <2>4. PICK st \in {Published, Cancelled}, m \in Message : Settles(c, st, m)
    BY <1>3, SettleSays
  <2>5. /\ queue'[h] = Settle(queue[h], c, st, m)
        /\ \A s \in Shards \ {h} : queue'[s] = queue[s]
    BY <1>0, <2>1, <2>4 DEF Settles
  <2>6. QueueProper(queue'[h])
    BY <1>0, <2>1, <2>3, <2>4, <2>5, SettleEffect DEF Settles
  <2> QED
    BY <1>0, <2>2, <2>5, <2>6 DEF MessagesProper
<1>4. ASSUME NEW c \in Cpus, DrainStep(c) \/ DrainFault(c), ~DrainReserve(c), ~DrainSettle(c)
      PROVE  MessagesProper'
  <2>1. \A s \in Shards : QueueProper(queue'[s])
    BY <1>0, <1>4, DrainTouches, TouchedEffect
  <2>2. UNCHANGED batch
    BY <1>4, DrainFrame DEF writerVars
  <2> QED
    BY <1>0, <2>1, <2>2 DEF MessagesProper
<1>5. ASSUME NEW s \in Shards, WriterStep(s) \/ WriterFault(s)
      PROVE  MessagesProper'
  <2>1. \A t \in Shards \ {s} : queue'[t] = queue[t] /\ batch'[t] = batch[t]
    BY <1>5, WriterFrame
  <2>2. QueueProper(queue'[s]) /\ BatchProper(batch'[s])
    BY <1>0, <1>5, WriterTouches, TouchedEffect, BatchStep
  <2> QED
    BY <1>0, <2>1, <2>2 DEF MessagesProper
<1>6. CASE SuperInside
  <2>1. \A s \in Shards : QueueProper(queue'[s])
    BY <1>0, <1>6, SuperTouches, TouchedEffect
  <2>2. UNCHANGED batch
    BY <1>6, SuperFrame DEF writerVars
  <2> QED
    BY <1>0, <2>1, <2>2 DEF MessagesProper
<1>7. CASE Start
  BY <1>1, <1>7 DEF Start
<1>8. CASE Exit
  <2>1. \A s \in Shards : queue'[s] = <<>> /\ batch'[s] = <<>>
    BY <1>8 DEF Exit
  <2> QED
    BY <2>1, SMTT(30) DEF MessagesProper, QueueProper, BatchProper
<1> QED
  BY <1>1, <1>2, <1>3, <1>4, <1>5, <1>6, <1>7, <1>8, StepCases, KernelFrame DEF chanVars, writerVars, vars

(***************************************************************************)
(* Claims and receipts.                                                    *)
(***************************************************************************)

Flow(s, K) ==
    /\ phase # "down" /\ coverage' = coverage
    /\ \A t \in Shards \ {s} : Claimed(t)' = Claimed(t) /\ receipts'[t] = receipts[t]
                               /\ (Single(t) => Single(t)')
    /\ quarantined \subseteq quarantined' /\ dropped \subseteq dropped'
    /\ Claimed(s)' \subseteq Claimed(s) \cup K
    /\ Held(s)' \subseteq Held(s) \cup K
    /\ Held(s) \cup K \subseteq Held(s)' \cup quarantined' \cup dropped'
    /\ Single(s)'
    /\ \A c \in Cpus : next[c] <= next'[c]
    /\ \A k \in K : k \notin coverage /\ ~Behind(k) /\ Behind(k)'
    /\ \A c \in Cpus : \A n \in next[c]..(next'[c] - 1) :
           <<c, n>> \in K \cup coverage \cup ReservedTypes

LEMMA ClaimedKeys ==
    ASSUME TypeInv
    PROVE  \A s \in Shards : Claimed(s) \subseteq Key /\ Held(s) \subseteq Key
<1> SUFFICES ASSUME NEW s \in Shards PROVE Claimed(s) \subseteq Key /\ Held(s) \subseteq Key
  OBVIOUS
<1>0. /\ queue[s] \in Queues /\ batch[s] \in Seq(Message)
      /\ pending[s] \subseteq Key /\ receipts[s] \subseteq Key
  BY QueueTypes DEF TypeInv, TypeOK, WriterTypes, StoreTypes
<1>e. \A i \in DOMAIN queue[s] : queue[s][i] \in Entry(Owners, Message)
  BY <1>0, SeqEntry, SeqLen DEF Queues
<1>1. \A i \in DOMAIN queue[s] : queue[s][i].msg \in Message
  BY <1>e DEF Entry
<1>2. QueueClaims(queue[s]) \subseteq Key
  BY <1>0, <1>1, QueueClaimsAt DEF Claims, Message
<1>3. BatchClaims(batch[s]) \subseteq Key
  BY <1>0, BatchSplit
<1> QED
  BY <1>0, <1>2, <1>3 DEF Claimed, Held

LEMMA FlowKeeps ==
    ASSUME TypeInv, TypeInv', ClaimsAreNew, ReceiptsCovered, Accounted, ExactlyOnce,
           NEW s \in Shards, NEW K, Flow(s, K)
    PROVE  ClaimsAreNew' /\ ReceiptsCovered' /\ Accounted' /\ ExactlyOnce'
<1>0. /\ next \in [Cpus -> Nat \ {0}] /\ next' \in [Cpus -> Nat \ {0}]
      /\ \A c \in Cpus : next[c] <= next'[c]
  BY DEF Flow, TypeInv, TypeOK, DrainTypes
<1>1. \A k \in Key : Behind(k) => Behind(k)'
  BY <1>0, SMTT(30) DEF Behind, Key
<1>2. \A t \in Shards \ {s} : /\ Claimed(t)' = Claimed(t) /\ receipts'[t] = receipts[t]
                              /\ Held(t)' = Held(t)
  BY DEF Flow, Held
<1>3. \A t \in Shards : /\ Claimed(t) \subseteq Key /\ Held(t) \subseteq Key
                        /\ receipts[t] \subseteq Held(t) /\ Claimed(t) \subseteq Held(t)
  BY ClaimedKeys DEF Held
<1>4. ClaimsAreNew'
  <2>1. ASSUME NEW t \in Shards, NEW k \in Claimed(t)'
        PROVE  Behind(k)' /\ k \notin coverage'
    <3>1. CASE t = s
      <4>1. k \in Claimed(s) \/ k \in K
        BY <3>1 DEF Flow
      <4> QED
        BY <4>1, <1>1, <1>3 DEF Flow, ClaimsAreNew
    <3>2. CASE t # s
      BY <1>1, <1>2, <1>3, <3>2 DEF Flow, ClaimsAreNew
    <3> QED
      BY <3>1, <3>2
  <2> QED
    BY <2>1 DEF ClaimsAreNew
\* What is held was covered or has been passed.
<1>5. \A t \in Shards : \A k \in Held(t) : k \in coverage \/ Behind(k)
  BY DEF Flow, Held, ClaimsAreNew, ReceiptsCovered
<1>6. ReceiptsCovered'
  <2>1. ASSUME NEW t \in Shards, NEW k \in receipts'[t]
        PROVE  k \in coverage' \/ Behind(k)'
    <3>1. CASE t = s
      <4>1. k \in Held(s) \/ k \in K
        BY <3>1 DEF Flow, Held
      <4> QED
        BY <4>1, <1>1, <1>3, <1>5 DEF Flow
    <3>2. CASE t # s
      BY <1>1, <1>2, <1>3, <1>5, <3>2 DEF Flow
    <3> QED
      BY <3>1, <3>2
  <2> QED
    BY <2>1 DEF ReceiptsCovered
<1>7. Accounted'
  <2>1. ASSUME NEW c \in Cpus, NEW q \in 1..(next'[c] - 1)
        PROVE  \/ \E t \in Shards : <<c, q>> \in Held(t)'
               \/ <<c, q>> \in coverage' \cup quarantined' \cup dropped' \cup ReservedTypes
    <3>1. CASE q \in next[c]..(next'[c] - 1)
      <4>1. <<c, q>> \in K \cup coverage \cup ReservedTypes
        BY <3>1 DEF Flow
      <4> QED
        BY <4>1 DEF Flow
    <3>2. CASE q \in 1..(next[c] - 1)
      <4>1. <<c, q>> \in Passed(c)
        BY <3>2 DEF Passed
      <4>2. \/ \E t \in Shards : <<c, q>> \in Held(t)
            \/ <<c, q>> \in coverage \cup quarantined \cup dropped \cup ReservedTypes
        BY <4>1 DEF Accounted
      <4>3. ASSUME NEW t \in Shards, <<c, q>> \in Held(t)
            PROVE  \/ <<c, q>> \in Held(t)'
                   \/ <<c, q>> \in quarantined' \cup dropped'
        BY <1>2, <4>3 DEF Flow
      <4> QED
        BY <4>2, <4>3 DEF Flow
    <3> QED
      BY <1>0, <3>1, <3>2, SMTT(30)
  <2> QED
    BY <2>1 DEF Accounted, Passed
<1>8. ExactlyOnce'
  <2>1. \A t \in Shards : Single(t)'
    BY DEF Flow, ExactlyOnce
  <2>2. \A t \in Shards \ {s} : K \cap Held(t) = {}
    BY <1>5 DEF Flow
  <2>3. \A t \in Shards \ {s} : Held(s)' \cap Held(t)' = {}
    BY <1>2, <2>2, SMTT(30) DEF Flow, ExactlyOnce
  <2>4. ASSUME NEW t \in Shards, NEW u \in Shards, t # u PROVE Held(t)' \cap Held(u)' = {}
    BY <1>2, <2>3, <2>4, SMTT(30) DEF ExactlyOnce
  <2> QED
    BY <2>1, <2>4 DEF ExactlyOnce
<1> QED
  BY <1>4, <1>6, <1>7, <1>8

(***************************************************************************)
(* A writer's step lets the keys of its shard flow.                        *)
(***************************************************************************)
\* What Flow asks of the step's own shard.
Carried(s) ==
    /\ quarantined \subseteq quarantined' /\ dropped \subseteq dropped'
    /\ Claimed(s)' \subseteq Claimed(s)
    /\ Held(s)' \subseteq Held(s)
    /\ Held(s) \subseteq Held(s)' \cup quarantined' \cup dropped'
    /\ Single(s)'

LEMMA WriterFlow ==
    ASSUME TypeInv, NEW s \in Shards, WriterStep(s) \/ WriterFault(s), Carried(s)
    PROVE  Flow(s, {})
<1>1. \A t \in Shards \ {s} : /\ Claimed(t)' = Claimed(t) /\ receipts'[t] = receipts[t]
                              /\ Single(t) => Single(t)'
  BY WriterFrame DEF Claimed, Single
<1>2. phase # "down" /\ coverage' = coverage /\ next' = next
  BY WriterFrame DEF drainVars
<1>3. next \in [Cpus -> Nat \ {0}]
  BY DEF TypeInv, TypeOK, DrainTypes
<1>4. \A c \in Cpus : next[c] <= next'[c] /\ next[c]..(next'[c] - 1) = {}
  BY <1>2, <1>3, SMTT(30)
<1> QED
  BY <1>1, <1>2, <1>4 DEF Flow, Carried

\* The queue passes its head on.
LEMMA PopsCarry ==
    ASSUME TypeInv, MessagesProper, WriterHolds, ExactlyOnce, NEW s \in Shards,
           SkipCancelled(s) \/ PopFirst(s) \/ PopMore(s) \/ DrainQueue(s)
    PROVE  Carried(s)
<1> DEFINE m == HeadMsg(queue[s])
<1>0. /\ queue \in [Shards -> Seq(Entry(Owners, Message))] /\ queue[s] \in Queues
      /\ batch \in [Shards -> Seq(Message)] /\ batch[s] \in Seq(Message)
      /\ QueueProper(queue[s]) /\ Single(s)
  BY QueueTypes DEF TypeInv, TypeOK, WriterTypes, ChanTypes, MessagesProper, ExactlyOnce
<1>1. /\ queue[s] # <<>> /\ Head(queue[s]).state # Reserved
      /\ queue'[s] = Tail(queue[s])
      /\ receipts' = receipts /\ pending' = pending /\ quarantined' = quarantined
  BY <1>0 DEF SkipCancelled, PopFirst, PopMore, DrainQueue, HeadIs, Pop,
          Reserved, Cancelled, Published, storeVars, writerVars
<1>2. /\ m \in Message /\ Proper(m)
      /\ QueueClaims(queue[s]) = Claims(m) \cup QueueClaims(queue'[s])
      /\ QueueApart(queue'[s]) /\ Claims(m) \cap QueueClaims(queue'[s]) = {}
      /\ Head(queue[s]).state # Published => Claims(m) = {}
  <2>1. QueueApart(queue[s])
    BY <1>0 DEF Single
  <2> HIDE DEF m
  <2>2. /\ m \in Message
        /\ QueueClaims(queue[s]) = Claims(m) \cup QueueClaims(Tail(queue[s]))
        /\ QueueApart(Tail(queue[s])) /\ Claims(m) \cap QueueClaims(Tail(queue[s])) = {}
        /\ Proper(m) /\ (Head(queue[s]).state # Published => Claims(m) = {})
    BY <1>0, <1>1, <2>1, PopEffect DEF m
  <2> QED
    BY <1>1, <2>2
<1>3. /\ dropped \subseteq dropped'
      /\ \/ /\ BatchClaims(batch'[s]) = BatchClaims(batch[s]) \cup Claims(m)
            /\ BatchApart(batch'[s])
         \/ /\ batch'[s] = batch[s]
            /\ Claims(m) \subseteq dropped'
  <2>1. CASE SkipCancelled(s)
    BY <1>2, <2>1 DEF SkipCancelled, HeadIs, Cancelled, Published, writerVars
  <2>2. CASE PopFirst(s)
    <3>1. batch[s] = <<>> /\ dropped' = dropped
      BY <2>2 DEF PopFirst, WriterHolds
    <3>2. CASE m.kind = "event"
      <4>1. batch'[s] = <<m>>
        BY <1>0, <2>2, <3>2 DEF PopFirst
      <4> QED
        BY <1>2, <3>1, <4>1, BatchOne, BatchEmpty
    <3>3. CASE m.kind # "event"
      BY <1>2, <2>2, <3>1, <3>3 DEF PopFirst, Proper
    <3> QED
      BY <3>2, <3>3
  <2>3. CASE PopMore(s)
    <3>1. dropped' = dropped
      BY <2>3 DEF PopMore
    <3>2. CASE m.kind = "event"
      <4>1. batch'[s] = Append(batch[s], m)
        BY <1>0, <2>3, <3>2 DEF PopMore
      <4>2. Claims(m) \cap BatchClaims(batch[s]) = {}
        BY <1>0, <1>2 DEF Single
      <4> QED
        BY <1>0, <1>2, <3>1, <4>1, <4>2, BatchAppend DEF Single
    <3>3. CASE m.kind # "event"
      BY <1>2, <2>3, <3>1, <3>3 DEF PopMore, Proper
    <3> QED
      BY <3>2, <3>3
  <2>4. CASE DrainQueue(s)
    BY <2>4 DEF DrainQueue
  <2> QED
    BY <2>1, <2>2, <2>3, <2>4
<1> HIDE DEF m
<1>4. /\ Claimed(s)' \subseteq Claimed(s)
      /\ Claimed(s) \subseteq Claimed(s)' \cup dropped'
  BY <1>1, <1>2, <1>3 DEF Claimed
<1>5. Single(s)'
  <2>1. receipts'[s] \cap Claimed(s)' = {}
    BY <1>0, <1>1, <1>4 DEF Single
  <2>2. /\ QueueClaims(queue'[s]) \cap BatchClaims(batch'[s]) = {}
        /\ (QueueClaims(queue'[s]) \cup BatchClaims(batch'[s])) \cap pending'[s] = {}
    BY <1>0, <1>1, <1>2, <1>3 DEF Single
  <2>3. BatchApart(batch'[s])
    BY <1>0, <1>3 DEF Single
  <2> QED
    BY <1>2, <2>1, <2>2, <2>3 DEF Single
<1> QED
  BY <1>1, <1>3, <1>4, <1>5 DEF Carried, Held

\* The rest moves whole sets: the batch and the pending losses of s go to its
\* receipts, to its pending losses, or are dropped.
LEMMA MovesCarry ==
    ASSUME NEW s \in Shards, Single(s),
           QueueClaims(queue'[s]) = QueueClaims(queue[s]),
           QueueApart(queue[s]) => QueueApart(queue'[s]),
           \/ batch'[s] = batch[s]
           \/ batch'[s] = <<>> /\ BatchClaims(batch[s]) \subseteq
                                       pending'[s] \cup receipts'[s] \cup dropped',
           pending'[s] \subseteq pending[s] \cup (BatchClaims(batch[s])
                                                    \ BatchClaims(batch'[s])),
           pending[s] \subseteq pending'[s] \cup receipts'[s] \cup dropped',
           receipts'[s] \subseteq receipts[s] \cup
               ((pending[s] \cup BatchClaims(batch[s]))
                   \ (pending'[s] \cup BatchClaims(batch'[s]))),
           receipts[s] \subseteq receipts'[s] \cup quarantined',
           quarantined \subseteq quarantined', dropped \subseteq dropped'
    PROVE  Carried(s)
<1>1. BatchApart(batch'[s]) /\ BatchClaims(batch'[s]) \subseteq BatchClaims(batch[s])
  BY BatchEmpty DEF Single
<1>2. BatchClaims(batch[s]) \subseteq BatchClaims(batch'[s]) \cup
          pending'[s] \cup receipts'[s] \cup dropped'
  OBVIOUS
<1>3. Claimed(s)' \subseteq Claimed(s) /\ Held(s)' \subseteq Held(s)
  BY <1>1 DEF Claimed, Held
<1>4. Held(s) \subseteq Held(s)' \cup quarantined' \cup dropped'
  BY <1>2 DEF Claimed, Held
<1>5. receipts'[s] \cap Claimed(s)' = {}
  BY <1>1 DEF Single, Claimed
<1>6. /\ QueueClaims(queue'[s]) \cap BatchClaims(batch'[s]) = {}
      /\ (QueueClaims(queue'[s]) \cup BatchClaims(batch'[s])) \cap pending'[s] = {}
  BY <1>1 DEF Single
<1> QED
  BY <1>1, <1>3, <1>4, <1>5, <1>6 DEF Carried, Single

LEMMA WriterCarries ==
    ASSUME TypeInv, MessagesProper, WriterHolds, ExactlyOnce, NEW s \in Shards,
           WriterStep(s) \/ WriterFault(s)
    PROVE  Carried(s)
<1>0. /\ batch \in [Shards -> Seq(Message)] /\ batch[s] \in Seq(Message)
      /\ pending \in [Shards -> SUBSET Key] /\ receipts \in [Shards -> SUBSET Key]
      /\ queue \in [Shards -> Seq(Entry(Owners, Message))] /\ queue[s] \in Queues
      /\ Single(s) /\ BatchClaims(<<>>) = {}
      /\ BatchClaims(batch[s]) = BatchStores(batch[s]) \cup BatchGaps(batch[s])
  BY QueueTypes, BatchEmpty, BatchSplit
     DEF TypeInv, TypeOK, WriterTypes, ChanTypes, StoreTypes, ExactlyOnce
<1>p. BatchClaims(batch[s]) \cap pending[s] = {}
  BY <1>0 DEF Single
<1>1. CASE SkipCancelled(s) \/ PopFirst(s) \/ PopMore(s) \/ DrainQueue(s)
  BY <1>1, PopsCarry
\* Nothing that is held moves.
<1>2. CASE CloseBatch(s) \/ BarrierReached(s) \/ RetainDone(s) \/ RetainRefused(s)
  <2>1. UNCHANGED <<queue, batch, pending, receipts, quarantined, dropped>>
    BY <1>2 DEF CloseBatch, BarrierReached, RetainDone, RetainRows, DeleteEvents,
            RetainRefused, storeVars, chanVars
  <2> QED
    BY <1>0, <2>1, MovesCarry
<1>3. CASE RequestRetain(s)
  <2>1. /\ queue'[s] = Send(queue[s], Retention, Control("retain", Retention))
        /\ UNCHANGED <<batch, pending, receipts, quarantined, dropped>>
    BY <1>0, <1>3 DEF RequestRetain, storeVars, writerVars
  <2>2. /\ QueueClaims(queue'[s]) = QueueClaims(queue[s])
        /\ QueueApart(queue[s]) => QueueApart(queue'[s])
    BY <1>0, <2>1, SendEffect, NoMsgEmpty DEF Owners
  <2> QED
    BY <1>0, <2>1, <2>2, MovesCarry
<1>4. CASE GapsCommitted(s)
  <2>1. /\ UNCHANGED <<queue, batch, quarantined, dropped>>
        /\ pending'[s] = {} /\ receipts'[s] = receipts[s] \cup pending[s]
    BY <1>0, <1>4 DEF GapsCommitted, Record, chanVars
  <2> QED
    BY <1>0, <1>p, <2>1, MovesCarry
<1>5. CASE RowsCommitted(s)
  <2>1. /\ UNCHANGED <<queue, pending, quarantined, dropped>>
        /\ batch'[s] = <<>> /\ receipts'[s] = receipts[s] \cup BatchClaims(batch[s])
    BY <1>0, <1>5 DEF RowsCommitted, Record, chanVars
  <2> QED
    BY <1>0, <1>p, <2>1, MovesCarry
<1>6. CASE GapsRefused(s) \/ RowsRefused(s)
  <2>1. /\ UNCHANGED <<queue, receipts, quarantined, dropped>>
        /\ batch'[s] = <<>> /\ pending'[s] = pending[s] \cup BatchClaims(batch[s])
    BY <1>0, <1>6 DEF GapsRefused, RowsRefused, RecordLost, storeVars, chanVars
  <2> QED
    BY <1>0, <2>1, MovesCarry
<1>7. CASE GapsCorrupt(s) \/ RetainCorrupt(s)
  <2>1. /\ UNCHANGED <<queue, batch, pending, dropped>>
        /\ receipts'[s] = {} /\ quarantined \cup receipts[s] \subseteq quarantined'
    BY <1>0, <1>7 DEF GapsCorrupt, RetainCorrupt, Quarantine, chanVars
  <2> QED
    BY <1>0, <2>1, MovesCarry
<1>8. CASE RowsCorrupt(s)
  <2>1. /\ UNCHANGED <<queue, dropped>>
        /\ batch'[s] = <<>> /\ pending'[s] = pending[s] \cup BatchClaims(batch[s])
        /\ receipts'[s] = {} /\ quarantined \cup receipts[s] \subseteq quarantined'
    BY <1>0, <1>8 DEF RowsCorrupt, RecordLost, Quarantine, chanVars
  <2> QED
    BY <1>0, <2>1, MovesCarry
<1>9. CASE GapsFatal(s) \/ RowsFatal(s) \/ RetainFatal(s)
  <2>1. /\ UNCHANGED queue
        /\ batch'[s] = <<>> /\ pending'[s] = {}
        /\ dropped' = dropped \cup BatchClaims(batch[s]) \cup pending[s]
    BY <1>0, <1>9 DEF GapsFatal, RowsFatal, RetainFatal, Fail
  <2>2. /\ \/ receipts'[s] = receipts[s]
           \/ receipts'[s] = receipts[s] \cup pending[s]
           \/ receipts'[s] = receipts[s] \cup BatchClaims(batch[s])
           \/ receipts'[s] = {} /\ receipts[s] \subseteq quarantined'
        /\ quarantined \subseteq quarantined'
    <3>1. CASE GapsFatal(s)
      BY <1>0, <3>1, SMTT(30) DEF GapsFatal, AfterFatal, Record, Quarantine
    <3>2. CASE RowsFatal(s)
      BY <1>0, <3>2, SMTT(30) DEF RowsFatal, AfterFatal, Record, Quarantine
    <3>3. CASE RetainFatal(s)
      BY <1>0, <3>3 DEF RetainFatal, Quarantine, RetainRows, DeleteEvents
    <3> QED
      BY <1>9, <3>1, <3>2, <3>3
  <2> QED
    BY <1>0, <2>1, <2>2, MovesCarry
<1>10. CASE WriterExit(s)
  <2>1. /\ UNCHANGED <<queue, batch, receipts, quarantined>>
        /\ pending'[s] = {} /\ dropped' = dropped \cup pending[s]
    BY <1>0, <1>10 DEF WriterExit, storeVars, chanVars
  <2> QED
    BY <1>0, <2>1, MovesCarry
<1> QED
  BY <1>1, <1>2, <1>3, <1>4, <1>5, <1>6, <1>7, <1>8, <1>9, <1>10 DEF WriterStep, WriterFault

(***************************************************************************)
(* So does a drain's, which adds what it passes.                           *)
(***************************************************************************)
\* The receipts and the claims behind the queue stay; the queue of s gains K.
LEMMA DrainFlow ==
    ASSUME TypeInv, TypeInv', ClaimsAreNew, ReceiptsCovered, ExactlyOnce,
           NEW s \in Shards, NEW c \in Cpus, NEW K,
           phase # "down", Progress(c, K),
           UNCHANGED <<batch, pending, receipts, quarantined, dropped, coverage>>,
           \A t \in Shards \ {s} : queue'[t] = queue[t],
           QueueClaims(queue'[s]) = QueueClaims(queue[s]) \cup K,
           QueueApart(queue[s]) /\ K \cap QueueClaims(queue[s]) = {} => QueueApart(queue'[s])
    PROVE  Flow(s, K)
<1>0. next \in [Cpus -> Nat \ {0}] /\ next' \in [Cpus -> Nat \ {0}] /\ Single(s)
  BY DEF TypeInv, TypeOK, DrainTypes, ExactlyOnce
<1>1. \A k \in K : k \notin coverage /\ ~Behind(k) /\ Behind(k)'
  <2> SUFFICES ASSUME NEW k \in K PROVE k \notin coverage /\ ~Behind(k) /\ Behind(k)'
    OBVIOUS
  <2>1. k \notin coverage
    BY DEF Progress
  <2>2. PICK n \in next[c]..(next'[c] - 1) : k = <<c, n>>
    BY DEF Progress
  <2>3. k[1] = c /\ k[2] = n
    BY <2>2
  <2> QED
    BY <1>0, <2>1, <2>2, <2>3, Intervals DEF Behind
<1>2. K \cap Held(s) = {}
  BY <1>1 DEF Held, ClaimsAreNew, ReceiptsCovered
<1>3. /\ Claimed(s)' = Claimed(s) \cup K /\ Held(s)' = Held(s) \cup K
      /\ QueueApart(queue'[s])
  BY <1>0, <1>2 DEF Claimed, Held, Single
<1>4. Single(s)'
  <2>1. receipts'[s] \cap Claimed(s)' = {}
    BY <1>0, <1>2, <1>3 DEF Single, Held
  <2>2. /\ QueueClaims(queue'[s]) \cap BatchClaims(batch'[s]) = {}
        /\ (QueueClaims(queue'[s]) \cup BatchClaims(batch'[s])) \cap pending'[s] = {}
    BY <1>0, <1>2 DEF Single, Held, Claimed
  <2> QED
    BY <1>0, <1>3, <2>1, <2>2 DEF Single
<1>5. \A t \in Shards \ {s} : /\ Claimed(t)' = Claimed(t) /\ receipts'[t] = receipts[t]
                              /\ Single(t) => Single(t)'
  BY DEF Claimed, Single
<1>6. ASSUME NEW d \in Cpus
      PROVE  /\ next[d] <= next'[d]
             /\ \A n \in next[d]..(next'[d] - 1) :
                    <<d, n>> \in K \cup coverage \cup ReservedTypes
  <2>1. CASE d = c
    BY <2>1 DEF Progress
  <2>2. CASE d # c
    BY <1>0, <2>2, SMTT(30) DEF Progress
  <2> QED
    BY <2>1, <2>2
<1> QED
  BY <1>1, <1>3, <1>4, <1>5, <1>6 DEF Flow

\* A step that changes no claim and no record.
Quiet ==
    /\ phase' # "down" => phase # "down"
    /\ UNCHANGED <<batch, pending, receipts, quarantined, dropped, next, coverage>>
    /\ \A t \in Shards : /\ QueueClaims(queue'[t]) = QueueClaims(queue[t])
                         /\ QueueApart(queue[t]) => QueueApart(queue'[t])

LEMMA QuietKeeps ==
    ASSUME ClaimsAreNew, ReceiptsCovered, Accounted, ExactlyOnce, Quiet
    PROVE  ClaimsAreNew' /\ ReceiptsCovered' /\ Accounted' /\ ExactlyOnce'
<1>1. \A t \in Shards : /\ Claimed(t)' = Claimed(t) /\ Held(t)' = Held(t)
                        /\ Single(t) => Single(t)'
  BY DEF Quiet, Claimed, Held, Single
<1>2. ClaimsAreNew' /\ ReceiptsCovered'
  BY <1>1 DEF Quiet, ClaimsAreNew, ReceiptsCovered, Behind
<1>3. \A c \in Cpus : Passed(c)' = Passed(c)
  BY DEF Quiet, Passed
<1>4. Accounted'
  BY <1>1, <1>3 DEF Quiet, Accounted
<1>5. ExactlyOnce'
  BY <1>1 DEF ExactlyOnce
<1> QED
  BY <1>2, <1>4, <1>5

\* A control message, or a claimed slot, in the queue of one shard.
LEMMA QuietQueue ==
    ASSUME TypeInv, NEW s \in Shards, NEW r,
           \/ \E p \in Owners : r = Claim(queue[s], p, NoMsg)
           \/ \E p \in Owners, k \in {"barrier", "retain"} :
                  r = Send(queue[s], p, Control(k, p)),
           queue' = [queue EXCEPT ![s] = r],
           phase' # "down" => phase # "down",
           UNCHANGED <<batch, pending, receipts, quarantined, dropped, next, coverage>>
    PROVE  Quiet
<1>0. queue \in [Shards -> Seq(Entry(Owners, Message))] /\ queue[s] \in Queues
  BY QueueTypes DEF TypeInv, TypeOK, ChanTypes
<1>1. /\ QueueClaims(r) = QueueClaims(queue[s])
      /\ QueueApart(queue[s]) => QueueApart(r)
  BY <1>0, ClaimEffect, SendEffect, NoMsgEmpty, SMTT(30)
<1>2. queue'[s] = r /\ \A t \in Shards \ {s} : queue'[t] = queue[t]
  BY <1>0
<1> QED
  BY <1>1, <1>2 DEF Quiet

LEMMA DrainClaims ==
    ASSUME TypeInv, TypeInv', VerdictStands, SlotsHeld, MessagesProper,
           ClaimsAreNew, ReceiptsCovered, Accounted, ExactlyOnce,
           NEW c \in Cpus, DrainStep(c) \/ DrainFault(c)
    PROVE  ClaimsAreNew' /\ ReceiptsCovered' /\ Accounted' /\ ExactlyOnce'
<1> DEFINE h == CurrentShard(c)
<1>0. /\ UNCHANGED <<batch, pending, receipts, quarantined, dropped, coverage, phase>>
      /\ phase # "down"
      /\ h \in Shards /\ c \in Owners /\ ShardOrder[c][mark[c] + 1] \in Shards
  BY DrainFrame, Addressed DEF storeVars, writerVars, superVars, Owners
<1>1. CASE DrainReserve(c)
  <2>1. UNCHANGED next
    BY <1>1 DEF DrainReserve
  <2>2. CASE UNCHANGED queue
    BY <1>0, <2>1, <2>2, QuietKeeps DEF Quiet
  <2>3. CASE queue' = [queue EXCEPT ![h] = Claim(queue[h], c, NoMsg)]
    BY <1>0, <2>1, <2>3, QuietQueue, QuietKeeps
  <2> QED
    BY <1>1, <2>2, <2>3 DEF DrainReserve
<1>2. CASE DrainMark(c)
  <2> DEFINE s == ShardOrder[c][mark[c] + 1]
  <2>1. UNCHANGED next
    BY <1>2 DEF DrainMark
  <2>2. CASE UNCHANGED queue
    BY <1>0, <2>1, <2>2, QuietKeeps DEF Quiet
  <2>3. CASE queue' = [queue EXCEPT ![s] = Send(queue[s], c, Control("barrier", c))]
    BY <1>0, <2>1, <2>3, QuietQueue, QuietKeeps
  <2> QED
    BY <1>2, <2>2, <2>3 DEF DrainMark
<1>3. CASE DrainSkip(c)
  <2>0. /\ next \in [Cpus -> Nat \ {0}] /\ next[c] \in Nat /\ head[c] \in Nat
        /\ dpc[c] = "observed" /\ ~NeedsHandoff(cur[c])
    BY <1>3 DEF DrainSkip, TypeInv, TypeOK, DrainTypes, KernelTypes
  <2>1. UNCHANGED queue
    BY <1>3 DEF DrainSkip, chanVars
  <2>2. next' = next \/ next' = [next EXCEPT ![c] = NextAfter(c, cur[c].seq)]
    BY <1>3 DEF DrainSkip, MovePast
  <2>3. ASSUME next' # next
        PROVE  /\ cur[c].seq \in Nat
               /\ Observe(c, cur[c].seq).gaps = {} /\ ~Observe(c, cur[c].seq).store
    <3>0. ~Overwritten(c)
      BY <1>3, <2>3 DEF DrainSkip
    <3>1. Stands(c) /\ pos[c] \in 1..head[c]
      BY <2>0, <3>0 DEF Overwritten, VerdictStands, Upheld, Handling
    <3>2. cur[c].gaps = {} /\ ~cur[c].store
      BY <2>0 DEF NeedsHandoff
    <3>3. /\ cur[c].seq \in 1..head[c]
          /\ cur[c].gaps = Observe(c, cur[c].seq).gaps
          /\ cur[c].store = Observe(c, cur[c].seq).store
      BY <3>1 DEF Stands
    <3>4. cur[c].seq \in Nat
      BY <2>0, <3>3, Intervals
    <3> QED
      BY <3>2, <3>3, <3>4
  <2>4. Progress(c, {})
    <3>1. CASE next' = next
      BY <2>0, <3>1, SMTT(30) DEF Progress
    <3>2. CASE next' # next
      <4>1. /\ ~(cur[c].seq < next[c]) /\ next'[c] = cur[c].seq + 1
            /\ next' = [next EXCEPT ![c] = next'[c]]
        BY <2>0, <2>2, <3>2 DEF NextAfter
      <4>2. /\ UncoveredGaps(c, cur[c].seq) = {}
            /\ <<c, cur[c].seq>> \in coverage
        BY <2>3, <3>2, <4>1 DEF Observe, Covered
      <4>3. \A n \in next[c]..(cur[c].seq - 1) : <<c, n>> \in coverage
        BY <4>2 DEF UncoveredGaps
      <4>4. /\ \A n \in next[c]..(next'[c] - 1) : n = cur[c].seq \/ n \in next[c]..(cur[c].seq - 1)
            /\ next'[c] \in Nat /\ next[c] <= next'[c]
        BY <2>0, <2>3, <3>2, <4>1, OneFurther
      <4> QED
        BY <4>1, <4>2, <4>3, <4>4 DEF Progress
    <3> QED
      BY <3>1, <3>2
  <2>5. Flow(h, {})
    BY <1>0, <2>1, <2>4, DrainFlow
  <2> QED
    BY <1>0, <2>5, FlowKeeps
<1>4. CASE DrainSettle(c)
  <2>0. /\ queue \in [Shards -> Seq(Entry(Owners, Message))] /\ queue[h] \in Queues
        /\ dpc[c] = "copied" /\ QueueProper(queue[h])
    BY <1>0, <1>4, QueueTypes DEF DrainSettle, TypeInv, TypeOK, ChanTypes, MessagesProper
  <2>1. HoldsOne(queue[h], c)
    BY <1>0, <2>0 DEF SlotsHeld, SlotRight
  <2>2. PICK st \in {Published, Cancelled}, m \in Message : Settles(c, st, m)
    BY <1>4, SettleSays
  <2>3. /\ queue'[h] = Settle(queue[h], c, st, m)
        /\ \A s \in Shards \ {h} : queue'[s] = queue[s]
    BY <1>0, <2>0, <2>2 DEF Settles
  <2>4. /\ QueueClaims(queue'[h]) = QueueClaims(queue[h]) \cup Claims(m)
        /\ QueueApart(queue[h]) /\ Claims(m) \cap QueueClaims(queue[h]) = {}
               => QueueApart(queue'[h])
    <3>1. Proper(m) /\ (st # Published => Claims(m) = {}) /\ c \in Owners
      BY <2>2 DEF Settles, Owners
    <3> DEFINE q == queue[h]
               r == Settle(q, c, st, m)
    <3>2. q \in Queues /\ HoldsOne(q, c) /\ QueueProper(q)
      BY <2>0, <2>1
    <3>3. queue'[h] = r
      BY <2>3
    <3> HIDE DEF q
    <3>4. /\ QueueClaims(r) = QueueClaims(q) \cup Claims(m)
          /\ QueueApart(q) /\ Claims(m) \cap QueueClaims(q) = {} => QueueApart(r)
      BY <2>2, <3>1, <3>2, SettleEffect, SMTT(30)
    <3> QED
      BY <3>3, <3>4 DEF q
  <2>5. Progress(c, Claims(m))
    BY <2>2 DEF Settles
  <2>6. Flow(h, Claims(m))
    BY <1>0, <2>3, <2>4, <2>5, DrainFlow
  <2> QED
    BY <1>0, <2>6, FlowKeeps
<1>5. CASE UNCHANGED <<queue, next>>
  BY <1>0, <1>5, QuietKeeps DEF Quiet
<1> QED
  BY <1>1, <1>2, <1>3, <1>4, <1>5 DEF DrainStep, DrainFault, DrainStart, DrainTop, DrainScan,
         DrainRead, DrainCopy, DrainCycleEnd, DrainSwap, DrainAck, chanVars

LEMMA ClaimsStep ==
    ASSUME Inductive, TypeInv', [Next]_vars
    PROVE  ClaimsAreNew' /\ ReceiptsCovered' /\ Accounted' /\ ExactlyOnce'
<1> USE DEF Inductive
<1>1. CASE Kernel \/ UNCHANGED vars
  BY <1>1, KernelFrame, QuietKeeps
     DEF Quiet, vars, storeVars, chanVars, drainVars, writerVars, superVars
<1>2. CASE \E c \in Cpus : DrainStep(c) \/ DrainFault(c)
  BY <1>2, DrainClaims
<1>3. CASE \E s \in Shards : WriterStep(s) \/ WriterFault(s)
  BY <1>3, WriterCarries, WriterFlow, FlowKeeps
<1>4. CASE SuperInside
  <2>0. /\ UNCHANGED <<batch, pending, receipts, quarantined, dropped, next, coverage>>
        /\ phase # "down" /\ ShardSeq[smark + 1] \in Shards /\ Supervisor \in Owners
    BY <1>4, SuperFrame, Addressed DEF storeVars, writerVars, drainVars, Owners
  <2>1. CASE UNCHANGED queue
    BY <2>0, <2>1, QuietKeeps DEF Quiet
  <2>2. CASE queue' = [queue EXCEPT ![ShardSeq[smark + 1]] =
                  Send(queue[ShardSeq[smark + 1]], Supervisor, Control("barrier", Supervisor))]
    BY <2>0, <2>2, QuietQueue, QuietKeeps
  <2>3. CASE FlushSend
    BY <2>1, <2>2, <2>3 DEF FlushSend
  <2>4. CASE Ready \/ BeginStop \/ JoinDrains \/ FlushAck \/ CloseQueues
    BY <2>1, <2>4 DEF Ready, BeginStop, JoinDrains, FlushAck, CloseQueues, chanVars
  <2> QED
    BY <1>4, <2>3, <2>4 DEF SuperInside
<1>5. CASE Start \/ Exit
  <2>0. next' \in [Cpus -> Nat \ {0}]
    BY DEF TypeInv, TypeOK, DrainTypes
  <2>1. /\ \A s \in Shards : queue'[s] = <<>> /\ batch'[s] = <<>> /\ pending'[s] = {}
        /\ \A c \in Cpus : next'[c] = 1
    <3>1. CASE Start
      BY <3>1 DEF Start, DownIsEmpty
    <3>2. CASE Exit
      BY <3>2 DEF Exit, DownIsEmpty
    <3> QED
      BY <1>5, <3>1, <3>2
  <2>2. \A s \in Shards : /\ Claimed(s)' = {} /\ Held(s)' = receipts'[s]
                          /\ Single(s)'
    BY <2>1, QueueEmpty, BatchEmpty DEF Claimed, Held, Single
  <2>3. \A s \in Shards : receipts'[s] \subseteq receipts[s]
    BY <1>5 DEF Start, OpenShards, Exit, storeVars
  <2>4. ClaimsAreNew'
    BY <2>2 DEF ClaimsAreNew
  <2>5. ReceiptsCovered'
    <3>1. CASE Exit
      BY <3>1 DEF Exit, ReceiptsCovered
    <3>2. CASE Start
      <4>1. PICK bad \in SUBSET Shards : OpenShards(bad)
        BY <3>2 DEF Start
      <4>2. \A s \in Shards : \A k \in receipts'[s] : k \in coverage'
        BY <4>1 DEF OpenShards
      <4> QED
        BY <4>2 DEF ReceiptsCovered
    <3> QED
      BY <1>5, <3>1, <3>2
  <2>6. Accounted'
    <3>1. \A c \in Cpus : Passed(c)' = {}
      BY <2>1, NothingBefore DEF Passed
    <3> QED
      BY <3>1 DEF Accounted
  <2>7. ExactlyOnce'
    BY <2>2, <2>3 DEF ExactlyOnce, Held
  <2> QED
    BY <2>4, <2>5, <2>6, <2>7
<1> QED
  BY <1>1, <1>2, <1>3, <1>4, <1>5, StepCases

(***************************************************************************)
(* What a database says.                                                   *)
(***************************************************************************)
\* What a step does to the database of s: nothing, a transaction of keys that
\* the shard claimed and had no receipt for, a deletion, or a quarantine.
Writes(s, st, gs) ==
    /\ st \cap gs = {} /\ (st \cup gs) \cap receipts[s] = {}
    /\ st \cup gs \subseteq Claimed(s)
    /\ rows'[s] = rows[s] \cup st /\ lost'[s] = lost[s] \cup gs
    /\ receipts'[s] = receipts[s] \cup st \cup gs
    /\ retired'[s] = retired[s] /\ quarantined' = quarantined

Deletes(s) ==
    /\ receipts'[s] = receipts[s] /\ quarantined' = quarantined
    /\ \E old \in SUBSET (rows[s] \cup lost[s]) :
         /\ rows'[s] = rows[s] \ old /\ lost'[s] = lost[s] \ old
         /\ retired'[s] = retired[s] \cup old

Clears(s) ==
    /\ rows'[s] = {} /\ lost'[s] = {} /\ retired'[s] = {} /\ receipts'[s] = {}
    /\ quarantined \cup receipts[s] \subseteq quarantined'

LEMMA WriterStores ==
    ASSUME TypeInv, MessagesProper, ExactlyOnce, NEW s \in Shards,
           WriterStep(s) \/ WriterFault(s)
    PROVE  \/ UNCHANGED storeVars
           \/ \E st, gs \in SUBSET Key : Writes(s, st, gs)
           \/ Deletes(s) \/ Clears(s)
<1> DEFINE b == batch[s]
<1>0. /\ rows \in [Shards -> SUBSET Key] /\ lost \in [Shards -> SUBSET Key]
      /\ receipts \in [Shards -> SUBSET Key] /\ retired \in [Shards -> SUBSET Key]
      /\ pending[s] \subseteq Key /\ b \in Seq(Message) /\ BatchProper(b) /\ Single(s)
  BY QueueTypes DEF TypeInv, TypeOK, StoreTypes, WriterTypes, MessagesProper, ExactlyOnce
<1>1. /\ BatchClaims(b) \subseteq Key /\ BatchClaims(b) = BatchStores(b) \cup BatchGaps(b)
      /\ BatchStores(b) \cap BatchGaps(b) = {}
  BY <1>0, BatchSplit DEF Single
<1>2. /\ pending[s] \cap receipts[s] = {} /\ BatchClaims(b) \cap receipts[s] = {}
      /\ pending[s] \subseteq Claimed(s) /\ BatchClaims(b) \subseteq Claimed(s)
  BY <1>0 DEF Single, Claimed
<1>3. ASSUME NEW st \in SUBSET Key, NEW gs \in SUBSET Key, st \cap gs = {},
             st \cup gs \subseteq Claimed(s), (st \cup gs) \cap receipts[s] = {},
             Record(s, st, gs)
      PROVE  Writes(s, st, gs)
  BY <1>0, <1>3 DEF Record, Writes
<1>4. ASSUME NEW x, Quarantine(s, x)
      PROVE  Clears(s)
  BY <1>0, <1>4 DEF Quarantine, Clears
<1>5. CASE GapsCommitted(s)
  <2>1. Record(s, {}, pending[s])
    BY <1>5 DEF GapsCommitted
  <2>2. Writes(s, {}, pending[s])
    BY <1>0, <1>2, <1>3, <2>1
  <2> QED
    BY <1>0, <2>2
<1>6. CASE RowsCommitted(s)
  <2>1. Record(s, BatchStores(b), BatchGaps(b))
    BY <1>6 DEF RowsCommitted
  <2>2. BatchStores(b) \in SUBSET Key /\ BatchGaps(b) \in SUBSET Key
    BY <1>1
  <2>3. Writes(s, BatchStores(b), BatchGaps(b))
    BY <1>1, <1>2, <1>3, <2>1, <2>2
  <2> QED
    BY <2>2, <2>3
<1>7. CASE GapsFatal(s)
  <2>1. AfterFatal(s, {}, pending[s])
    BY <1>7 DEF GapsFatal
  <2>2. Record(s, {}, {}) => Writes(s, {}, {})
    BY <1>3
  <2>3. Record(s, {}, pending[s]) => Writes(s, {}, pending[s])
    BY <1>0, <1>2, <1>3
  <2> QED
    BY <1>0, <1>4, <2>1, <2>2, <2>3 DEF AfterFatal
<1>8. CASE RowsFatal(s)
  <2>1. AfterFatal(s, BatchStores(b), BatchGaps(b))
    BY <1>8 DEF RowsFatal
  <2>2. Record(s, {}, {}) => Writes(s, {}, {})
    BY <1>3
  <2>3. BatchStores(b) \in SUBSET Key /\ BatchGaps(b) \in SUBSET Key
    BY <1>1
  <2>4. Record(s, BatchStores(b), BatchGaps(b)) => Writes(s, BatchStores(b), BatchGaps(b))
    BY <1>1, <1>2, <1>3, <2>3
  <2> QED
    BY <1>4, <2>1, <2>2, <2>3, <2>4 DEF AfterFatal
<1>9. CASE GapsCorrupt(s) \/ RowsCorrupt(s) \/ RetainCorrupt(s)
  BY <1>4, <1>9 DEF GapsCorrupt, RowsCorrupt, RetainCorrupt
<1>10. RetainRows(s) => Deletes(s)
  BY <1>0 DEF RetainRows, DeleteEvents, Deletes
<1>12. CASE RetainDone(s) \/ RetainRefused(s) \/ RetainFatal(s)
  BY <1>4, <1>10, <1>12 DEF RetainDone, RetainRefused, RetainFatal
<1>11. CASE UNCHANGED storeVars
  BY <1>11
<1> QED
  BY <1>5, <1>6, <1>7, <1>8, <1>9, <1>11, <1>12 DEF WriterStep, WriterFault, SkipCancelled,
         PopFirst, PopMore, CloseBatch, BarrierReached, DrainQueue, WriterExit,
         GapsRefused, RowsRefused, RequestRetain

LEMMA HonestStep ==
    ASSUME TypeInv, MessagesProper, ExactlyOnce, HonestRecord, [Next]_vars
    PROVE  HonestRecord'
<1>1. CASE UNCHANGED storeVars
  BY <1>1 DEF HonestRecord, storeVars
<1>2. ASSUME NEW s \in Shards, WriterStep(s) \/ WriterFault(s)
      PROVE  HonestRecord'
  <2> DEFINE H(t) == /\ receipts'[t] = rows'[t] \cup lost'[t] \cup retired'[t]
                     /\ rows'[t] \cap lost'[t] = {}
                     /\ retired'[t] \cap (rows'[t] \cup lost'[t]) = {}
  <2>1. \A t \in Shards \ {s} : H(t)
    BY <1>2, WriterFrame DEF HonestRecord
  <2>2. CASE \E st, gs \in SUBSET Key : Writes(s, st, gs)
    <3>1. PICK st, gs \in SUBSET Key : Writes(s, st, gs)
      BY <2>2
    <3>2. H(s)
      BY <3>1 DEF HonestRecord, Writes
    <3> QED
      BY <2>1, <3>2 DEF HonestRecord
  <2>3. CASE Deletes(s)
    <3>1. H(s)
      BY <2>3 DEF HonestRecord, Deletes
    <3> QED
      BY <2>1, <3>1 DEF HonestRecord
  <2>4. CASE Clears(s)
    <3>1. H(s)
      BY <2>4 DEF Clears
    <3> QED
      BY <2>1, <3>1 DEF HonestRecord
  <2> QED
    BY <1>1, <1>2, <2>2, <2>3, <2>4, WriterStores
<1>3. CASE Start
  BY <1>3 DEF Start, OpenShards, HonestRecord
<1> QED
  BY <1>1, <1>2, <1>3, StepCases, KernelFrame, DrainFrame, SuperFrame DEF Exit, vars

(***************************************************************************)
(* The invariant, and what follows from it.                                *)
(***************************************************************************)
LEMMA InductiveInit == Init => Inductive
<1> SUFFICES ASSUME Init PROVE Inductive
  OBVIOUS
<1>1. TypeInv
  BY TypeInit
<1>2. PassedAssigned /\ VerdictStands
  BY SMTT(30) DEF Init, PassedAssigned, VerdictStands, Upheld, Handling
<1>3. SlotsHeld /\ MessagesProper /\ WriterHolds
  BY SMTT(30) DEF Init, SlotsHeld, SlotRight, Holds, MessagesProper, QueueProper, BatchProper,
         WriterHolds
<1>4. \A s \in Shards : /\ queue[s] = <<>> /\ batch[s] = <<>> /\ pending[s] = {}
                        /\ receipts[s] = {}
  BY DEF Init
<1>5. \A s \in Shards : Claimed(s) = {} /\ Held(s) = {} /\ Single(s)
  BY <1>4, QueueEmpty, BatchEmpty DEF Claimed, Held, Single
<1>6. DownIsEmpty /\ ClaimsAreNew /\ ReceiptsCovered
  BY <1>5 DEF Init, DownIsEmpty, ClaimsAreNew, ReceiptsCovered
<1>7. Accounted /\ ExactlyOnce
  <2>1. \A c \in Cpus : next[c] = 1
    BY DEF Init
  <2>2. \A c \in Cpus : Passed(c) = {}
    BY <2>1, NothingBefore DEF Passed
  <2> QED
    BY <1>5, <2>2 DEF Accounted, ExactlyOnce
<1>8. HonestRecord
  BY DEF Init, HonestRecord
<1> QED
  BY <1>1, <1>2, <1>3, <1>6, <1>7, <1>8 DEF Inductive

LEMMA InductiveNext == Inductive /\ [Next]_vars => Inductive'
<1> SUFFICES ASSUME Inductive, [Next]_vars PROVE Inductive'
  OBVIOUS
<1>1. TypeInv'
  BY TypeNext DEF Inductive
<1>2. PassedAssigned' /\ VerdictStands' /\ DownIsEmpty' /\ WriterHolds'
  BY PassedAssignedStep, VerdictStep, DownStep, WriterHoldsStep DEF Inductive
<1>3. SlotsHeld' /\ MessagesProper'
  BY SlotsHeldStep, MessagesProperStep DEF Inductive
<1>4. ClaimsAreNew' /\ ReceiptsCovered' /\ Accounted' /\ ExactlyOnce'
  BY <1>1, ClaimsStep
<1>5. HonestRecord'
  BY HonestStep DEF Inductive
<1> QED
  BY <1>1, <1>2, <1>3, <1>4, <1>5 DEF Inductive

\* The strengthening that the theorems below share holds in every reachable
\* state, for every number of CPUs and shards, every queue and ring capacity,
\* batch size and stripe length, and every number of faults.
THEOREM InductiveHolds == Spec => []Inductive
BY InductiveInit, InductiveNext, PTL DEF Spec

\* No silent loss: whatever a drain has moved past is on record, on its way to a
\* writer, or remembered as a loss (kmes.rs drain, writer.rs commit_batch).
THEOREM NoSilentLoss == Spec => []Accounted
<1>1. Inductive => Accounted
  BY DEF Inductive
<1> QED
  BY <1>1, InductiveHolds, PTL

\* No sequence has two claims to a record, in any shards or stages, whatever
\* was lapped, refused, restarted or replayed (reconcile.rs observe, shard.rs
\* commit).
THEOREM RecordedOnce == Spec => []ExactlyOnce
<1>1. Inductive => ExactlyOnce
  BY DEF Inductive
<1> QED
  BY <1>1, InductiveHolds, PTL

\* Receipts say exactly what rows said when they were written (shard.rs commit,
\* commit_gaps, delete_events, replace_corrupt).
THEOREM RecordsHonest == Spec => []HonestRecord
<1>1. Inductive => HonestRecord
  BY DEF Inductive
<1> QED
  BY <1>1, InductiveHolds, PTL

\* No event that was overwritten during its copy reaches a writer (kmes.rs, the
\* second read of the tail).
THEOREM NeverTorn == Spec => []NoTornEvent
<1>1. Inductive => NoTornEvent
  BY DEF Inductive, MessagesProper, QueueProper, BatchProper, Proper, NoTornEvent
<1> QED
  BY <1>1, InductiveHolds, PTL

\* No event row is committed to a shard while a loss of it waits to be recorded
\* (writer.rs commit_batch).
THEOREM LossesFirst == Spec => LossFirst
<1>1. Inductive /\ [Next]_vars =>
          [\A s \in Shards : ~(rows'[s] \subseteq rows[s]) => pending[s] = {}]_vars
  <2> SUFFICES ASSUME Inductive, [Next]_vars, NEW t \in Shards, ~(rows'[t] \subseteq rows[t])
               PROVE  pending[t] = {}
    OBVIOUS
  <2>0. rows \in [Shards -> SUBSET Key]
    BY DEF Inductive, TypeInv, TypeOK, StoreTypes
  <2>1. ~UNCHANGED storeVars /\ ~Start
    BY <2>0 DEF storeVars, Start, OpenShards
  <2>2. PICK s \in Shards : WriterStep(s) \/ WriterFault(s)
    BY <2>1, StepCases, KernelFrame, DrainFrame, SuperFrame DEF Exit, vars
  <2>3. s = t
    BY <2>2, WriterFrame DEF Inductive
  <2>4. RowsCommitted(t) \/ RowsFatal(t)
    <3>1. \A x : ~Record(t, {}, x) /\ ~Quarantine(t, x)
      BY <2>0 DEF Record, Quarantine
    <3>2. ~RetainRows(t)
      BY <2>0 DEF RetainRows, DeleteEvents
    <3>3. ~AfterFatal(t, {}, pending[t])
      BY <3>1 DEF AfterFatal
    <3> QED
      BY <2>1, <2>2, <2>3, <3>1, <3>2, <3>3 DEF WriterStep, WriterFault, SkipCancelled,
         PopFirst, PopMore, CloseBatch, BarrierReached, DrainQueue, WriterExit,
         GapsRefused, RowsRefused, RetainRefused, RetainFatal, RequestRetain,
         RetainDone, GapsCommitted, GapsFatal, GapsCorrupt, RowsCorrupt, RetainCorrupt
  <2> QED
    BY <2>4 DEF RowsCommitted, RowsFatal, Inductive, WriterHolds
<1> QED
  BY <1>1, InductiveHolds, PTL DEF Spec, LossFirst

\* A step takes no receipt back, unless it quarantines the database.
LEMMA ReceiptsStep ==
    ASSUME Inductive, [Next]_vars, NEW t \in Shards
    PROVE  receipts[t] \subseteq receipts'[t] \cup quarantined'
<1>1. CASE UNCHANGED storeVars
  BY <1>1 DEF storeVars
<1>2. CASE Start
  BY <1>2 DEF Start, OpenShards
<1>3. ASSUME NEW s \in Shards, WriterStep(s) \/ WriterFault(s)
      PROVE  receipts[t] \subseteq receipts'[t] \cup quarantined'
  <2>0. receipts \in [Shards -> SUBSET Key]
    BY DEF Inductive, TypeInv, TypeOK, StoreTypes
  <2>1. CASE t # s
    BY <1>3, <2>1, WriterFrame DEF Inductive
  <2>2. CASE t = s
    BY <1>3, <2>0, <2>2 DEF WriterStep, WriterFault, SkipCancelled,
       PopFirst, PopMore, CloseBatch, BarrierReached, DrainQueue, WriterExit,
       GapsRefused, RowsRefused, RetainRefused, RetainFatal, RequestRetain,
       GapsCommitted, RowsCommitted, GapsFatal, RowsFatal, GapsCorrupt, RowsCorrupt,
       RetainCorrupt, RetainDone, RetainRows, DeleteEvents, AfterFatal, Record,
       Quarantine, storeVars
  <2> QED
    BY <2>1, <2>2
<1> QED
  BY <1>1, <1>2, <1>3, StepCases, KernelFrame, DrainFrame, SuperFrame DEF Exit, vars

\* Short of a quarantine no receipt is taken back: not by a deletion, a failed
\* writer, a shutdown or a crash (shard.rs delete_events).
THEOREM ReceiptsStay == Spec => ReceiptsKept
<1>1. Inductive /\ [Next]_vars =>
          [\A s \in Shards : receipts[s] \subseteq receipts'[s] \cup quarantined']_vars
  BY ReceiptsStep
<1> QED
  BY <1>1, InductiveHolds, PTL DEF Spec, ReceiptsKept

(***************************************************************************)
(* Refinement of the ledger.                                               *)
(***************************************************************************)
\* The shards taken together, when one of them changes.
LEMMA OneShard ==
    ASSUME NEW F, NEW G, NEW s \in Shards, \A t \in Shards \ {s} : G[t] = F[t]
    PROVE  UNION {G[t] : t \in Shards} = G[s] \cup UNION {F[t] : t \in Shards \ {s}}
OBVIOUS

\* The records of all shards but s.
Elsewhere(F, s) == UNION {F[t] : t \in Shards \ {s}}

LEMMA RecordsApart ==
    ASSUME ExactlyOnce, HonestRecord, NEW s \in Shards
    PROVE  /\ AllRows = rows[s] \cup Elsewhere(rows, s)
           /\ AllLost = lost[s] \cup Elsewhere(lost, s)
           /\ AllReceipts = receipts[s] \cup Elsewhere(receipts, s)
           /\ rows[s] \cup lost[s] \subseteq receipts[s]
           /\ Elsewhere(rows, s) \cup Elsewhere(lost, s) \subseteq Elsewhere(receipts, s)
           /\ Held(s) \cap Elsewhere(receipts, s) = {}
<1>1. /\ AllRows = rows[s] \cup Elsewhere(rows, s)
      /\ AllLost = lost[s] \cup Elsewhere(lost, s)
      /\ AllReceipts = receipts[s] \cup Elsewhere(receipts, s)
  BY OneShard DEF AllRows, AllLost, AllReceipts, Elsewhere
<1>2. \A t \in Shards : rows[t] \cup lost[t] \subseteq receipts[t]
  BY DEF HonestRecord
<1>3. Elsewhere(rows, s) \cup Elsewhere(lost, s) \subseteq Elsewhere(receipts, s)
  BY <1>2 DEF Elsewhere
<1>4. Held(s) \cap Elsewhere(receipts, s) = {}
  BY DEF ExactlyOnce, Held, Elsewhere
<1> QED
  BY <1>1, <1>2, <1>3, <1>4

LEMMA WriterLedger ==
    ASSUME Inductive, NEW s \in Shards, WriterStep(s) \/ WriterFault(s)
    PROVE  [Ledger!Next]_(Ledger!ledgerVars)
<1> USE DEF Inductive
<1> DEFINE R == Elsewhere(rows, s)
           L == Elsewhere(lost, s)
           C == Elsewhere(receipts, s)
<1>0. head' = head
  BY WriterFrame DEF kernelVars
<1>1. /\ AllRows' = rows'[s] \cup R /\ AllLost' = lost'[s] \cup L
      /\ AllReceipts' = receipts'[s] \cup C
  <2>1. \A t \in Shards \ {s} : /\ rows'[t] = rows[t] /\ lost'[t] = lost[t]
                               /\ receipts'[t] = receipts[t]
    BY WriterFrame
  <2> QED
    BY <2>1, OneShard, SMTT(30) DEF AllRows, AllLost, AllReceipts, Elsewhere
<1>2. /\ AllRows = rows[s] \cup R /\ AllLost = lost[s] \cup L
      /\ AllReceipts = receipts[s] \cup C
      /\ rows[s] \cup lost[s] \subseteq receipts[s]
      /\ R \cup L \subseteq C /\ Held(s) \cap C = {}
  BY RecordsApart
<1>3. Claimed(s) \subseteq Held(s) /\ receipts[s] \subseteq Held(s)
  BY DEF Held
<1> HIDE DEF R, L, C
<1>4. CASE UNCHANGED storeVars
  BY <1>0, <1>4 DEF storeVars, Ledger!ledgerVars, AllRows, AllLost, AllReceipts
<1>5. ASSUME NEW st \in SUBSET Key, NEW gs \in SUBSET Key, Writes(s, st, gs)
      PROVE  Ledger!Append
  <2>1. AllRows \subseteq AllRows' /\ AllLost \subseteq AllLost'
    BY <1>1, <1>2, <1>5 DEF Writes
  <2>2. (st \cup gs) \cap AllReceipts = {}
    BY <1>2, <1>3, <1>5 DEF Writes
  <2>3. AllRows' \ AllRows = st /\ AllLost' \ AllLost = gs
    BY <1>1, <1>2, <1>5, <2>2 DEF Writes
  <2>4. AllReceipts' = AllReceipts \cup st \cup gs /\ st \cap gs = {}
    BY <1>1, <1>2, <1>5 DEF Writes
  <2>5. st \cup gs \subseteq Ledger!Sequences
    <3>1. ASSUME NEW k \in st \cup gs
          PROVE  k \in Ledger!Sequences
      <4>1. k \in Key /\ Behind(k)
        BY <1>5 DEF Writes, ClaimsAreNew
      <4>2. PICK c \in Cpus, n \in Nat \ {0} : k = <<c, n>>
        BY <4>1, SMTT(30) DEF Key
      <4>3. n < next[c] /\ next[c] \in Nat /\ head[c] \in Nat /\ next[c] <= head[c] + 1
        BY <4>1, <4>2 DEF Behind, PassedAssigned, TypeInv, TypeOK, DrainTypes, KernelTypes
      <4>4. k[2] \in 1..head[k[1]]
        BY <4>2, <4>3, SMTT(30)
      <4> QED
        BY <4>2, <4>4 DEF Ledger!Sequences
    <3> QED
      BY <3>1
  <2> QED
    BY <1>0, <1>5, <2>1, <2>2, <2>3, <2>4, <2>5 DEF Ledger!Append, Writes
<1>6. CASE Deletes(s)
  <2>1. AllRows' \subseteq AllRows /\ AllLost' \subseteq AllLost /\ AllReceipts' = AllReceipts
    BY <1>1, <1>2, <1>6 DEF Deletes
  <2> QED
    BY <1>0, <1>6, <2>1 DEF Ledger!Next, Ledger!Retain, Deletes
<1>7. CASE Clears(s)
  <2>1. AllReceipts' = C /\ AllRows' = R /\ AllLost' = L
    BY <1>1, <1>7 DEF Clears
  <2>2. rows[s] \cap C = {} /\ lost[s] \cap C = {}
    BY <1>2, <1>3
  <2>3. R = AllRows \cap C /\ L = AllLost \cap C /\ C \subseteq AllReceipts
    BY <1>2, <2>2
  <2>4. quarantined \cup (AllReceipts \ C) \subseteq quarantined'
    BY <1>2, <1>7 DEF Clears
  <2> QED
    BY <1>0, <2>1, <2>3, <2>4 DEF Ledger!Next, Ledger!Quarantine
<1> QED
  BY <1>4, <1>5, <1>6, <1>7, WriterStores DEF Ledger!Next

LEMMA StartLedger ==
    ASSUME Inductive, Start
    PROVE  Ledger!Quarantine
<1>0. head' = head
  BY DEF Start, kernelVars
<1>1. PICK bad \in SUBSET Shards : OpenShards(bad)
  BY DEF Start
<1>2. /\ AllReceipts' \subseteq AllReceipts
      /\ \A k : k \in AllReceipts' <=> \E s \in Shards \ bad : k \in receipts[s]
  BY <1>1 DEF OpenShards, AllReceipts
<1>3. \A s \in Shards : rows[s] \cup lost[s] \subseteq receipts[s]
  BY DEF Inductive, HonestRecord
<1>4. \A s, t \in Shards : s # t => receipts[s] \cap receipts[t] = {}
  BY DEF Inductive, ExactlyOnce, Held
<1>5. ASSUME NEW k
      PROVE  k \in AllRows' <=> k \in AllRows /\ k \in AllReceipts'
  <2>1. k \in AllRows' <=> \E s \in Shards \ bad : k \in rows[s]
    BY <1>1 DEF OpenShards, AllRows
  <2>2. k \in AllRows <=> \E s \in Shards : k \in rows[s]
    BY DEF AllRows
  <2> QED
    BY <1>2, <1>3, <1>4, <2>1, <2>2
<1>6. ASSUME NEW k
      PROVE  k \in AllLost' <=> k \in AllLost /\ k \in AllReceipts'
  <2>1. k \in AllLost' <=> \E s \in Shards \ bad : k \in lost[s]
    BY <1>1 DEF OpenShards, AllLost
  <2>2. k \in AllLost <=> \E s \in Shards : k \in lost[s]
    BY DEF AllLost
  <2> QED
    BY <1>2, <1>3, <1>4, <2>1, <2>2
<1>7. AllRows' = AllRows \cap AllReceipts' /\ AllLost' = AllLost \cap AllReceipts'
  BY <1>5, <1>6
<1>8. quarantined \cup (AllReceipts \ AllReceipts') \subseteq quarantined'
  BY <1>1, <1>2 DEF OpenShards, AllReceipts
<1> QED
  BY <1>0, <1>2, <1>7, <1>8 DEF Ledger!Quarantine

LEMMA KernelLedger ==
    ASSUME Inductive, Kernel
    PROVE  [Ledger!Next]_(Ledger!ledgerVars)
<1>1. UNCHANGED <<AllRows, AllLost, AllReceipts, quarantined>>
  BY KernelFrame DEF storeVars, AllRows, AllLost, AllReceipts
<1>2. head' = head \/ \E c \in Cpus : head' = [head EXCEPT ![c] = head[c] + 1]
  BY DEF Kernel, Emit, StructuralDrop, Resize
<1> QED
  BY <1>1, <1>2 DEF Ledger!Next, Ledger!Assign, Ledger!ledgerVars

\* The whole event path, threads, faults and restarts included, implements the
\* ledger: every assigned sequence is entered at most once, as stored or as lost,
\* receipts outlive retention, and only a quarantine takes entries out, with
\* their receipts.
THEOREM ImplementsLedger == Spec => LedgerSpec
<1>1. Init => Ledger!Init
  BY SMTT(30) DEF Init, Ledger!Init, AllRows, AllLost, AllReceipts
<1>2. Inductive /\ [Next]_vars => [Ledger!Next]_(Ledger!ledgerVars)
  <2> SUFFICES ASSUME Inductive, [Next]_vars PROVE [Ledger!Next]_(Ledger!ledgerVars)
    OBVIOUS
  <2>1. CASE Kernel
    BY <2>1, KernelLedger
  <2>2. CASE Start
    BY <2>2, StartLedger DEF Ledger!Next
  <2>3. CASE \E s \in Shards : WriterStep(s) \/ WriterFault(s)
    BY <2>3, WriterLedger
  <2>4. CASE UNCHANGED <<storeVars, head>>
    BY <2>4 DEF storeVars, AllRows, AllLost, AllReceipts, Ledger!ledgerVars
  <2> QED
    BY <2>1, <2>2, <2>3, <2>4, StepCases, DrainFrame, SuperFrame DEF Exit, vars, kernelVars
<1> QED
  BY <1>1, <1>2, InductiveHolds, PTL DEF Spec, LedgerSpec, Ledger!Spec
=============================================================================
