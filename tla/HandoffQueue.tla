---------------------------- MODULE HandoffQueue ----------------------------
(***************************************************************************)
(* The bounded multi-producer, single-consumer queue between the drains    *)
(* and a shard writer (eventd-core/src/queue.rs), one step per access to   *)
(* an atomic, to a slot's cell or to the wait lock.                        *)
(*                                                                         *)
(* The atomics are read as sequentially consistent; the code's fences pair *)
(* the accesses for which that matters.  Positions do not wrap.  An epoch  *)
(* is only ever compared with one observed earlier, so it is represented   *)
(* by the set of threads whose observation is still current.               *)
(***************************************************************************)
EXTENDS Integers, Sequences, FiniteSets, Functions, ChannelOps

CONSTANTS
    Producers,
    Patient,        \* producers that call reserve; the others try_reserve
    Consumer,
    Closer,         \* a thread that closes the queue
    Slots,          \* a power of two, at least two
    Bytes,          \* Bytes[p]: the charge of each item of p
    Loads,          \* byte capacities, each with the calls made under it
    NoItem

ASSUME QueueAssumption ==
    /\ Slots \in Nat /\ Slots >= 2
    /\ IsFiniteSet(Producers)
    /\ Patient \subseteq Producers
    /\ Bytes \in [Producers -> Nat \ {0}]
    /\ Loads \subseteq [capacity : Nat, calls : [Producers -> Nat]]
    /\ \A l \in Loads, p \in Producers : Bytes[p] <= l.capacity
    /\ Consumer \notin Producers /\ Closer \notin Producers /\ Consumer # Closer

Threads == Producers \cup {Consumer, Closer}
Items == UNION {{p} \X (1..l.calls[p]) : p \in Producers, l \in Loads}

VARIABLES
    \* Inner
    enqueue, dequeue, bytesUsed, closed, waiters,
    load,       \* byte_capacity, and bound: the reservations of each producer
    lock,       \* wait_lock is held
    sleeping,   \* threads in Condvar::wait
    \* slots
    sequence, slotBytes, cancelled, value,
    \* threads
    pc, ret,    \* where a thread is, and where it returns from notify_change
    current,    \* threads whose observed epoch is still the epoch
    position,   \* position[p]: the position a producer loaded or claimed
    calls,      \* reservations a producer has attempted
    carried,    \* what the consumer read from the slot it took
    \* history
    received,   \* items the consumer has received
    owner       \* owner[i]: the producer that last claimed slot i

sharedVars == <<enqueue, dequeue, bytesUsed, closed, load>>
waitVars   == <<waiters, lock, sleeping, current>>
slotVars   == <<sequence, slotBytes, cancelled, value, owner>>
localVars  == <<position, calls, carried, received>>
vars == <<sharedVars, waitVars, slotVars, pc, ret, localVars>>

SlotOf(n) == n % Slots

Init ==
    /\ enqueue = 0 /\ dequeue = 0 /\ bytesUsed = 0 /\ closed = FALSE
    /\ load \in Loads
    /\ waiters = 0 /\ lock = FALSE /\ sleeping = {} /\ current = {}
    /\ sequence = [i \in 0..(Slots - 1) |-> i]
    /\ slotBytes = [i \in 0..(Slots - 1) |-> 0]
    /\ cancelled = [i \in 0..(Slots - 1) |-> FALSE]
    /\ value = [i \in 0..(Slots - 1) |-> NoItem]
    /\ owner = [i \in 0..(Slots - 1) |-> Closer]
    /\ pc = [t \in Threads |-> CASE t = Consumer -> "observe"
                                 [] t = Closer -> "close"
                                 [] OTHER -> "call"]
    /\ ret = [t \in Threads |-> "none"]
    /\ position = [p \in Producers |-> 0]
    /\ calls = [p \in Producers |-> 0]
    /\ carried = [bytes |-> 0, item |-> NoItem]
    /\ received = <<>>

Goto(t, label) == pc' = [pc EXCEPT ![t] = label]
\* notify_change, returning to label.
Notify(t, label) == Goto(t, "bump") /\ ret' = [ret EXCEPT ![t] = label]

-----------------------------------------------------------------------------
(* reserve, try_reserve *)

Call(p) ==
    /\ pc[p] = "call" /\ calls[p] < load.calls[p]
    /\ calls' = [calls EXCEPT ![p] = @ + 1]
    /\ Goto(p, IF p \in Patient THEN "observe" ELSE "check")
    /\ UNCHANGED <<sharedVars, waitVars, slotVars, ret, position, carried, received>>

\* The epoch is loaded before the attempt (also by pop_wait).
Observe(t) ==
    /\ pc[t] = "observe"
    /\ current' = current \cup {t}
    /\ Goto(t, IF t = Consumer THEN "pop" ELSE "check")
    /\ UNCHANGED <<sharedVars, waiters, lock, sleeping, slotVars, ret, localVars>>

CheckClosed(p) ==
    /\ pc[p] = "check"
    /\ Goto(p, IF closed THEN "refused" ELSE "charge")
    /\ UNCHANGED <<sharedVars, waitVars, slotVars, ret, localVars>>

\* reserve sleeps on Full, try_reserve returns it.
Full(p) == IF p \in Patient THEN "park" ELSE "call"

Charge(p) ==
    /\ pc[p] = "charge"
    /\ IF bytesUsed + Bytes[p] <= load.capacity
       THEN bytesUsed' = bytesUsed + Bytes[p] /\ Goto(p, "load")
       ELSE Goto(p, Full(p)) /\ UNCHANGED bytesUsed
    /\ UNCHANGED <<load, enqueue, dequeue, closed, waitVars, slotVars, ret, localVars>>

LoadPosition(p) ==
    /\ pc[p] = "load"
    /\ position' = [position EXCEPT ![p] = enqueue]
    /\ Goto(p, "inspect")
    /\ UNCHANGED <<sharedVars, waitVars, slotVars, ret, calls, carried, received>>

\* Mutation: an occupied slot is taken for a free one.
InspectCarelessly(p) ==
    LET s == sequence[SlotOf(position[p])]
    IN  /\ pc[p] = "inspect"
        /\ Goto(p, IF s <= position[p] THEN "swap" ELSE "load")
        /\ UNCHANGED <<sharedVars, waitVars, slotVars, ret, localVars>>

Inspect(p) ==
    LET s == sequence[SlotOf(position[p])]
    IN  /\ pc[p] = "inspect"
        /\ Goto(p, CASE s = position[p] -> "swap"
                     [] s < position[p] -> "uncharge"
                     [] s > position[p] -> "load")
        /\ UNCHANGED <<sharedVars, waitVars, slotVars, ret, localVars>>

\* Mutation: the bytes of a failed attempt stay charged.
UnchargeNothing(p) ==
    /\ pc[p] = "uncharge"
    /\ Goto(p, Full(p))
    /\ UNCHANGED <<sharedVars, waitVars, slotVars, ret, localVars>>

\* The slot is occupied: the bytes go back, and nobody is told.
Uncharge(p) ==
    /\ pc[p] = "uncharge"
    /\ bytesUsed' = bytesUsed - Bytes[p]
    /\ Goto(p, Full(p))
    /\ UNCHANGED <<load, enqueue, dequeue, closed, waitVars, slotVars, ret, localVars>>

\* compare_exchange_weak, which may also fail for no reason.
Swap(p) ==
    /\ pc[p] = "swap"
    /\ \/ /\ enqueue = position[p]
          /\ enqueue' = enqueue + 1
          /\ owner' = [owner EXCEPT ![SlotOf(position[p])] = p]
          /\ Goto(p, "recheck")
       \/ Goto(p, "load") /\ UNCHANGED <<enqueue, owner>>
    /\ UNCHANGED <<load, dequeue, bytesUsed, closed, waitVars, sequence, slotBytes,
                   cancelled, value, ret, localVars>>

\* Mutation: closing is not looked for again.
RecheckNothing(p) ==
    /\ pc[p] = "recheck"
    /\ Goto(p, "permit")
    /\ UNCHANGED <<sharedVars, waitVars, slotVars, ret, localVars>>

\* Closing may have raced the claim: the permit is not handed out then.
Recheck(p) ==
    /\ pc[p] = "recheck"
    /\ Goto(p, IF closed THEN "cancel" ELSE "permit")
    /\ UNCHANGED <<sharedVars, waitVars, slotVars, ret, localVars>>

\* The holder publishes, or drops the permit.
UsePermit(p) ==
    /\ pc[p] = "permit"
    /\ \/ Goto(p, "write") \/ Goto(p, "cancel")
    /\ UNCHANGED <<sharedVars, waitVars, slotVars, ret, localVars>>

-----------------------------------------------------------------------------
(* Permit::publish and Permit::drop *)

WriteSlot(p) ==
    LET i == SlotOf(position[p])
    IN  /\ pc[p] = "write"
        /\ value' = [value EXCEPT ![i] = <<p, calls[p]>>]
        /\ slotBytes' = [slotBytes EXCEPT ![i] = Bytes[p]]
        /\ cancelled' = [cancelled EXCEPT ![i] = FALSE]
        /\ Goto(p, "publish")
        /\ UNCHANGED <<sharedVars, waitVars, sequence, owner, ret, localVars>>

CancelSlot(p) ==
    LET i == SlotOf(position[p])
    IN  /\ pc[p] = "cancel"
        /\ slotBytes' = [slotBytes EXCEPT ![i] = 0]
        /\ cancelled' = [cancelled EXCEPT ![i] = TRUE]
        /\ Goto(p, "refund")
        /\ UNCHANGED <<sharedVars, waitVars, sequence, value, owner, ret, localVars>>

Refund(p) ==
    /\ pc[p] = "refund"
    /\ bytesUsed' = bytesUsed - Bytes[p]
    /\ Goto(p, "publish")
    /\ UNCHANGED <<load, enqueue, dequeue, closed, waitVars, slotVars, ret, localVars>>

\* Mutation: the consumer is not told of a settled slot.
StoreQuietly(p) ==
    /\ pc[p] = "publish"
    /\ sequence' = [sequence EXCEPT ![SlotOf(position[p])] = position[p] + 1]
    /\ Goto(p, "call")
    /\ UNCHANGED <<sharedVars, waitVars, slotBytes, cancelled, value, owner, ret,
                   localVars>>

StoreSequence(p) ==
    /\ pc[p] = "publish"
    /\ sequence' = [sequence EXCEPT ![SlotOf(position[p])] = position[p] + 1]
    /\ Notify(p, "call")
    /\ UNCHANGED <<sharedVars, waitVars, slotBytes, cancelled, value, owner, localVars>>

-----------------------------------------------------------------------------
(* pop_wait, over and over *)

Pop ==
    LET s == sequence[SlotOf(dequeue)]
    IN  /\ pc[Consumer] = "pop"
        /\ s <= dequeue + 1
        /\ Goto(Consumer, IF s = dequeue + 1 THEN "take" ELSE "empty")
        /\ UNCHANGED <<sharedVars, waitVars, slotVars, ret, localVars>>

TakeSlot ==
    /\ pc[Consumer] = "take"
    /\ dequeue' = dequeue + 1
    /\ Goto(Consumer, "read")
    /\ UNCHANGED <<load, enqueue, bytesUsed, closed, waitVars, slotVars, ret, localVars>>

ReadSlot ==
    LET i == SlotOf(dequeue - 1)
    IN  /\ pc[Consumer] = "read"
        /\ carried' = [bytes |-> slotBytes[i],
                       item |-> IF cancelled[i] THEN NoItem ELSE value[i]]
        /\ received' = IF cancelled[i] THEN received ELSE Append(received, value[i])
        /\ Goto(Consumer, "free")
        /\ UNCHANGED <<sharedVars, waitVars, slotVars, ret, position, calls>>

FreeSlot ==
    /\ pc[Consumer] = "free"
    /\ sequence' = [sequence EXCEPT ![SlotOf(dequeue - 1)] = dequeue - 1 + Slots]
    /\ Goto(Consumer, "release")
    /\ UNCHANGED <<sharedVars, waitVars, slotBytes, cancelled, value, owner, ret,
                   localVars>>

\* An item is returned, and asked for again; a cancelled slot is passed over.
ReleaseBytes ==
    /\ pc[Consumer] = "release"
    /\ bytesUsed' = bytesUsed - carried.bytes
    /\ Notify(Consumer, IF carried.item = NoItem THEN "pop" ELSE "observe")
    /\ carried' = [bytes |-> 0, item |-> NoItem]
    /\ UNCHANGED <<load, enqueue, dequeue, closed, waitVars, slotVars, position, calls,
                   received>>

Empty ==
    /\ pc[Consumer] = "empty"
    /\ Goto(Consumer, IF closed THEN "drained" ELSE "park")
    /\ UNCHANGED <<sharedVars, waitVars, slotVars, ret, localVars>>

IsDrained ==
    /\ pc[Consumer] = "drained"
    /\ Goto(Consumer, IF dequeue = enqueue THEN "end" ELSE "park")
    /\ UNCHANGED <<sharedVars, waitVars, slotVars, ret, localVars>>

\* Mutation: sleepers are not told that the queue closed.
CloseQuietly ==
    /\ pc[Closer] = "close"
    /\ closed' = TRUE
    /\ Goto(Closer, "end")
    /\ UNCHANGED <<load, enqueue, dequeue, bytesUsed, waitVars, slotVars, ret, localVars>>

CloseQueue ==
    /\ pc[Closer] = "close"
    /\ closed' = TRUE
    /\ Notify(Closer, "end")
    /\ UNCHANGED <<load, enqueue, dequeue, bytesUsed, waitVars, slotVars, localVars>>

-----------------------------------------------------------------------------
(* notify_change and park_until_change *)

Bump(t) ==
    /\ pc[t] = "bump"
    /\ current' = {}
    /\ Goto(t, "waiters")
    /\ UNCHANGED <<sharedVars, waiters, lock, sleeping, slotVars, ret, localVars>>

LoadWaiters(t) ==
    /\ pc[t] = "waiters"
    /\ IF waiters # 0 THEN Goto(t, "wake") ELSE Goto(t, ret[t])
    /\ UNCHANGED <<sharedVars, waitVars, slotVars, ret, localVars>>

\* notify_all under the lock; the sleepers then take it one by one.
Wake(t) ==
    /\ pc[t] = "wake" /\ ~lock
    /\ pc' = [u \in Threads |-> IF u \in sleeping THEN "woken"
                                ELSE IF u = t THEN ret[t] ELSE pc[u]]
    /\ sleeping' = {}
    /\ UNCHANGED <<sharedVars, waiters, lock, current, slotVars, ret, localVars>>

Park(t) ==
    /\ pc[t] = "park" /\ ~lock
    /\ lock' = TRUE
    /\ waiters' = waiters + 1
    /\ Goto(t, "compare")
    /\ UNCHANGED <<sharedVars, sleeping, current, slotVars, ret, localVars>>

\* Mutation: the epoch is not compared under the lock.
CompareNothing(t) ==
    /\ pc[t] = "compare"
    /\ lock' = FALSE
    /\ sleeping' = sleeping \cup {t}
    /\ Goto(t, "asleep")
    /\ UNCHANGED <<sharedVars, waiters, current, slotVars, ret, localVars>>

Compare(t) ==
    /\ pc[t] = "compare"
    /\ lock' = FALSE
    /\ IF t \in current
       THEN /\ sleeping' = sleeping \cup {t}
            /\ Goto(t, "asleep")
            /\ UNCHANGED waiters
       ELSE /\ waiters' = waiters - 1
            /\ Goto(t, "observe")
            /\ UNCHANGED sleeping
    /\ UNCHANGED <<sharedVars, current, slotVars, ret, localVars>>

Woken(t) ==
    /\ pc[t] = "woken" /\ ~lock
    /\ waiters' = waiters - 1
    /\ Goto(t, "observe")
    /\ UNCHANGED <<sharedVars, lock, sleeping, current, slotVars, ret, localVars>>

Wait(t) == \/ Observe(t) \/ Bump(t) \/ LoadWaiters(t) \/ Wake(t)
           \/ Park(t) \/ Compare(t) \/ Woken(t)

Produce(p) ==
    \/ Call(p) \/ CheckClosed(p) \/ Charge(p) \/ LoadPosition(p) \/ Inspect(p)
    \/ Uncharge(p) \/ Swap(p) \/ Recheck(p) \/ UsePermit(p)
    \/ WriteSlot(p) \/ CancelSlot(p) \/ Refund(p) \/ StoreSequence(p)

Consume == \/ Pop \/ TakeSlot \/ ReadSlot \/ FreeSlot \/ ReleaseBytes
           \/ Empty \/ IsDrained

\* The queue is closed, drained and asked for nothing more.
Quiet == /\ pc[Consumer] = "end" /\ pc[Closer] = "end"
         /\ \A p \in Producers : pc[p] \in {"call", "refused"}
         /\ UNCHANGED vars

Next == \/ \E p \in Producers : Produce(p)
        \/ Consume \/ CloseQueue
        \/ \E t \in Threads : Wait(t)
        \/ Quiet

Spec == Init /\ [][Next]_vars

\* Threads run; a weak exchange does not fail forever; nobody need close.
Fairness ==
    /\ \A p \in Producers : WF_vars(Produce(p) /\ pc[p] # "call") /\ WF_vars(Wait(p))
    /\ \A p \in Producers : SF_vars(Swap(p) /\ enqueue' # enqueue)
    /\ WF_vars(Consume) /\ WF_vars(Wait(Consumer)) /\ WF_vars(Wait(Closer))

FairSpec == Spec /\ Fairness

-----------------------------------------------------------------------------
\* A producer owns the slot it claimed until it stores its sequence.
Owning == {"recheck", "permit", "write", "cancel", "refund", "publish"}

\* NO SHARED SLOT.  The cell of a slot is never open to two threads at once:
\* not to two producers, and not to a producer and the consumer.
ExclusiveSlots ==
    \A p \in Producers : pc[p] \in Owning =>
        /\ \A q \in Producers \ {p} : pc[q] \in Owning =>
               SlotOf(position[p]) # SlotOf(position[q])
        /\ pc[Consumer] \in {"read", "free"} =>
               SlotOf(position[p]) # SlotOf(dequeue - 1)

\* The bytes of p are counted, by p itself.
Charged(p) ==
    \/ pc[p] \in {"load", "inspect", "uncharge", "swap", "recheck", "permit",
                  "write", "cancel", "refund"}
    \/ pc[p] = "publish" /\ ~cancelled[SlotOf(position[p])]

\* The oldest position whose slot the consumer has not read.
Oldest == IF pc[Consumer] = "read" THEN dequeue - 1 ELSE dequeue

Settled(n) == sequence[SlotOf(n)] = n + 1

\* The bytes each producer holds, and those that lie published at each position.
Holdings == [p \in Producers |-> IF Charged(p) THEN Bytes[p] ELSE 0]
Lying == [n \in Oldest..(enqueue - 1) |->
             IF Settled(n) THEN slotBytes[SlotOf(n)] ELSE 0]

\* BYTES ADD UP.  What is charged is exactly what producers hold, what lies
\* published, and what the consumer has not released yet; so the bound holds
\* and nothing leaks, whichever way a reservation ends.
BytesAddUp ==
    /\ bytesUsed <= load.capacity
    /\ bytesUsed = SumFunction(Holdings) + SumFunction(Lying) + carried.bytes

\* The entry of the abstract channel that stands at position n.
Place(n) ==
    LET i == SlotOf(n)
        st == IF ~Settled(n) THEN Reserved
              ELSE IF cancelled[i] THEN Cancelled ELSE Published
    IN  [owner |-> owner[i], state |-> st,
         msg |-> IF st = Published THEN value[i] ELSE NoItem]

Chan == [k \in 1..(enqueue - Oldest) |-> Place(Oldest + k - 1)]

Granted == {p \in Producers : \/ pc[p] \in {"permit", "write"}
                              \/ pc[p] = "publish" /\ ~cancelled[SlotOf(position[p])]}

Channel == INSTANCE BoundedChannel WITH
    Capacity <- Slots,
    chan <- Chan,
    granted <- Granted,
    shut <- closed,
    drained <- pc[Consumer] = "end"

\* IMPLEMENTS THE CHANNEL.  In whatever order the atomics interleave, the queue
\* delivers what was published, once, in claim order, and once closed reports
\* itself drained only when nothing granted is left.
ChannelSpec == Channel!Spec

\* NO WAKE-UP IS LOST.  A producer that waits for room gets its permit, or learns
\* that the queue is closed; a published item reaches the consumer although the
\* consumer may be on its way to sleep; and once close is called, pop_wait reports
\* the queue closed, after every permit that was out has been published or
\* dropped (queue.rs, reserve, publish, close, pop_wait and
\* park_until_change).
NoLostWakeup ==
    /\ \A p \in Patient :
          (pc[p] = "observe") ~> (pc[p] \in {"permit", "cancel", "refused"})
    /\ \A v \in Items :
          (\E n \in 0..(Slots - 1) : value[n] = v /\ pc[v[1]] = "publish"
                                       /\ calls[v[1]] = v[2] /\ ~cancelled[n])
              ~> (\E i \in DOMAIN received : received[i] = v)
    /\ closed ~> (pc[Consumer] = "end")

(***************************************************************************)
(* THE INDUCTIVE INVARIANT behind the safety properties.                   *)
(*                                                                         *)
(* Slots positions from Unfreed on are one turn of the ring: every slot    *)
(* stands for exactly one of them, and its sequence says whether the       *)
(* position is free, claimed or settled.  A claimed one has exactly one    *)
(* owner.                                                                  *)
(***************************************************************************)

Ring == 0..(Slots - 1)

\* notify_change and park_until_change.
Notifying == {"bump", "waiters", "wake"}
Waiting   == {"observe", "park", "compare", "asleep", "woken"}

\* What a thread may be doing, and where its notify_change may return.
LabelsOf(t) ==
    CASE t = Consumer -> {"pop", "take", "read", "free", "release", "empty", "drained",
                          "end"} \cup Notifying \cup Waiting
      [] t = Closer -> {"close", "end"} \cup Notifying
      [] OTHER -> {"call", "check", "charge", "load", "inspect", "uncharge", "swap",
                   "refused"} \cup Owning \cup Notifying \cup Waiting

ReturnsOf(t) == CASE t = Consumer -> {"pop", "observe"}
                  [] t = Closer -> {"end"}
                  [] OTHER -> {"call"}

ThreadTypes ==
    /\ pc \in [Threads -> UNION {LabelsOf(t) : t \in Threads}]
    /\ DOMAIN ret = Threads
    /\ \A t \in Threads : /\ pc[t] \in LabelsOf(t)
                          /\ pc[t] \in Notifying => ret[t] \in ReturnsOf(t)
    /\ sleeping \subseteq {t \in Threads : pc[t] = "asleep"}

\* Every variable that matters to safety has its type.
QueueTypes ==
    /\ enqueue \in Nat /\ dequeue \in Nat /\ bytesUsed \in Int /\ closed \in BOOLEAN
    /\ load \in Loads
    /\ sequence \in [Ring -> Nat] /\ slotBytes \in [Ring -> Nat]
    /\ cancelled \in [Ring -> BOOLEAN] /\ value \in [Ring -> Items \cup {NoItem}]
    /\ owner \in [Ring -> Threads]
    /\ position \in [Producers -> Nat] /\ calls \in [Producers -> Nat]
    /\ carried \in [bytes : Nat, item : Items \cup {NoItem}]
    /\ ThreadTypes

\* The oldest position whose slot the consumer has not given back.
Unfreed == IF pc[Consumer] \in {"read", "free"} THEN dequeue - 1 ELSE dequeue

\* Where the slot of a position stands.
Unclaimed(n) == sequence[SlotOf(n)] = n
Owned(n) == LET p == owner[SlotOf(n)]
            IN  p \in Producers /\ pc[p] \in Owning /\ position[p] = n

\* ONE TURN OF THE RING.  From Unfreed to enqueue the positions are claimed, each
\* settled or with its owner still at work; the rest of the turn is free.
OneTurn ==
    /\ Unfreed \in Nat /\ Unfreed <= enqueue /\ enqueue <= Unfreed + Slots
    /\ \A n \in Unfreed..(enqueue - 1) : Settled(n) \/ (Unclaimed(n) /\ Owned(n))
    /\ \A n \in enqueue..(Unfreed + Slots - 1) : Unclaimed(n)

\* A producer that owns a position owns its slot; one that is about to claim has
\* seen the slot free.
ClaimRight(p) ==
    /\ pc[p] \in Owning =>
          /\ position[p] \in Unfreed..(enqueue - 1)
          /\ Unclaimed(position[p])
          /\ owner[SlotOf(position[p])] = p
    /\ pc[p] \in {"inspect", "swap"} => position[p] <= enqueue
    /\ pc[p] = "swap" /\ position[p] = enqueue => Unclaimed(enqueue)

\* What lies in the slot of a producer that has written to it, and which item it is.
WrittenRight(p) ==
    LET i == SlotOf(position[p])
    IN  /\ pc[p] = "refund" => cancelled[i] /\ slotBytes[i] = 0
        /\ pc[p] = "publish" =>
              IF cancelled[i] THEN slotBytes[i] = 0
              ELSE slotBytes[i] = Bytes[p] /\ value[i] = <<p, calls[p]>>
        /\ calls[p] <= load.calls[p]
        /\ pc[p] # "call" => calls[p] > 0

\* What the consumer knows where it stands.
ConsumerRight ==
    /\ pc[Consumer] = "take" => Settled(dequeue)
    /\ pc[Consumer] \in {"read", "free"} => Unfreed < enqueue /\ Settled(Unfreed)
    /\ pc[Consumer] = "drained" => closed
    /\ pc[Consumer] \notin {"free", "release"} => carried.bytes = 0

QueueInv ==
    /\ QueueTypes /\ OneTurn
    /\ \A p \in Producers : ClaimRight(p) /\ WrittenRight(p)
    /\ ConsumerRight
=============================================================================
