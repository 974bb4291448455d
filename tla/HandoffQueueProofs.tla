------------------------- MODULE HandoffQueueProofs -------------------------
(***************************************************************************)
(* The handoff queue, proved for any number of producers and slots, any    *)
(* byte capacity and any charges: its invariant holds; slots are never     *)
(* shared; it implements BoundedChannel; and what is charged is at all     *)
(* times what permits, published items and the item being popped hold.     *)
(***************************************************************************)
EXTENDS HandoffQueue, SumLemmas

\* The time each leaf may take, in seconds.
USE ZenonT(30)

(***************************************************************************)
(* Slots.                                                                  *)
(***************************************************************************)
\* Positions less than a turn apart that share a slot are the same.
LEMMA ModApart ==
    ASSUME NEW N \in Nat \ {0}, NEW a \in Nat, NEW b \in Nat,
           a % N = b % N, a < b + N, b < a + N
    PROVE  a = b
<1> DEFINE x == a \div N
           y == b \div N
<1>1. x \in Int /\ y \in Int /\ a = N * x + (a % N) /\ b = N * y + (b % N)
  BY SMTT(30)
<1>2. a - b = N * (x - y)
  BY <1>1, SMTT(30)
<1> HIDE DEF x, y
<1>3. CASE x - y >= 1
  BY <1>2, <1>3, <1>1, SMTT(30)
<1>4. CASE y - x >= 1
  BY <1>2, <1>4, <1>1, SMTT(30)
<1> QED BY <1>1, <1>2, <1>3, <1>4, SMTT(30)

\* A remainder does not change over a turn.
LEMMA ModTurn ==
    ASSUME NEW N \in Nat \ {0}, NEW a \in Nat
    PROVE  a % N \in 0..(N - 1) /\ (a + N) % N = a % N
<1> DEFINE x == a \div N
           y == (a + N) \div N
           r == a % N
           s == (a + N) % N
<1>1. /\ x \in Int /\ y \in Int /\ r \in 0..(N - 1) /\ s \in 0..(N - 1)
      /\ a = N * x + r /\ a + N = N * y + s
  BY SMTT(30)
<1>2. s - r = N * (x + 1 - y)
  BY <1>1, SMTT(30)
<1>3. s = r
  <2> HIDE DEF x, y, r, s
  <2>1. CASE x + 1 - y >= 1
    BY <1>1, <1>2, <2>1, SMTT(30)
  <2>2. CASE x + 1 - y <= -1
    BY <1>1, <1>2, <2>2, SMTT(30)
  <2> QED BY <1>1, <1>2, <2>1, <2>2, SMTT(30)
<1> QED
  BY <1>1, <1>3

\* A number below the modulus is its own remainder.
LEMMA ModBelow ==
    ASSUME NEW N \in Nat \ {0}, NEW a \in 0..(N - 1)
    PROVE  a % N = a
<1> DEFINE x == a \div N
           r == a % N
<1>1. x \in Int /\ r \in 0..(N - 1) /\ a = N * x + r
  BY SMTT(30)
<1> HIDE DEF x, r
<1>2. CASE x >= 1
  BY <1>1, <1>2, SMTT(30)
<1>3. CASE x <= -1
  BY <1>1, <1>3, SMTT(30)
<1>4. r = a
  BY <1>1, <1>2, <1>3, SMTT(30)
<1> QED
  BY <1>4 DEF r

\* The ring has slots.
LEMMA SlotsPositive == Slots \in Nat \ {0} /\ Slots >= 2
  BY QueueAssumption, SMTT(30)

\* A turn has one position for each slot.
LEMMA SlotApart ==
    ASSUME NEW m \in Nat, NEW n \in Nat, m < n + Slots, n < m + Slots,
           SlotOf(m) = SlotOf(n)
    PROVE  m = n
  BY ModApart, SlotsPositive DEF SlotOf

\* Every position has a slot.
LEMMA SlotIn == \A n \in Nat : SlotOf(n) \in Ring
  BY ModTurn, SlotsPositive DEF SlotOf, Ring

\* A turn later the slot is the same.
LEMMA SlotTurn == \A n \in Nat : SlotOf(n + Slots) = SlotOf(n)
  BY ModTurn, SlotsPositive DEF SlotOf

(***************************************************************************)
(* Steps that touch neither slots nor bytes.                               *)
(***************************************************************************)
\* Where a producer holds nothing.
Aside == {"call", "check", "charge", "refused"} \cup Notifying \cup Waiting

\* A step in which threads move about while they hold nothing.
Standing ==
    /\ UNCHANGED <<enqueue, dequeue, bytesUsed, load, slotVars, position, calls, carried>>
    /\ closed' \in BOOLEAN /\ (closed => closed')
    /\ ThreadTypes'
    /\ \A p \in Producers :
          pc'[p] = pc[p] \/ (pc[p] \in Aside \ {"call"} /\ pc'[p] \in Aside)
    /\ \/ pc'[Consumer] = pc[Consumer]
       \/ /\ pc[Consumer] \notin {"read", "free", "release"}
          /\ pc'[Consumer] \notin {"take", "read", "free", "release"}
          /\ pc'[Consumer] = "drained" => closed'

\* Threads that hold nothing may move about.
LEMMA StandingKeeps ==
    ASSUME QueueInv, Standing
    PROVE  QueueInv'
<1> USE DEF QueueInv
<1>1. QueueTypes'
  BY DEF QueueTypes, Standing, slotVars
<1>2. Unfreed' = Unfreed /\ Oldest' = Oldest
  BY DEF Standing, Unfreed, Oldest
<1>3. OneTurn'
  BY <1>2 DEF OneTurn, Settled, Unclaimed, Owned, Standing, slotVars, Aside, Owning,
              Notifying, Waiting
<1>4. ASSUME NEW p \in Producers PROVE ClaimRight(p)' /\ WrittenRight(p)'
  BY <1>2, SMTT(30) DEF ClaimRight, WrittenRight, Unclaimed, Standing, slotVars, Aside, Owning,
              Notifying, Waiting
<1>5. ConsumerRight'
  BY <1>2 DEF ConsumerRight, Settled, Standing, slotVars
<1> QED
  BY <1>1, <1>3, <1>4, <1>5

\* A thread moves on its own.
LEMMA MovesRight ==
    ASSUME ThreadTypes, NEW t \in Threads, NEW label \in LabelsOf(t),
           pc' = [pc EXCEPT ![t] = label],
           \/ ret' = ret /\ (label \in Notifying => pc[t] \in Notifying)
           \/ \E r \in ReturnsOf(t) : ret' = [ret EXCEPT ![t] = r],
           \/ sleeping' \subseteq sleeping /\ pc[t] # "asleep"
           \/ label = "asleep" /\ sleeping' \subseteq sleeping \cup {t}
    PROVE  ThreadTypes'
<1>1. ASSUME NEW u \in Threads PROVE pc'[u] = IF u = t THEN label ELSE pc[u]
  BY DEF ThreadTypes
<1>2. ASSUME NEW u \in Threads
      PROVE  pc'[u] \in LabelsOf(u) /\ (pc'[u] \in Notifying => ret'[u] \in ReturnsOf(u))
  BY <1>1 DEF ThreadTypes
<1>3. pc' \in [Threads -> UNION {LabelsOf(u) : u \in Threads}]
  BY <1>2, SMTT(30) DEF ThreadTypes
<1>4. DOMAIN ret' = Threads
  BY DEF ThreadTypes
<1>5. sleeping' \subseteq {u \in Threads : pc'[u] = "asleep"}
  BY <1>1 DEF ThreadTypes
<1> QED
  BY <1>2, <1>3, <1>4, <1>5 DEF ThreadTypes

\* Producers, consumer and closer are told apart.
LEMMA Kinds ==
    /\ Consumer \in Threads /\ Closer \in Threads /\ Consumer # Closer
    /\ \A p \in Producers :
          /\ p \in Threads /\ p # Consumer /\ p # Closer
          /\ LabelsOf(p) = {"call", "check", "charge", "load", "inspect", "uncharge",
                            "swap", "refused"} \cup Owning \cup Notifying \cup Waiting
          /\ ReturnsOf(p) = {"call"}
    /\ LabelsOf(Consumer) = {"pop", "take", "read", "free", "release", "empty", "drained",
                             "end"} \cup Notifying \cup Waiting
    /\ ReturnsOf(Consumer) = {"pop", "observe"}
    /\ LabelsOf(Closer) = {"close", "end"} \cup Notifying
    /\ ReturnsOf(Closer) = {"end"}
    /\ \A t \in Threads : t \in Producers \/ t = Consumer \/ t = Closer
  BY QueueAssumption DEF Threads, LabelsOf, ReturnsOf

\* The steps of notify_change and park_until_change.
LEMMA WaitMoves ==
    ASSUME QueueTypes, NEW t \in Threads, Wait(t)
    PROVE  /\ UNCHANGED <<sharedVars, slotVars, localVars>>
           /\ ThreadTypes'
           /\ pc[t] \in Notifying \cup Waiting
           /\ pc'[t] \in Notifying \cup Waiting \cup ReturnsOf(t)
                            \cup (IF t = Consumer THEN {"pop"} ELSE {"check"})
           /\ \A u \in Threads \ {t} :
                 pc'[u] = pc[u] \/ (pc[u] = "asleep" /\ pc'[u] = "woken")
<1> USE DEF QueueTypes, Goto, Notifying, Waiting, Owning
<1>1. CASE Observe(t)
  <2> DEFINE l == IF t = Consumer THEN "pop" ELSE "check"
  <2>1. l \in LabelsOf(t) /\ t # Closer
    BY <1>1, Kinds, SMTT(30) DEF Observe, ThreadTypes
  <2>2. ThreadTypes'
    BY <1>1, <2>1, MovesRight DEF Observe
  <2> QED
    BY <1>1, <2>2 DEF Observe, ThreadTypes
<1>2. CASE Bump(t)
  <2>1. "waiters" \in LabelsOf(t)
    BY Kinds, SMTT(30)
  <2>2. ThreadTypes'
    BY <1>2, <2>1, MovesRight DEF Bump
  <2> QED
    BY <1>2, <2>2 DEF Bump, ThreadTypes
<1>3. CASE LoadWaiters(t)
  <2> DEFINE l == IF waiters # 0 THEN "wake" ELSE ret[t]
  <2>1. ret[t] \in ReturnsOf(t)
    BY <1>3 DEF LoadWaiters, ThreadTypes
  <2>2. l \in LabelsOf(t) /\ pc' = [pc EXCEPT ![t] = l]
    BY <1>3, <2>1, Kinds, SMTT(30) DEF LoadWaiters
  <2>3. ThreadTypes'
    BY <1>3, <2>2, MovesRight DEF LoadWaiters, waitVars
  <2> QED
    BY <1>3, <2>1, <2>3, SMTT(30) DEF LoadWaiters, ThreadTypes
<1>4. CASE Wake(t)
  <2>1. ret[t] \in ReturnsOf(t) /\ ret[t] \in LabelsOf(t) /\ ret[t] \notin Notifying
    BY <1>4, Kinds, SMTT(30) DEF Wake, ThreadTypes
  <2>2. \A u \in sleeping : u \in Threads /\ pc[u] = "asleep" /\ "woken" \in LabelsOf(u)
                            /\ u # t
    BY <1>4, Kinds, SMTT(30) DEF ThreadTypes, Wake
  <2>3. ASSUME NEW u \in Threads
        PROVE  pc'[u] = IF u \in sleeping THEN "woken" ELSE IF u = t THEN ret[t] ELSE pc[u]
    BY <1>4 DEF Wake
  <2>4. ASSUME NEW u \in Threads
        PROVE  pc'[u] \in LabelsOf(u) /\ (pc'[u] \in Notifying => ret'[u] \in ReturnsOf(u))
    BY <1>4, <2>1, <2>2, <2>3 DEF ThreadTypes, Wake
  <2>5. pc' \in [Threads -> UNION {LabelsOf(u) : u \in Threads}]
    BY <1>4, <2>4, SMTT(30) DEF Wake
  <2>6. ThreadTypes'
    BY <1>4, <2>4, <2>5 DEF ThreadTypes, Wake
  <2> QED
    BY <1>4, <2>1, <2>2, <2>3, <2>6 DEF Wake
<1>5. CASE Park(t)
  <2>1. "compare" \in LabelsOf(t)
    BY <1>5, Kinds, SMTT(30) DEF Park, ThreadTypes
  <2>2. ThreadTypes'
    BY <1>5, <2>1, MovesRight DEF Park
  <2> QED
    BY <1>5, <2>2 DEF Park, ThreadTypes
<1>6. CASE Compare(t)
  <2> DEFINE l == IF t \in current THEN "asleep" ELSE "observe"
  <2>1. l \in LabelsOf(t) /\ pc' = [pc EXCEPT ![t] = l]
    BY <1>6, Kinds, SMTT(30) DEF Compare, ThreadTypes
  <2>2. ThreadTypes'
    BY <1>6, <2>1, MovesRight DEF Compare
  <2> QED
    BY <1>6, <2>2, SMTT(30) DEF Compare, ThreadTypes
<1>7. CASE Woken(t)
  <2>1. "observe" \in LabelsOf(t)
    BY <1>7, Kinds, SMTT(30) DEF Woken, ThreadTypes
  <2>2. ThreadTypes'
    BY <1>7, <2>1, MovesRight DEF Woken
  <2> QED
    BY <1>7, <2>2 DEF Woken, ThreadTypes
<1> QED
  BY <1>1, <1>2, <1>3, <1>4, <1>5, <1>6, <1>7 DEF Wait

\* notify_change and park_until_change touch neither slots nor bytes.
LEMMA WaitStands ==
    ASSUME QueueTypes, NEW t \in Threads, Wait(t)
    PROVE  Standing
<1>1. \A p \in Producers :
          pc'[p] = pc[p] \/ (pc[p] \in Aside \ {"call"} /\ pc'[p] \in Aside)
  BY WaitMoves, Kinds, SMTT(30) DEF Aside, Notifying, Waiting
<1>2. \/ pc'[Consumer] = pc[Consumer]
      \/ /\ pc[Consumer] \notin {"read", "free", "release"}
         /\ pc'[Consumer] \notin {"take", "read", "free", "release", "drained"}
  BY WaitMoves, Kinds, SMTT(30) DEF Notifying, Waiting
<1> QED
  BY <1>1, <1>2, WaitMoves DEF Standing, sharedVars, localVars, QueueTypes

\* try_reserve looks whether the queue is closed before it holds anything.
LEMMA CheckClosedStands ==
    ASSUME QueueTypes, NEW p \in Producers, CheckClosed(p)
    PROVE  Standing
<1> DEFINE l == IF closed THEN "refused" ELSE "charge"
<1>1. pc' = [pc EXCEPT ![p] = l] /\ l \in LabelsOf(p)
  BY Kinds DEF CheckClosed, Goto
<1>2. ThreadTypes'
  BY <1>1, Kinds, MovesRight DEF CheckClosed, QueueTypes, waitVars, Notifying
<1> QED
  BY <1>1, <1>2, Kinds DEF CheckClosed, Standing, sharedVars, localVars, QueueTypes,
                            ThreadTypes, Aside

\* A charge that does not fit charges nothing.
LEMMA ChargeFailStands ==
    ASSUME QueueTypes, NEW p \in Producers, Charge(p),
           ~(bytesUsed + Bytes[p] <= load.capacity)
    PROVE  Standing
<1>1. pc' = [pc EXCEPT ![p] = Full(p)] /\ Full(p) \in LabelsOf(p) /\ Full(p) \in {"park", "call"}
  BY Kinds DEF Charge, Goto, Full, Waiting
<1>2. ThreadTypes'
  BY <1>1, Kinds, MovesRight DEF Charge, QueueTypes, waitVars, Notifying
<1> QED
  BY <1>1, <1>2, Kinds DEF Charge, Standing, localVars, QueueTypes, ThreadTypes, Aside, Waiting

\* close only raises its flag, and tells the others.
LEMMA CloseStands ==
    ASSUME QueueTypes, CloseQueue
    PROVE  Standing
<1>1. pc' = [pc EXCEPT ![Closer] = "bump"] /\ "bump" \in LabelsOf(Closer)
  BY Kinds DEF CloseQueue, Notify, Goto, Notifying
<1>2. ThreadTypes'
  BY <1>1, Kinds, MovesRight DEF CloseQueue, Notify, QueueTypes, waitVars
<1> QED
  BY <1>1, <1>2, Kinds DEF CloseQueue, Standing, localVars, QueueTypes, ThreadTypes

\* The consumer looks for an item and finds none.
LEMMA SearchStands ==
    ASSUME QueueTypes, \/ Pop /\ pc'[Consumer] # "take"
                       \/ Empty \/ IsDrained
    PROVE  Standing
<1>1. PICK l \in {"empty", "drained", "end", "park"} :
         pc' = [pc EXCEPT ![Consumer] = l] /\ (l = "drained" => closed)
  <2>1. CASE Pop /\ pc'[Consumer] # "take"
    BY <2>1, Kinds DEF Pop, Goto, QueueTypes, ThreadTypes
  <2>2. CASE Empty
    BY <2>2 DEF Empty, Goto
  <2>3. CASE IsDrained
    BY <2>3 DEF IsDrained, Goto
  <2> QED BY <2>1, <2>2, <2>3
<1>2. /\ UNCHANGED <<sharedVars, waitVars, slotVars, ret, localVars>>
      /\ pc[Consumer] \in {"pop", "empty", "drained"}
  BY DEF Pop, Empty, IsDrained
<1>3. ThreadTypes'
  BY <1>1, <1>2, Kinds, MovesRight DEF QueueTypes, waitVars, Notifying, Waiting
<1> QED
  BY <1>1, <1>2, <1>3, Kinds DEF Standing, sharedVars, localVars, QueueTypes, ThreadTypes

(***************************************************************************)
(* Steps of a producer that change where it stands and nothing else.       *)
(***************************************************************************)
Turning(p) ==
    /\ UNCHANGED <<sharedVars, slotVars, position, calls, carried>>
    /\ ThreadTypes'
    /\ \A t \in Threads \ {p} : pc'[t] = pc[t]
    /\ \/ /\ pc[p] \in {"inspect", "swap"} /\ pc'[p] \in {"load", "uncharge", "swap"}
          /\ pc'[p] = "swap" => Unclaimed(position[p])
       \/ /\ pc[p] \in {"recheck", "permit"} /\ pc'[p] \in {"permit", "write", "cancel"}

\* A producer may move on with what it holds.
LEMMA TurningKeeps ==
    ASSUME QueueInv, NEW p \in Producers, Turning(p)
    PROVE  QueueInv'
<1> USE DEF QueueInv
<1>1. QueueTypes'
  BY DEF QueueTypes, Turning, slotVars, sharedVars
<1>2. Unfreed' = Unfreed /\ Oldest' = Oldest /\ pc'[Consumer] = pc[Consumer]
  BY Kinds DEF Turning, Unfreed, Oldest, sharedVars
<1>3. OneTurn'
  BY <1>2, Kinds, SMTT(30) DEF OneTurn, Settled, Unclaimed, Owned, Turning, slotVars, sharedVars, Owning
<1>4. ASSUME NEW q \in Producers PROVE ClaimRight(q)' /\ WrittenRight(q)'
  <2>1. CASE q = p
    BY <1>2, <2>1 DEF ClaimRight, WrittenRight, Unclaimed, Turning, slotVars, sharedVars, Owning
  <2>2. CASE q # p
    BY <1>2, <2>2, Kinds, SMTT(30)
       DEF ClaimRight, WrittenRight, Unclaimed, Turning, slotVars, sharedVars
  <2> QED BY <2>1, <2>2
<1>5. ConsumerRight'
  BY <1>2 DEF ConsumerRight, Settled, Turning, slotVars, sharedVars
<1> QED
  BY <1>1, <1>3, <1>4, <1>5

\* try_reserve inspecting a slot, losing the exchange or looking for a close; a permit
\* being used.
LEMMA ProducerTurns ==
    ASSUME QueueTypes, NEW p \in Producers,
           \/ Inspect(p) \/ (Swap(p) /\ enqueue' = enqueue)
           \/ Recheck(p) \/ UsePermit(p)
    PROVE  Turning(p)
<1>1. PICK l \in {"load", "uncharge", "swap", "permit", "write", "cancel"} :
         /\ pc' = [pc EXCEPT ![p] = l]
         /\ \/ /\ pc[p] \in {"inspect", "swap"} /\ l \in {"load", "uncharge", "swap"}
               /\ l = "swap" => Unclaimed(position[p])
            \/ /\ pc[p] \in {"recheck", "permit"} /\ l \in {"permit", "write", "cancel"}
         /\ UNCHANGED <<sharedVars, waitVars, slotVars, ret, localVars>>
  <2>1. CASE Inspect(p)
    <3> DEFINE s == sequence[SlotOf(position[p])]
    <3>1. s \in Nat /\ position[p] \in Nat
      BY SlotIn DEF QueueTypes
    <3>2. s = position[p] \/ s < position[p] \/ s > position[p]
      BY <3>1, SMTT(30)
    <3> DEFINE label == CASE s = position[p] -> "swap"
                          [] s < position[p] -> "uncharge"
                          [] s > position[p] -> "load"
    <3>3. /\ pc[p] = "inspect" /\ pc' = [pc EXCEPT ![p] = label]
          /\ UNCHANGED <<sharedVars, waitVars, slotVars, ret, localVars>>
      BY <2>1 DEF Inspect, Goto
    <3>4. label \in {"swap", "uncharge", "load"} /\ (label = "swap" => s = position[p])
      <4> HIDE DEF s
      <4> QED BY <3>1, <3>2
    <3> HIDE DEF label
    <3> QED BY <3>3, <3>4 DEF Unclaimed
  <2>2. CASE Swap(p) /\ enqueue' = enqueue
    BY <2>2, SMTT(30) DEF Swap, Goto, QueueTypes, sharedVars, slotVars
  <2>3. CASE Recheck(p)
    BY <2>3 DEF Recheck, Goto
  <2>4. CASE UsePermit(p)
    BY <2>4 DEF UsePermit, Goto
  <2> QED BY <2>1, <2>2, <2>3, <2>4
<1>2. l \in LabelsOf(p) /\ l \notin Notifying
  BY Kinds DEF Owning, Notifying
<1>3. ThreadTypes'
  BY <1>1, <1>2, Kinds, MovesRight DEF QueueTypes, waitVars
<1> QED
  BY <1>1, <1>3, Kinds DEF Turning, localVars, QueueTypes, ThreadTypes

(***************************************************************************)
(* The steps of reserve and try_reserve.                                   *)
(***************************************************************************)
\* What a producer's step leaves alone before it claims.
Asking(p) ==
    /\ UNCHANGED <<load, enqueue, dequeue, closed, slotVars, carried>>
    /\ ThreadTypes'
    /\ \A t \in Threads \ {p} : pc'[t] = pc[t]
    /\ \A q \in Producers \ {p} : position'[q] = position[q] /\ calls'[q] = calls[q]
    /\ pc[p] \notin Owning /\ pc'[p] \notin Owning /\ pc'[p] # "swap"
    /\ position' \in [Producers -> Nat] /\ calls' \in [Producers -> Nat]
    /\ pc'[p] = "inspect" => position'[p] = enqueue
    /\ calls'[p] <= load.calls[p]
    /\ pc'[p] # "call" => calls'[p] > 0
    /\ \/ bytesUsed' = bytesUsed /\ (Charged(p)' <=> Charged(p))
       \/ /\ ~Charged(p) /\ Charged(p)' /\ bytesUsed' = bytesUsed + Bytes[p]
          /\ bytesUsed' <= load.capacity
       \/ Charged(p) /\ ~Charged(p)' /\ bytesUsed' = bytesUsed - Bytes[p]

\* A producer that owns no slot may charge its bytes and give them back.
LEMMA AskingKeeps ==
    ASSUME QueueInv, NEW p \in Producers, Asking(p)
    PROVE  QueueInv'
<1> USE DEF QueueInv
<1>0. bytesUsed' \in Int
  BY QueueAssumption, SMTT(30) DEF Asking, QueueTypes
<1>1. QueueTypes'
  BY <1>0 DEF QueueTypes, Asking, slotVars
<1>2. Unfreed' = Unfreed /\ Oldest' = Oldest /\ pc'[Consumer] = pc[Consumer]
  BY Kinds DEF Asking, Unfreed, Oldest
<1>3. OneTurn'
  BY <1>2, Kinds, SMTT(30) DEF OneTurn, Settled, Unclaimed, Owned, Asking, slotVars
<1>4. ASSUME NEW q \in Producers PROVE ClaimRight(q)' /\ WrittenRight(q)'
  <2>1. CASE q = p
    <3>1. enqueue \in Nat /\ enqueue' = enqueue /\ load' = load
      BY DEF Asking, QueueTypes
    <3>2. ClaimRight(p)'
      BY <3>1, SMTT(30) DEF ClaimRight, Asking
    <3>3. WrittenRight(p)'
      BY <3>1 DEF WrittenRight, Asking, Owning
    <3> QED BY <2>1, <3>2, <3>3
  <2>2. CASE q # p
    <3>1. pc'[q] = pc[q] /\ position'[q] = position[q] /\ calls'[q] = calls[q]
      BY <2>2, Kinds DEF Asking
    <3>2. UNCHANGED <<load, enqueue, sequence, owner, slotBytes, cancelled, value>>
      BY DEF Asking, slotVars
    <3>3. ClaimRight(q)'
      BY <1>2, <3>1, <3>2 DEF ClaimRight, Unclaimed
    <3>4. WrittenRight(q)'
      BY <3>1, <3>2 DEF WrittenRight
    <3> QED BY <3>3, <3>4
  <2> QED BY <2>1, <2>2
<1>5. ConsumerRight'
  BY <1>2 DEF ConsumerRight, Settled, Asking, slotVars
<1> QED
  BY <1>1, <1>3, <1>4, <1>5

\* try_reserve before it owns a slot.
LEMMA ProducerAsks ==
    ASSUME QueueInv, NEW p \in Producers,
           \/ Call(p) \/ (Charge(p) /\ bytesUsed + Bytes[p] <= load.capacity)
           \/ LoadPosition(p) \/ Uncharge(p)
    PROVE  Asking(p)
<1> USE DEF Goto
<1>0. /\ p \in Threads /\ Full(p) \in {"park", "call"} /\ pc[p] \in LabelsOf(p)
      /\ position \in [Producers -> Nat] /\ calls \in [Producers -> Nat]
      /\ calls[p] <= load.calls[p] /\ (pc[p] # "call" => calls[p] > 0)
      /\ load.calls[p] \in Nat
  BY Kinds, QueueAssumption, SMTT(30) DEF Full, QueueInv, QueueTypes, ThreadTypes, WrittenRight
<1>1. PICK l \in {"observe", "check", "load", "inspect", "park", "call"} :
         /\ pc' = [pc EXCEPT ![p] = l]
         /\ UNCHANGED <<load, enqueue, dequeue, closed, slotVars, carried, waitVars, ret>>
  BY <1>0 DEF Call, Charge, LoadPosition, Uncharge, sharedVars, localVars
<1>2. ThreadTypes'
  <2>1. l \in LabelsOf(p) /\ l \notin Notifying
    BY Kinds DEF Notifying, Waiting
  <2>2. pc[p] # "asleep"
    BY DEF Call, Charge, LoadPosition, Uncharge
  <2>3. sleeping' = sleeping
    BY <1>1 DEF waitVars
  <2> QED
    BY <1>0, <1>1, <2>1, <2>2, <2>3, MovesRight DEF QueueInv, QueueTypes
<1>3. /\ pc'[p] = l /\ \A t \in Threads \ {p} : pc'[t] = pc[t]
  BY <1>0, <1>1 DEF QueueInv, QueueTypes, ThreadTypes
<1>4. pc[p] \notin Owning /\ l \notin Owning
  BY DEF Owning, Call, Charge, LoadPosition, Uncharge
<1>5. CASE Call(p)
  <2>1. /\ bytesUsed' = bytesUsed /\ l # "inspect" /\ ~Charged(p) /\ ~Charged(p)'
        /\ position' = position /\ calls' = [calls EXCEPT ![p] = @ + 1]
        /\ calls[p] < load.calls[p]
    BY <1>0, <1>3, <1>5, SMTT(30) DEF Call, Charged, sharedVars
  <2>2. /\ calls' \in [Producers -> Nat] /\ calls'[p] = calls[p] + 1
        /\ \A q \in Producers \ {p} : calls'[q] = calls[q]
    BY <1>0, <2>1, SMTT(30)
  <2>3. calls'[p] <= load.calls[p] /\ calls'[p] > 0
    BY <1>0, <2>1, <2>2, SMTT(30)
  <2> QED
    BY <1>0, <1>1, <1>2, <1>3, <1>4, <2>1, <2>2, <2>3 DEF Asking
<1>6. CASE Charge(p) /\ bytesUsed + Bytes[p] <= load.capacity
  <2>1. /\ bytesUsed' = bytesUsed + Bytes[p] /\ l # "inspect" /\ ~Charged(p) /\ Charged(p)'
        /\ position' = position /\ calls' = calls /\ pc[p] # "call"
    <3>1. /\ bytesUsed' = bytesUsed + Bytes[p] /\ pc' = [pc EXCEPT ![p] = "load"]
          /\ position' = position /\ calls' = calls /\ pc[p] = "charge"
      BY <1>6 DEF Charge, localVars
    <3>2. l = "load"
      BY <1>0, <1>3, <3>1, SMTT(30) DEF QueueTypes, ThreadTypes
    <3> QED
      BY <1>3, <3>1, <3>2 DEF Charged
  <2> QED
    BY <1>0, <1>1, <1>2, <1>3, <1>4, <1>6, <2>1 DEF Asking
<1>7. CASE LoadPosition(p)
  <2>1. /\ bytesUsed' = bytesUsed /\ Charged(p) /\ Charged(p)'
        /\ position' = [position EXCEPT ![p] = enqueue] /\ calls' = calls /\ pc[p] # "call"
    BY <1>0, <1>3, <1>7, SMTT(30) DEF LoadPosition, Charged, sharedVars
  <2>2. enqueue \in Nat
    BY DEF QueueInv, QueueTypes
  <2> QED
    BY <1>0, <1>1, <1>2, <1>3, <1>4, <2>1, <2>2 DEF Asking
<1>8. CASE Uncharge(p)
  <2>1. /\ bytesUsed' = bytesUsed - Bytes[p] /\ l # "inspect" /\ Charged(p) /\ ~Charged(p)'
        /\ position' = position /\ calls' = calls /\ pc[p] # "call"
    BY <1>0, <1>3, <1>8, SMTT(30) DEF Uncharge, Charged, localVars
  <2> QED
    BY <1>0, <1>1, <1>2, <1>3, <1>4, <2>1 DEF Asking
<1> QED
  BY <1>5, <1>6, <1>7, <1>8

(***************************************************************************)
(* Claimed slots.                                                          *)
(***************************************************************************)
\* The slots of one turn are distinct.
LEMMA TurnApart ==
    ASSUME QueueInv, NEW m \in Unfreed..(Unfreed + Slots - 1),
           NEW n \in Unfreed..(Unfreed + Slots - 1), m # n
    PROVE  SlotOf(m) # SlotOf(n)
<1>1. Unfreed \in Nat /\ Slots \in Nat
  BY SlotsPositive DEF QueueInv, OneTurn
<1>2. m \in Nat /\ n \in Nat /\ m < n + Slots /\ n < m + Slots
  BY <1>1, SMTT(30)
<1> QED
  BY <1>2, SlotApart

\* What a producer that has claimed knows of its slot.
LEMMA OwnerKnows ==
    ASSUME QueueInv, NEW p \in Producers, pc[p] \in Owning
    PROVE  /\ position[p] \in Unfreed..(enqueue - 1)
           /\ position[p] \in Unfreed..(Unfreed + Slots - 1)
           /\ position[p] \in Nat /\ SlotOf(position[p]) \in Ring
           /\ sequence[SlotOf(position[p])] = position[p]
           /\ ~Settled(position[p])
           /\ owner[SlotOf(position[p])] = p
<1>1. /\ position[p] \in Unfreed..(enqueue - 1)
      /\ sequence[SlotOf(position[p])] = position[p]
      /\ owner[SlotOf(position[p])] = p
  BY DEF QueueInv, ClaimRight, Unclaimed
<1>2. /\ Unfreed \in Nat /\ enqueue \in Nat /\ enqueue <= Unfreed + Slots /\ Slots \in Nat
      /\ position[p] \in Nat
  BY SlotsPositive DEF QueueInv, OneTurn, QueueTypes
<1>3. position[p] \in Unfreed..(Unfreed + Slots - 1)
  BY <1>1, <1>2, SMTT(30)
<1>4. ~Settled(position[p])
  BY <1>1, <1>2, SMTT(30) DEF Settled
<1> QED
  BY <1>1, <1>2, <1>3, <1>4, SlotIn

\* No slot is open to two threads at once.
LEMMA InvExclusive ==
    ASSUME QueueInv
    PROVE  ExclusiveSlots
<1>1. ASSUME NEW p \in Producers, pc[p] \in Owning,
             NEW q \in Producers \ {p}, pc[q] \in Owning
      PROVE  SlotOf(position[p]) # SlotOf(position[q])
  BY <1>1, OwnerKnows
<1>2. ASSUME NEW p \in Producers, pc[p] \in Owning, pc[Consumer] \in {"read", "free"}
      PROVE  SlotOf(position[p]) # SlotOf(dequeue - 1)
  <2>1. Unfreed = dequeue - 1 /\ Settled(Unfreed) /\ Unfreed \in Nat /\ Slots \in Nat
    BY <1>2, SlotsPositive DEF Unfreed, QueueInv, ConsumerRight, OneTurn
  <2>2. position[p] \in Unfreed..(Unfreed + Slots - 1) /\ ~Settled(position[p])
    BY <1>2, OwnerKnows
  <2>3. Unfreed \in Unfreed..(Unfreed + Slots - 1)
    BY <2>1, SlotsPositive, SMTT(30)
  <2> QED
    BY <2>1, <2>2, <2>3, TurnApart
<1> QED
  BY <1>1, <1>2 DEF ExclusiveSlots

\* The consumer's range lies within the turn.
LEMMA OldestInTurn ==
    ASSUME QueueInv
    PROVE  /\ Oldest \in Nat /\ enqueue \in Nat /\ Unfreed \in Nat
           /\ Unfreed <= Oldest /\ Oldest <= enqueue
           /\ \A n \in Oldest..(enqueue - 1) : /\ n \in Unfreed..(enqueue - 1)
                                               /\ n \in Unfreed..(Unfreed + Slots - 1)
                                               /\ n \in Nat
<1>1. /\ Unfreed \in Nat /\ enqueue \in Nat /\ enqueue <= Unfreed + Slots /\ Slots \in Nat
      /\ dequeue \in Nat /\ Unfreed <= enqueue
  BY SlotsPositive DEF QueueInv, OneTurn, QueueTypes
<1>2. Unfreed <= Oldest /\ Oldest <= enqueue /\ Oldest \in Nat
  BY <1>1, SMTT(30) DEF Unfreed, Oldest, QueueInv, ConsumerRight
<1> QED
  BY <1>1, <1>2, SMTT(30)

(***************************************************************************)
(* The steps of Permit::publish and Permit::drop.                          *)
(***************************************************************************)
\* A step that fills the slot of p, or changes the bytes p holds for it.
Filling(p) ==
    /\ UNCHANGED <<load, enqueue, dequeue, closed, sequence, owner, position, calls, carried>>
    /\ ThreadTypes'
    /\ \A t \in Threads \ {p} : pc'[t] = pc[t]
    /\ slotBytes' \in [Ring -> Nat] /\ cancelled' \in [Ring -> BOOLEAN]
    /\ value' \in [Ring -> Items \cup {NoItem}]
    /\ \A i \in Ring \ {SlotOf(position[p])} :
          slotBytes'[i] = slotBytes[i] /\ cancelled'[i] = cancelled[i] /\ value'[i] = value[i]
    /\ pc[p] \in Owning /\ pc'[p] \in Owning
    /\ WrittenRight(p)'
    /\ Charged(p)
    /\ \/ Charged(p)' /\ bytesUsed' = bytesUsed
       \/ ~Charged(p)' /\ bytesUsed' = bytesUsed - Bytes[p]

\* An owner may write the cell of its slot, and give back the bytes of a cancelled one.
LEMMA FillingKeeps ==
    ASSUME QueueInv, NEW p \in Producers, Filling(p)
    PROVE  QueueInv'
<1>0. bytesUsed' \in Int
  BY QueueAssumption, SMTT(30) DEF Filling, QueueInv, QueueTypes
<1>1. QueueTypes'
  BY <1>0 DEF QueueTypes, Filling, QueueInv
<1>2. Unfreed' = Unfreed /\ Oldest' = Oldest /\ pc'[Consumer] = pc[Consumer]
  BY Kinds DEF Filling, Unfreed, Oldest
<1>3. OneTurn'
  BY <1>2, Kinds, SMTT(30) DEF OneTurn, Settled, Unclaimed, Owned, Filling, QueueInv
<1>4. ASSUME NEW q \in Producers PROVE ClaimRight(q)'
  <2>1. CASE q = p
    BY <1>2, <2>1 DEF ClaimRight, Unclaimed, Filling, Owning, QueueInv
  <2>2. CASE q # p
    BY <1>2, <2>2, Kinds DEF ClaimRight, Unclaimed, Filling, QueueInv
  <2> QED BY <2>1, <2>2
<1>5. ASSUME NEW q \in Producers \ {p}, pc[q] \in Owning
      PROVE  LET i == SlotOf(position[q])
             IN  slotBytes'[i] = slotBytes[i] /\ cancelled'[i] = cancelled[i] /\ value'[i] = value[i]
  <2>1. SlotOf(position[q]) \in Ring /\ SlotOf(position[q]) # SlotOf(position[p])
    BY <1>5, OwnerKnows, InvExclusive DEF Filling, ExclusiveSlots
  <2> QED BY <2>1 DEF Filling
<1>6. ASSUME NEW q \in Producers PROVE WrittenRight(q)'
  <2>1. CASE q = p
    BY <2>1 DEF Filling
  <2>2. CASE q # p
    <3>1. pc'[q] = pc[q] /\ position'[q] = position[q] /\ calls'[q] = calls[q] /\ load' = load
      BY <2>2, Kinds DEF Filling
    <3>2. WrittenRight(q)
      BY DEF QueueInv
    <3> QED
      BY <1>5, <2>2, <3>1, <3>2 DEF WrittenRight, Owning
  <2> QED BY <2>1, <2>2
<1>7. ConsumerRight'
  BY <1>2 DEF ConsumerRight, Settled, Filling, QueueInv
<1> QED
  BY <1>1, <1>3, <1>4, <1>6, <1>7 DEF QueueInv

\* Permit::publish and Permit::drop before they store the sequence.
LEMMA ProducerFills ==
    ASSUME QueueInv, NEW p \in Producers, WriteSlot(p) \/ CancelSlot(p) \/ Refund(p)
    PROVE  Filling(p)
<1> USE DEF Goto
<1>0. /\ pc[p] \in Owning /\ pc[p] \in {"write", "cancel", "refund"} /\ Charged(p)
      /\ p \in Threads /\ p # Consumer
  BY Kinds DEF WriteSlot, CancelSlot, Refund, Owning, Charged
<1>1. PICK l \in {"publish", "refund"} :
         /\ pc' = [pc EXCEPT ![p] = l]
         /\ UNCHANGED <<load, enqueue, dequeue, closed, sequence, owner, position, calls,
                        carried, waitVars, ret>>
  BY DEF WriteSlot, CancelSlot, Refund, sharedVars, slotVars, localVars
<1>2. l \in LabelsOf(p) /\ l \notin Notifying /\ l \in Owning /\ pc[p] # "asleep"
  BY <1>0, Kinds DEF Owning, Notifying
<1>3. ThreadTypes'
  <2>1. sleeping' = sleeping
    BY <1>1 DEF waitVars
  <2> QED
    BY <1>0, <1>1, <1>2, <2>1, MovesRight DEF QueueInv, QueueTypes
<1>4. pc'[p] = l /\ \A t \in Threads \ {p} : pc'[t] = pc[t]
  BY <1>0, <1>1 DEF QueueInv, QueueTypes, ThreadTypes
<1> DEFINE i == SlotOf(position[p])
<1>5. /\ i \in Ring /\ Bytes[p] \in Nat /\ calls[p] <= load.calls[p] /\ calls[p] > 0
      /\ calls[p] \in Nat /\ load \in Loads
      /\ slotBytes \in [Ring -> Nat] /\ cancelled \in [Ring -> BOOLEAN]
      /\ value \in [Ring -> Items \cup {NoItem}]
  BY <1>0, OwnerKnows, QueueAssumption DEF QueueInv, QueueTypes, WrittenRight
<1>6. <<p, calls[p]>> \in Items
  <2>1. load.calls[p] \in Nat
    BY <1>5, QueueAssumption
  <2>2. calls[p] \in 1..load.calls[p]
    BY <1>5, <2>1, SMTT(30)
  <2>20. <<p, calls[p]>> \in {p} \X (1..load.calls[p])
    BY <2>2
  <2> DEFINE Of(q, k) == {q} \X (1..k.calls[q])
             All == {Of(q, k) : q \in Producers, k \in Loads}
  <2>3. Of(p, load) \in All
    <3> HIDE DEF Of
    <3> QED BY <1>5, SMTT(30)
  <2>4. Items = UNION All
    BY SMTT(30) DEF Items
  <2> HIDE DEF All
  <2> QED
    BY <2>20, <2>3, <2>4
<1> HIDE DEF i
<1>7. CASE WriteSlot(p)
  <2>1. /\ l = "publish" /\ bytesUsed' = bytesUsed
        /\ value' = [value EXCEPT ![i] = <<p, calls[p]>>]
        /\ slotBytes' = [slotBytes EXCEPT ![i] = Bytes[p]]
        /\ cancelled' = [cancelled EXCEPT ![i] = FALSE]
    BY <1>0, <1>1, <1>4, <1>7 DEF WriteSlot, sharedVars, i, QueueInv, QueueTypes, ThreadTypes
  <2>2. /\ slotBytes' \in [Ring -> Nat] /\ cancelled' \in [Ring -> BOOLEAN]
        /\ value' \in [Ring -> Items \cup {NoItem}]
        /\ \A j \in Ring \ {i} :
              slotBytes'[j] = slotBytes[j] /\ cancelled'[j] = cancelled[j] /\ value'[j] = value[j]
        /\ ~cancelled'[i] /\ slotBytes'[i] = Bytes[p] /\ value'[i] = <<p, calls[p]>>
    BY <1>5, <1>6, <2>1
  <2>3. WrittenRight(p)' /\ Charged(p)'
    BY <1>1, <1>4, <1>5, <2>1, <2>2 DEF WrittenRight, Charged, i
  <2> QED
    BY <1>0, <1>1, <1>2, <1>3, <1>4, <2>1, <2>2, <2>3 DEF Filling, i
<1>8. CASE CancelSlot(p)
  <2>1. /\ l = "refund" /\ bytesUsed' = bytesUsed
        /\ value' = value
        /\ slotBytes' = [slotBytes EXCEPT ![i] = 0]
        /\ cancelled' = [cancelled EXCEPT ![i] = TRUE]
    BY <1>0, <1>1, <1>4, <1>8 DEF CancelSlot, sharedVars, i, QueueInv, QueueTypes, ThreadTypes
  <2>2. /\ slotBytes' \in [Ring -> Nat] /\ cancelled' \in [Ring -> BOOLEAN]
        /\ value' \in [Ring -> Items \cup {NoItem}]
        /\ \A j \in Ring \ {i} :
              slotBytes'[j] = slotBytes[j] /\ cancelled'[j] = cancelled[j] /\ value'[j] = value[j]
        /\ cancelled'[i] /\ slotBytes'[i] = 0
    BY <1>5, <2>1
  <2>3. WrittenRight(p)' /\ Charged(p)'
    BY <1>1, <1>4, <1>5, <2>1, <2>2 DEF WrittenRight, Charged, i
  <2> QED
    BY <1>0, <1>1, <1>2, <1>3, <1>4, <2>1, <2>2, <2>3 DEF Filling, i
<1>9. CASE Refund(p)
  <2>1. /\ l = "publish" /\ bytesUsed' = bytesUsed - Bytes[p]
        /\ value' = value /\ slotBytes' = slotBytes /\ cancelled' = cancelled
        /\ cancelled[i] /\ slotBytes[i] = 0
    BY <1>0, <1>1, <1>4, <1>9 DEF Refund, slotVars, i, QueueInv, QueueTypes, ThreadTypes, WrittenRight
  <2>2. WrittenRight(p)' /\ ~Charged(p)'
    BY <1>1, <1>4, <1>5, <2>1 DEF WrittenRight, Charged, i
  <2> QED
    BY <1>0, <1>1, <1>2, <1>3, <1>4, <1>5, <2>1, <2>2 DEF Filling, i
<1> QED
  BY <1>7, <1>8, <1>9

\* Swap hands out the next position, whose slot is free.
LEMMA SwapKeeps ==
    ASSUME QueueInv, NEW p \in Producers, Swap(p), enqueue' # enqueue
    PROVE  /\ QueueInv'
           /\ enqueue < Unfreed + Slots
<1> DEFINE i == SlotOf(enqueue)
<1>0. /\ pc[p] = "swap" /\ position[p] = enqueue /\ enqueue' = enqueue + 1
      /\ owner' = [owner EXCEPT ![i] = p] /\ pc' = [pc EXCEPT ![p] = "recheck"]
      /\ UNCHANGED <<load, dequeue, bytesUsed, closed, waitVars, sequence, slotBytes,
                     cancelled, value, ret, position, calls, carried>>
  BY DEF Swap, Goto, localVars
<1>1. /\ enqueue \in Nat /\ Unfreed \in Nat /\ Slots \in Nat /\ Slots >= 2
      /\ Unfreed <= enqueue /\ enqueue <= Unfreed + Slots /\ i \in Ring
      /\ sequence[i] = enqueue /\ p \in Threads /\ p # Consumer
  BY <1>0, SlotsPositive, SlotIn, Kinds
     DEF QueueInv, OneTurn, QueueTypes, ClaimRight, Unclaimed
<1>2. enqueue < Unfreed + Slots
  <2> SUFFICES ASSUME enqueue = Unfreed + Slots PROVE FALSE
    BY <1>1, SMTT(30)
  <2>1. i = SlotOf(Unfreed) /\ Unfreed \in Unfreed..(enqueue - 1)
    BY <1>1, SlotTurn, SMTT(30)
  <2>2. sequence[i] = Unfreed + 1 \/ sequence[i] = Unfreed
    BY <2>1 DEF QueueInv, OneTurn, Settled, Unclaimed
  <2> QED
    BY <1>1, <2>2, SMTT(30)
<1> HIDE DEF i
<1>3. ThreadTypes'
  <2>1. "recheck" \in LabelsOf(p) /\ "recheck" \notin Notifying /\ sleeping' = sleeping
    BY <1>0, Kinds DEF Owning, Notifying, waitVars
  <2> QED
    BY <1>0, <1>1, <2>1, MovesRight DEF QueueInv, QueueTypes
<1>4. pc'[p] = "recheck" /\ \A t \in Threads \ {p} : pc'[t] = pc[t]
  BY <1>0, <1>1 DEF QueueInv, QueueTypes, ThreadTypes
<1>5. QueueTypes'
  BY <1>0, <1>1, <1>3, SMTT(30) DEF QueueTypes, QueueInv
<1>6. Unfreed' = Unfreed /\ Oldest' = Oldest /\ pc'[Consumer] = pc[Consumer]
  BY <1>0, <1>4, Kinds DEF Unfreed, Oldest
<1>7. /\ owner'[i] = p
      /\ \A n \in Unfreed..(Unfreed + Slots - 1) : n # enqueue =>
            SlotOf(n) \in Ring /\ SlotOf(n) # i /\ owner'[SlotOf(n)] = owner[SlotOf(n)]
  <2>1. ASSUME NEW n \in Unfreed..(Unfreed + Slots - 1), n # enqueue
        PROVE  SlotOf(n) \in Ring /\ SlotOf(n) # i
    BY <1>1, <1>2, <2>1, TurnApart, SlotIn, SMTT(30) DEF i
  <2> QED
    BY <1>0, <1>1, <2>1 DEF QueueInv, QueueTypes
<1>8. OneTurn'
  <2>1. ASSUME NEW n \in Unfreed..enqueue PROVE (Settled(n) \/ (Unclaimed(n) /\ Owned(n)))'
    <3>1. CASE n = enqueue
      BY <1>0, <1>1, <1>4, <1>7, <3>1 DEF Unclaimed, Owned, Owning, i
    <3>2. CASE n # enqueue
      <4>1. n \in Unfreed..(enqueue - 1) /\ n \in Unfreed..(Unfreed + Slots - 1)
        BY <1>1, <1>2, <3>2, SMTT(30)
      <4>2. CASE Settled(n)
        BY <1>0, <4>2 DEF Settled
      <4>3. CASE Unclaimed(n) /\ Owned(n)
        <5>1. owner'[SlotOf(n)] = owner[SlotOf(n)]
          BY <1>7, <3>2, <4>1
        <5> DEFINE q == owner[SlotOf(n)]
        <5>2. q \in Producers /\ pc[q] \in Owning /\ position[q] = n
          BY <4>3 DEF Owned
        <5>3. q # p
          BY <1>0, <5>2 DEF Owning
        <5> QED
          BY <1>0, <1>4, <4>3, <5>1, <5>2, <5>3, Kinds DEF Unclaimed, Owned
      <4> QED BY <4>1, <4>2, <4>3 DEF QueueInv, OneTurn
    <3> QED BY <3>1, <3>2
  <2>2. ASSUME NEW n \in (enqueue + 1)..(Unfreed + Slots - 1) PROVE Unclaimed(n)'
    <3>1. n \in enqueue..(Unfreed + Slots - 1)
      BY <1>1, SMTT(30)
    <3>2. Unclaimed(n)
      BY <3>1 DEF QueueInv, OneTurn
    <3> QED BY <1>0, <3>2 DEF Unclaimed
  <2>3. enqueue' - 1 = enqueue
    BY <1>0, <1>1, SMTT(30)
  <2> QED
    BY <1>0, <1>1, <1>2, <1>6, <2>1, <2>2, <2>3, SMTT(30) DEF OneTurn
<1>9. ASSUME NEW q \in Producers PROVE ClaimRight(q)' /\ WrittenRight(q)'
  <2>0. ClaimRight(q) /\ WrittenRight(q)
    BY DEF QueueInv
  <2>1. CASE q = p
    <3>1. ClaimRight(p)'
      BY <1>0, <1>1, <1>4, <1>6, <1>7, SMTT(30) DEF ClaimRight, Unclaimed, i
    <3>2. WrittenRight(p)'
      BY <1>0, <1>4, <2>0, <2>1 DEF WrittenRight
    <3> QED BY <2>1, <3>1, <3>2
  <2>2. CASE q # p
    <3>0. pc'[q] = pc[q]
      BY <1>4, <2>2, Kinds
    <3>1. WrittenRight(q)'
      BY <1>0, <3>0, <2>0 DEF WrittenRight
    <3>2. CASE pc[q] \in Owning
      <4>1. /\ position[q] \in Unfreed..(enqueue - 1)
            /\ position[q] \in Unfreed..(Unfreed + Slots - 1)
            /\ position[q] # enqueue /\ Unclaimed(position[q])
            /\ owner[SlotOf(position[q])] = q
        BY <1>1, <3>2, OwnerKnows, SMTT(30) DEF Unclaimed
      <4>2. owner'[SlotOf(position[q])] = q
        BY <1>7, <4>1
      <4>3. position[q] \in Unfreed..(enqueue' - 1)
        BY <1>0, <1>1, <4>1, SMTT(30)
      <4> QED
        BY <1>0, <1>6, <3>0, <3>1, <3>2, <4>1, <4>2, <4>3 DEF ClaimRight, Unclaimed, Owning
    <3>3. CASE pc[q] \notin Owning
      <4>1. pc[q] \in {"inspect", "swap"} => position[q] <= enqueue' /\ position[q] # enqueue'
        BY <1>0, <1>1, <2>0, SMTT(30) DEF ClaimRight, QueueInv, QueueTypes
      <4> QED
        BY <1>0, <3>0, <3>1, <3>3, <4>1 DEF ClaimRight
    <3> QED BY <3>2, <3>3
  <2> QED BY <2>1, <2>2
<1>10. ConsumerRight'
  BY <1>0, <1>1, <1>6, SMTT(30) DEF ConsumerRight, Settled, QueueInv
<1> QED
  BY <1>2, <1>5, <1>8, <1>9, <1>10 DEF QueueInv

\* StoreSequence settles the slot of p.
LEMMA StoreKeeps ==
    ASSUME QueueInv, NEW p \in Producers, StoreSequence(p)
    PROVE  QueueInv'
<1> DEFINE i == SlotOf(position[p])
<1>0. /\ pc[p] = "publish" /\ pc' = [pc EXCEPT ![p] = "bump"]
      /\ ret' = [ret EXCEPT ![p] = "call"]
      /\ sequence' = [sequence EXCEPT ![i] = position[p] + 1]
      /\ UNCHANGED <<sharedVars, waitVars, slotBytes, cancelled, value, owner, localVars>>
  BY DEF StoreSequence, Notify, Goto
<1>1. /\ pc[p] \in Owning /\ p \in Threads /\ p # Consumer
      /\ position[p] \in Unfreed..(enqueue - 1) /\ position[p] \in Unfreed..(Unfreed + Slots - 1)
      /\ position[p] \in Nat /\ i \in Ring /\ ~Settled(position[p])
  BY <1>0, OwnerKnows, Kinds DEF Owning
<1>2. ThreadTypes'
  <2>1. "bump" \in LabelsOf(p) /\ "call" \in ReturnsOf(p) /\ sleeping' = sleeping
    BY <1>0, Kinds DEF Notifying, waitVars
  <2> QED
    BY <1>0, <1>1, <2>1, MovesRight DEF QueueInv, QueueTypes
<1>3. pc'[p] = "bump" /\ \A t \in Threads \ {p} : pc'[t] = pc[t]
  BY <1>0, <1>1 DEF QueueInv, QueueTypes, ThreadTypes
<1>4. QueueTypes'
  BY <1>0, <1>1, <1>2, SMTT(30) DEF QueueTypes, QueueInv, sharedVars, localVars
<1>5. Unfreed' = Unfreed /\ Oldest' = Oldest /\ pc'[Consumer] = pc[Consumer]
  BY <1>0, <1>3, Kinds DEF Unfreed, Oldest, sharedVars
<1> HIDE DEF i
<1>6. /\ sequence'[SlotOf(position[p])] = position[p] + 1
      /\ \A n \in Unfreed..(Unfreed + Slots - 1) : n # position[p] =>
            /\ Settled(n)' <=> Settled(n)
            /\ Unclaimed(n)' <=> Unclaimed(n)
  <2>1. sequence \in [Ring -> Nat]
    BY DEF QueueInv, QueueTypes
  <2>2. sequence'[SlotOf(position[p])] = position[p] + 1
    BY <1>0, <1>1, <2>1 DEF i
  <2>3. ASSUME NEW n \in Unfreed..(Unfreed + Slots - 1), n # position[p]
        PROVE  sequence'[SlotOf(n)] = sequence[SlotOf(n)]
    <3>1. SlotOf(n) # i
      BY <1>1, <2>3, TurnApart DEF i
    <3> QED BY <1>0, <2>1, <3>1, SMTT(30)
  <2> QED BY <2>2, <2>3 DEF Settled, Unclaimed
<1>7. OneTurn'
  <2>0. /\ Unfreed \in Nat /\ enqueue \in Nat /\ Unfreed <= enqueue
        /\ enqueue <= Unfreed + Slots /\ Slots \in Nat /\ enqueue' = enqueue
    BY <1>0, SlotsPositive DEF QueueInv, OneTurn, QueueTypes, sharedVars
  <2>1. ASSUME NEW n \in Unfreed..(enqueue - 1)
        PROVE  (Settled(n) \/ (Unclaimed(n) /\ Owned(n)))'
    <3>1. CASE n = position[p]
      BY <1>6, <3>1 DEF Settled
    <3>2. CASE n # position[p]
      <4>1. n \in Unfreed..(Unfreed + Slots - 1)
        BY <2>0, SMTT(30)
      <4>2. Settled(n) \/ (Unclaimed(n) /\ Owned(n))
        BY DEF QueueInv, OneTurn
      <4>3. CASE Settled(n)
        BY <1>6, <3>2, <4>1, <4>3
      <4>4. CASE Unclaimed(n) /\ Owned(n)
        <5> DEFINE q == owner[SlotOf(n)]
        <5>1. q \in Producers /\ pc[q] \in Owning /\ position[q] = n /\ q # p
          BY <3>2, <4>4 DEF Owned
        <5>2. Unclaimed(n)'
          BY <1>6, <3>2, <4>1, <4>4
        <5>3. Owned(n)'
          BY <1>0, <1>3, <5>1, Kinds DEF Owned, localVars
        <5> QED BY <5>2, <5>3
      <4> QED BY <4>2, <4>3, <4>4
    <3> QED BY <3>1, <3>2
  <2>2. ASSUME NEW n \in enqueue..(Unfreed + Slots - 1) PROVE Unclaimed(n)'
    <3>1. n \in Unfreed..(Unfreed + Slots - 1) /\ n # position[p]
      BY <1>1, <2>0, SMTT(30)
    <3> QED BY <1>6, <3>1 DEF QueueInv, OneTurn
  <2> QED
    BY <1>5, <2>0, <2>1, <2>2 DEF OneTurn
<1>8. ASSUME NEW q \in Producers PROVE ClaimRight(q)' /\ WrittenRight(q)'
  <2>0. ClaimRight(q) /\ WrittenRight(q)
    BY DEF QueueInv
  <2>1. CASE q = p
    BY <1>0, <1>3, <2>0, <2>1 DEF ClaimRight, WrittenRight, Owning, sharedVars, localVars
  <2>2. CASE q # p
    <3>0. pc'[q] = pc[q] /\ UNCHANGED <<enqueue, position, calls, load>>
      BY <1>0, <1>3, <2>2, Kinds DEF sharedVars, localVars
    <3>1. WrittenRight(q)'
      BY <1>0, <2>0, <3>0 DEF WrittenRight
    <3>2. pc[q] \in Owning => Unclaimed(position[q])'
      <4> SUFFICES ASSUME pc[q] \in Owning PROVE Unclaimed(position[q])'
        OBVIOUS
      <4>1. position[q] # position[p] /\ position[q] \in Unfreed..(Unfreed + Slots - 1)
            /\ Unclaimed(position[q])
        BY <1>1, <2>2, OwnerKnows DEF Unclaimed
      <4> QED BY <1>6, <3>0, <4>1 DEF Unclaimed
    <3>3. pc[q] = "swap" /\ position[q] = enqueue => Unclaimed(enqueue)'
      <4> SUFFICES ASSUME pc[q] = "swap", position[q] = enqueue PROVE Unclaimed(enqueue)'
        OBVIOUS
      <4>1. sequence[SlotOf(enqueue)] = enqueue /\ enqueue \in Nat
        BY <2>0 DEF ClaimRight, Unclaimed, QueueInv, QueueTypes
      <4>2. sequence[i] = position[p]
        BY <1>1, OwnerKnows DEF i
      <4>3. position[p] # enqueue
        BY <1>1, <4>1, SMTT(30)
      <4>4. SlotOf(enqueue) # i
        BY <4>1, <4>2, <4>3
      <4> QED BY <1>0, <3>0, <4>1, <4>4, SMTT(30) DEF Unclaimed, QueueInv, QueueTypes
    <3> QED
      BY <1>0, <1>5, <2>0, <3>0, <3>1, <3>2, <3>3 DEF ClaimRight
  <2> QED BY <2>1, <2>2
<1>9. ConsumerRight'
  <2>0. ConsumerRight /\ Unfreed \in Nat /\ Slots \in Nat /\ Slots >= 2
    BY SlotsPositive DEF QueueInv, OneTurn
  <2>1. Settled(Unfreed) => sequence'[SlotOf(Unfreed)] = Unfreed + 1
    <3>1. Unfreed \in Unfreed..(Unfreed + Slots - 1)
      BY <2>0, SMTT(30)
    <3> QED BY <1>1, <1>6, <3>1 DEF Settled
  <2>2. UNCHANGED <<dequeue, enqueue, closed, carried>>
    BY <1>0 DEF sharedVars, localVars
  <2>3. pc[Consumer] = "take" => Settled(dequeue)'
    BY <2>0, <2>1, <2>2 DEF ConsumerRight, Unfreed, Settled
  <2>4. pc[Consumer] \in {"read", "free"} => Settled(Unfreed)'
    BY <1>5, <2>0, <2>1 DEF ConsumerRight, Settled
  <2> QED
    BY <1>5, <2>0, <2>2, <2>3, <2>4 DEF ConsumerRight
<1> QED
  BY <1>4, <1>7, <1>8, <1>9 DEF QueueInv

(***************************************************************************)
(* The steps of pop.                                                       *)
(***************************************************************************)
\* A step of the consumer that gives no slot back.
Consuming ==
    /\ UNCHANGED <<load, enqueue, closed, slotVars, position, calls>>
    /\ dequeue' \in Nat /\ bytesUsed' \in Int
    /\ carried' \in [bytes : Nat, item : Items \cup {NoItem}]
    /\ Unfreed' = Unfreed
    /\ ThreadTypes'
    /\ \A p \in Producers : pc'[p] = pc[p]

\* Such a step leaves producers and slots as they were.
LEMMA ConsumingKeeps ==
    ASSUME QueueInv, Consuming, ConsumerRight'
    PROVE  QueueInv'
<1>1. QueueTypes'
  BY DEF QueueTypes, Consuming, slotVars, QueueInv
<1>2. OneTurn'
  BY DEF OneTurn, Settled, Unclaimed, Owned, Consuming, slotVars, QueueInv
<1>3. ASSUME NEW p \in Producers PROVE ClaimRight(p)' /\ WrittenRight(p)'
  <2>1. ClaimRight(p) /\ WrittenRight(p) /\ pc'[p] = pc[p]
    BY DEF QueueInv, Consuming
  <2>2. ClaimRight(p)'
    BY <2>1 DEF ClaimRight, Unclaimed, Consuming, slotVars
  <2>3. WrittenRight(p)'
    BY <2>1 DEF WrittenRight, Consuming, slotVars
  <2> QED BY <2>2, <2>3
<1> QED
  BY <1>1, <1>2, <1>3 DEF QueueInv

\* The consumer finds a settled slot, and takes it.
LEMMA TakeKeeps ==
    ASSUME QueueInv, (Pop /\ pc'[Consumer] = "take") \/ TakeSlot
    PROVE  QueueInv'
<1>0. dequeue \in Nat /\ Consumer \in Threads /\ carried.bytes = 0
  BY Kinds DEF QueueInv, QueueTypes, ConsumerRight, Pop, TakeSlot
<1>1. PICK l \in {"take", "read"} :
         /\ pc' = [pc EXCEPT ![Consumer] = l]
         /\ UNCHANGED <<load, enqueue, bytesUsed, closed, waitVars, slotVars, ret, localVars>>
         /\ pc[Consumer] \in {"pop", "take"}
         /\ l = "take" => dequeue' = dequeue /\ Settled(dequeue)
         /\ l = "read" => dequeue' = dequeue + 1 /\ pc[Consumer] = "take"
  <2>1. CASE Pop /\ pc'[Consumer] = "take"
    <3>1. /\ pc' = [pc EXCEPT ![Consumer] = "take"] /\ pc[Consumer] = "pop"
          /\ UNCHANGED <<sharedVars, waitVars, slotVars, ret, localVars>>
          /\ sequence[SlotOf(dequeue)] = dequeue + 1
      BY <1>0, <2>1 DEF Pop, Goto, QueueInv, QueueTypes, ThreadTypes
    <3> QED BY <3>1 DEF sharedVars, Settled
  <2>2. CASE TakeSlot
    BY <2>2 DEF TakeSlot, Goto
  <2> QED BY <2>1, <2>2
<1>2. ThreadTypes'
  <2>1. l \in LabelsOf(Consumer) /\ l \notin Notifying /\ sleeping' = sleeping
    BY <1>1, Kinds DEF Notifying, waitVars
  <2> QED
    BY <1>0, <1>1, <2>1, MovesRight DEF QueueInv, QueueTypes
<1>3. pc'[Consumer] = l /\ \A p \in Producers : pc'[p] = pc[p]
  BY <1>0, <1>1, Kinds DEF QueueInv, QueueTypes, ThreadTypes
<1>4. /\ Unfreed = dequeue /\ Unfreed' = Unfreed
      /\ Oldest = dequeue /\ Oldest' = Oldest
  BY <1>0, <1>1, <1>3, SMTT(30) DEF Unfreed, Oldest
<1>5. Consuming
  BY <1>0, <1>1, <1>2, <1>3, <1>4, SMTT(30) DEF Consuming, localVars, QueueInv, QueueTypes
<1>6. ConsumerRight'
  <2>1. Settled(dequeue)
    BY <1>1 DEF QueueInv, ConsumerRight
  <2>2. dequeue < enqueue
    <3>1. /\ enqueue \in Nat /\ dequeue <= enqueue /\ Slots \in Nat /\ Slots >= 2
      BY <1>4, SlotsPositive DEF QueueInv, OneTurn, QueueTypes
    <3>2. dequeue # enqueue
      <4> SUFFICES ASSUME dequeue = enqueue PROVE FALSE
        OBVIOUS
      <4>1. dequeue \in enqueue..(Unfreed + Slots - 1)
        BY <1>0, <1>4, <3>1, SMTT(30)
      <4>2. Unclaimed(dequeue)
        BY <4>1 DEF QueueInv, OneTurn
      <4> QED BY <1>0, <2>1, <4>2, SMTT(30) DEF Settled, Unclaimed
    <3> QED BY <1>0, <3>1, <3>2, SMTT(30)
  <2>3. UNCHANGED <<enqueue, sequence, carried>>
    BY <1>1 DEF slotVars, localVars
  <2> QED
    BY <1>0, <1>1, <1>3, <1>4, <2>1, <2>2, <2>3 DEF ConsumerRight, Settled
<1> QED
  BY <1>5, <1>6, ConsumingKeeps

\* The consumer reads the slot it took.
LEMMA ReadKeeps ==
    ASSUME QueueInv, ReadSlot
    PROVE  QueueInv'
<1> DEFINE i == SlotOf(dequeue - 1)
<1>0. /\ pc[Consumer] = "read" /\ pc' = [pc EXCEPT ![Consumer] = "free"]
      /\ carried' = [bytes |-> slotBytes[i], item |-> IF cancelled[i] THEN NoItem ELSE value[i]]
      /\ UNCHANGED <<sharedVars, waitVars, slotVars, ret, position, calls>>
  BY DEF ReadSlot, Goto
<1>1. /\ dequeue \in Nat /\ enqueue \in Nat /\ Unfreed = dequeue - 1 /\ Unfreed \in Nat
      /\ Oldest = dequeue - 1
      /\ Unfreed < enqueue /\ Settled(Unfreed) /\ i \in Ring /\ carried.bytes = 0
      /\ carried \in [bytes : Nat, item : Items \cup {NoItem}]
  BY <1>0, SlotIn DEF Unfreed, Oldest, QueueInv, QueueTypes, ConsumerRight, OneTurn
<1>2. ThreadTypes'
  <2>1. "free" \in LabelsOf(Consumer) /\ "free" \notin Notifying /\ sleeping' = sleeping
    BY <1>0, Kinds DEF Notifying, waitVars
  <2> QED
    BY <1>0, <2>1, Kinds, MovesRight DEF QueueInv, QueueTypes
<1>3. pc'[Consumer] = "free" /\ \A p \in Producers : pc'[p] = pc[p]
  BY <1>0, Kinds DEF QueueInv, QueueTypes, ThreadTypes
<1>4. Unfreed' = Unfreed /\ Oldest' = dequeue
  BY <1>0, <1>1, <1>3 DEF Unfreed, Oldest, sharedVars
<1>5. slotBytes[i] \in Nat /\ carried' \in [bytes : Nat, item : Items \cup {NoItem}]
  BY <1>0, <1>1 DEF QueueInv, QueueTypes
<1>6. Consuming
  BY <1>0, <1>1, <1>2, <1>3, <1>4, <1>5 DEF Consuming, sharedVars, QueueInv, QueueTypes
<1>7. ConsumerRight'
  BY <1>0, <1>1, <1>3, <1>4 DEF ConsumerRight, Settled, sharedVars, slotVars
<1> HIDE DEF i
<1> QED
  BY <1>6, <1>7, ConsumingKeeps

\* The consumer gives the slot back, for the next turn of the ring.
LEMMA FreeKeeps ==
    ASSUME QueueInv, FreeSlot
    PROVE  QueueInv'
<1> DEFINE u == Unfreed
<1>0. /\ pc[Consumer] = "free" /\ pc' = [pc EXCEPT ![Consumer] = "release"]
      /\ sequence' = [sequence EXCEPT ![SlotOf(dequeue - 1)] = dequeue - 1 + Slots]
      /\ UNCHANGED <<sharedVars, waitVars, slotBytes, cancelled, value, owner, ret, localVars>>
  BY DEF FreeSlot, Goto
<1>1. /\ dequeue \in Nat /\ enqueue \in Nat /\ u = dequeue - 1 /\ u \in Nat
      /\ Oldest = dequeue /\ u < enqueue /\ Settled(u) /\ SlotOf(u) \in Ring
      /\ Slots \in Nat /\ Slots >= 2 /\ enqueue <= u + Slots
  BY <1>0, SlotIn, SlotsPositive DEF Unfreed, Oldest, QueueInv, QueueTypes, ConsumerRight, OneTurn
<1>2. ThreadTypes'
  <2>1. "release" \in LabelsOf(Consumer) /\ "release" \notin Notifying /\ sleeping' = sleeping
    BY <1>0, Kinds DEF Notifying, waitVars
  <2> QED
    BY <1>0, <2>1, Kinds, MovesRight DEF QueueInv, QueueTypes
<1>3. pc'[Consumer] = "release" /\ \A p \in Producers : pc'[p] = pc[p]
  BY <1>0, Kinds DEF QueueInv, QueueTypes, ThreadTypes
<1>4. Unfreed' = u + 1 /\ Oldest' = Oldest /\ enqueue' = enqueue
  BY <1>0, <1>1, <1>3, SMTT(30) DEF Unfreed, Oldest, sharedVars
<1>5. sequence \in [Ring -> Nat] /\ sequence' = [sequence EXCEPT ![SlotOf(u)] = u + Slots]
  BY <1>0, <1>1 DEF QueueInv, QueueTypes
<1>6. QueueTypes'
  <2>1. sequence' \in [Ring -> Nat]
    BY <1>1, <1>5, SMTT(30)
  <2> QED
    BY <1>0, <1>2, <2>1 DEF QueueTypes, QueueInv, sharedVars, localVars
<1>7. \A m \in (u + 1)..(u + Slots - 1) :
         SlotOf(m) \in Ring /\ sequence'[SlotOf(m)] = sequence[SlotOf(m)]
  <2> TAKE m \in (u + 1)..(u + Slots - 1)
  <2>1. m \in Nat /\ m \in u..(u + Slots - 1) /\ u \in u..(u + Slots - 1) /\ m # u
    BY <1>1, SMTT(30)
  <2>2. SlotOf(m) # SlotOf(u)
    BY <2>1, TurnApart
  <2> QED BY <1>5, <2>1, <2>2, SlotIn
<1>8. sequence'[SlotOf(u + Slots)] = u + Slots
  BY <1>1, <1>5, SlotTurn
<1>9. \A p \in Producers : pc[p] \in Owning =>
         /\ position[p] \in (u + 1)..(enqueue - 1)
         /\ position[p] \in (u + 1)..(u + Slots - 1)
  <2> SUFFICES ASSUME NEW p \in Producers, pc[p] \in Owning
               PROVE  /\ position[p] \in (u + 1)..(enqueue - 1)
                      /\ position[p] \in (u + 1)..(u + Slots - 1)
    OBVIOUS
  <2>1. position[p] \in u..(enqueue - 1) /\ ~Settled(position[p])
    BY OwnerKnows
  <2>2. position[p] # u
    BY <1>1, <2>1
  <2> HIDE DEF u
  <2> QED BY <1>1, <2>1, <2>2, SMTT(30)
<1>10. OneTurn'
  <2>1. \A n \in (u + 1)..(enqueue - 1) : Settled(n)' \/ (Unclaimed(n)' /\ Owned(n)')
    <3> TAKE n \in (u + 1)..(enqueue - 1)
    <3>1. n \in u..(enqueue - 1) /\ n \in (u + 1)..(u + Slots - 1)
      BY <1>1, SMTT(30)
    <3>2. Settled(n) \/ (Unclaimed(n) /\ Owned(n))
      BY <3>1 DEF QueueInv, OneTurn
    <3>3. sequence'[SlotOf(n)] = sequence[SlotOf(n)]
      BY <1>7, <3>1
    <3>4. Owned(n) => Owned(n)'
      BY <1>0, <1>3 DEF Owned, localVars
    <3> QED BY <3>2, <3>3, <3>4 DEF Settled, Unclaimed
  <2>2. \A n \in enqueue..(u + Slots) : Unclaimed(n)'
    <3> TAKE n \in enqueue..(u + Slots)
    <3>1. CASE n = u + Slots
      BY <1>8, <3>1 DEF Unclaimed
    <3>2. CASE n # u + Slots
      <4>1. n \in enqueue..(u + Slots - 1) /\ n \in (u + 1)..(u + Slots - 1)
        BY <1>1, <3>2, SMTT(30)
      <4>2. Unclaimed(n)
        BY <4>1 DEF QueueInv, OneTurn
      <4> QED BY <1>7, <4>1, <4>2 DEF Unclaimed
    <3> QED BY <3>1, <3>2
  <2> HIDE DEF u
  <2>3. u + 1 \in Nat /\ u + 1 <= enqueue /\ enqueue <= u + 1 + Slots
        /\ u + 1 + Slots - 1 = u + Slots
    BY <1>1, SMTT(30)
  <2> QED
    BY <1>4, <2>1, <2>2, <2>3 DEF OneTurn
<1>11. ASSUME NEW p \in Producers PROVE ClaimRight(p)' /\ WrittenRight(p)'
  <2>1. /\ ClaimRight(p) /\ WrittenRight(p) /\ pc'[p] = pc[p]
        /\ UNCHANGED <<position, calls, owner, cancelled, slotBytes, value, load, enqueue>>
    BY <1>0, <1>3, <1>4 DEF QueueInv, localVars, sharedVars
  <2>2. pc[p] \in Owning => sequence'[SlotOf(position[p])] = position[p]
    BY <1>7, <1>9, OwnerKnows
  <2>3. sequence'[SlotOf(enqueue)] = enqueue
    <3>1. enqueue \in enqueue'..(Unfreed' + Slots - 1)
      BY <1>1, <1>4, SMTT(30)
    <3>2. \A n \in enqueue'..(Unfreed' + Slots - 1) : sequence'[SlotOf(n)] = n
      BY <1>10 DEF OneTurn, Unclaimed
    <3> QED BY <3>1, <3>2
  <2> HIDE DEF u
  <2>4. ClaimRight(p)'
    BY <1>4, <1>9, <2>1, <2>2, <2>3 DEF ClaimRight, Unclaimed
  <2>5. WrittenRight(p)'
    BY <2>1 DEF WrittenRight
  <2> QED BY <2>4, <2>5
<1>12. ConsumerRight'
  BY <1>3 DEF ConsumerRight
<1> QED
  BY <1>6, <1>10, <1>11, <1>12 DEF QueueInv

\* The consumer uncharges what it read, and tells the others.
LEMMA ReleaseKeeps ==
    ASSUME QueueInv, ReleaseBytes
    PROVE  QueueInv'
<1> DEFINE r == IF carried.item = NoItem THEN "pop" ELSE "observe"
<1>0. /\ pc[Consumer] = "release" /\ pc' = [pc EXCEPT ![Consumer] = "bump"]
      /\ ret' = [ret EXCEPT ![Consumer] = r]
      /\ bytesUsed' = bytesUsed - carried.bytes /\ carried' = [bytes |-> 0, item |-> NoItem]
      /\ UNCHANGED <<load, enqueue, dequeue, closed, waitVars, slotVars, position, calls>>
  BY DEF ReleaseBytes, Notify, Goto
<1>1. r \in ReturnsOf(Consumer)
  BY Kinds
<1> HIDE DEF r
<1>2. ThreadTypes'
  <2>1. "bump" \in LabelsOf(Consumer) /\ sleeping' = sleeping
    BY <1>0, Kinds DEF Notifying, waitVars
  <2> QED
    BY <1>0, <1>1, <2>1, Kinds, MovesRight DEF QueueInv, QueueTypes
<1>3. pc'[Consumer] = "bump" /\ \A p \in Producers : pc'[p] = pc[p]
  BY <1>0, Kinds DEF QueueInv, QueueTypes, ThreadTypes
<1>4. Unfreed' = Unfreed /\ Oldest' = Oldest
  BY <1>0, <1>3 DEF Unfreed, Oldest
<1>5. carried.bytes \in Nat /\ bytesUsed \in Int
  BY DEF QueueInv, QueueTypes
<1>6. Consuming
  BY <1>0, <1>2, <1>3, <1>4, <1>5, SMTT(30) DEF Consuming, QueueInv, QueueTypes
<1>7. ConsumerRight'
  BY <1>0, <1>3 DEF ConsumerRight
<1> QED
  BY <1>6, <1>7, ConsumingKeeps

(***************************************************************************)
(* The invariant holds.                                                    *)
(***************************************************************************)
\* A new queue: every slot is free.
LEMMA QueueStarts == Init => QueueInv
<1> SUFFICES ASSUME Init PROVE QueueInv
  OBVIOUS
<1> USE DEF Init
<1>0. Slots \in Nat /\ Slots >= 2 /\ \A i \in Ring : SlotOf(i) = i
  <2>1. Slots \in Nat \ {0} /\ Slots >= 2
    BY SlotsPositive
  <2>2. \A i \in Ring : i % Slots = i
    BY <2>1, ModBelow DEF Ring
  <2> QED BY <2>1, <2>2 DEF SlotOf
<1>1. /\ pc[Consumer] = "observe" /\ pc[Closer] = "close"
      /\ \A p \in Producers : pc[p] = "call"
  BY Kinds
<1>2. ThreadTypes
  <2>1. \A t \in Threads : pc[t] \in LabelsOf(t) /\ pc[t] \notin Notifying
    BY <1>1, Kinds, SMTT(30) DEF Notifying, Waiting
  <2>2. \A t \in Threads : pc[t] \in UNION {LabelsOf(u) : u \in Threads}
    BY <2>1, SMTT(30)
  <2>3. pc \in [Threads -> UNION {LabelsOf(t) : t \in Threads}]
    BY <2>2
  <2> QED
    BY <2>1, <2>3 DEF ThreadTypes
<1>3. QueueTypes
  <2>1. sequence \in [Ring -> Nat] /\ owner \in [Ring -> Threads]
    BY <1>0, Kinds, SMTT(30) DEF Ring
  <2>2. /\ slotBytes \in [Ring -> Nat] /\ cancelled \in [Ring -> BOOLEAN]
        /\ value \in [Ring -> Items \cup {NoItem}]
    BY DEF Ring
  <2>3. /\ position \in [Producers -> Nat] /\ calls \in [Producers -> Nat]
        /\ carried \in [bytes : Nat, item : Items \cup {NoItem}]
    OBVIOUS
  <2>4. enqueue \in Nat /\ dequeue \in Nat /\ bytesUsed \in Int
    BY SMTT(30)
  <2>6. closed \in BOOLEAN
    OBVIOUS
  <2>5. load \in Loads
    OBVIOUS
  <2> HIDE DEF Init
  <2> QED
    BY <1>2, <2>1, <2>2, <2>3, <2>4, <2>5, <2>6 DEF QueueTypes
<1>4. Unfreed = 0 /\ Oldest = 0
  BY <1>1 DEF Unfreed, Oldest
<1>5. OneTurn
  BY <1>0, <1>4, SMTT(30) DEF OneTurn, Unclaimed, Ring
<1>6. \A p \in Producers : ClaimRight(p) /\ WrittenRight(p)
  <2> TAKE p \in Producers
  <2>1. calls[p] = 0 /\ load.calls[p] \in Nat
    BY QueueAssumption
  <2>2. ClaimRight(p)
    BY <1>1 DEF ClaimRight, Owning
  <2>3. WrittenRight(p)
    BY <1>1, <2>1, SMTT(30) DEF WrittenRight
  <2> QED BY <2>2, <2>3
<1>7. ConsumerRight
  BY <1>1 DEF ConsumerRight
<1>8. QueueInv
  BY <1>3, <1>5, <1>6, <1>7 DEF QueueInv
<1> QED
  BY <1>8

\* A step in which no variable changes.
LEMMA StutterKeeps == QueueInv /\ UNCHANGED vars => QueueInv'
<1> SUFFICES ASSUME QueueInv, UNCHANGED vars PROVE QueueInv'
  OBVIOUS
<1>1. Standing
  <2>1. UNCHANGED <<enqueue, dequeue, bytesUsed, closed, load, slotVars, position, calls,
                    carried, pc, ret, sleeping>>
    BY DEF vars, sharedVars, waitVars, localVars
  <2>2. ThreadTypes' /\ closed \in BOOLEAN /\ ConsumerRight
    BY <2>1 DEF QueueInv, QueueTypes, ThreadTypes, ConsumerRight
  <2> QED
    BY <2>1, <2>2 DEF Standing, ConsumerRight
<1> QED
  BY <1>1, StandingKeeps

\* Every step of a producer keeps the invariant.
LEMMA ProduceKeeps ==
    ASSUME QueueInv, NEW p \in Producers, Produce(p)
    PROVE  QueueInv'
<1>0. QueueInv /\ QueueTypes
  BY DEF QueueInv
<1>1. CASE Call(p) \/ LoadPosition(p) \/ Uncharge(p)
  <2>1. \/ Call(p) \/ (Charge(p) /\ bytesUsed + Bytes[p] <= load.capacity)
        \/ LoadPosition(p) \/ Uncharge(p)
    BY <1>1
  <2>2. Asking(p)
    BY <1>0, <2>1, ProducerAsks
  <2> QED BY <2>2, AskingKeeps
<1>2. CASE Charge(p)
  BY <1>0, <1>2, ProducerAsks, AskingKeeps, ChargeFailStands, StandingKeeps
<1>3. CASE CheckClosed(p)
  BY <1>0, <1>3, CheckClosedStands, StandingKeeps
<1>4. CASE Inspect(p) \/ Recheck(p) \/ UsePermit(p)
  <2>1. \/ Inspect(p) \/ (Swap(p) /\ enqueue' = enqueue)
        \/ Recheck(p) \/ UsePermit(p)
    BY <1>4
  <2>2. Turning(p)
    BY <1>0, <2>1, ProducerTurns
  <2> QED BY <2>2, TurningKeeps
<1>5. CASE Swap(p)
  BY <1>0, <1>5, ProducerTurns, TurningKeeps, SwapKeeps
<1>6. CASE WriteSlot(p) \/ CancelSlot(p) \/ Refund(p)
  BY <1>0, <1>6, ProducerFills, FillingKeeps
<1>7. CASE StoreSequence(p)
  BY <1>7, StoreKeeps
<1> QED
  BY <1>1, <1>2, <1>3, <1>4, <1>5, <1>6, <1>7 DEF Produce

\* Every step of the consumer keeps the invariant.
LEMMA ConsumeKeeps ==
    ASSUME QueueInv, Consume
    PROVE  QueueInv'
<1>0. QueueTypes
  BY DEF QueueInv
<1>1. CASE Pop
  BY <1>0, <1>1, TakeKeeps, SearchStands, StandingKeeps
<1>2. CASE Empty \/ IsDrained
  BY <1>0, <1>2, SearchStands, StandingKeeps
<1> QED
  BY <1>1, <1>2, TakeKeeps, ReadKeeps, FreeKeeps, ReleaseKeeps DEF Consume

\* Every step of the queue keeps the invariant.
LEMMA QueueSteps == QueueInv /\ [Next]_vars => QueueInv'
<1> SUFFICES ASSUME QueueInv, [Next]_vars PROVE QueueInv'
  OBVIOUS
<1>0. QueueTypes
  BY DEF QueueInv
<1>1. ASSUME NEW p \in Producers, Produce(p) PROVE QueueInv'
  BY <1>1, ProduceKeeps
<1>2. CASE Consume
  BY <1>2, ConsumeKeeps
<1>3. CASE CloseQueue
  BY <1>0, <1>3, CloseStands, StandingKeeps
<1>4. ASSUME NEW t \in Threads, Wait(t) PROVE QueueInv'
  BY <1>0, <1>4, WaitStands, StandingKeeps
<1>5. CASE UNCHANGED vars
  BY <1>5, StutterKeeps
<1> QED
  BY <1>1, <1>2, <1>3, <1>4, <1>5 DEF Next, Quiet

\* ONE TURN OF THE RING, ALWAYS.  In every state of the queue the slots stand for
\* Slots consecutive positions, each free, owned by one producer or settled
\* (queue.rs, Inner::try_reserve, publish, cancel and pop).
THEOREM QueueInvHolds == Spec => []QueueInv
  BY QueueStarts, QueueSteps, PTL DEF Spec

\* NO SHARED SLOT, for any number of producers and slots: the cell of a slot is
\* never open to two threads, as the unsafe accesses of publish, cancel and pop
\* require (queue.rs).
THEOREM SlotsNeverShared == Spec => []ExclusiveSlots
<1>1. QueueInv => ExclusiveSlots
  BY InvExclusive
<1> QED
  BY <1>1, QueueInvHolds, PTL

(***************************************************************************)
(* The queue implements the channel.                                       *)
(***************************************************************************)
\* p holds a granted claim.
GrantedTo(p) == \/ pc[p] \in {"permit", "write"}
                \/ pc[p] = "publish" /\ ~cancelled[SlotOf(position[p])]

Places == [owner : Threads, state : {Reserved, Published, Cancelled},
           msg : Items \cup {NoItem}]

\* The channel is a sequence with one place for each position that is claimed and
\* not yet read.
LEMMA ChanTyped ==
    QueueInv => /\ Chan \in Seq(Places) /\ Len(Chan) = enqueue - Oldest
                /\ enqueue - Oldest \in Nat
                /\ DOMAIN Chan = 1..(enqueue - Oldest)
                /\ \A k \in 1..(enqueue - Oldest) :
                      /\ Chan[k] = Place(Oldest + k - 1)
                      /\ Oldest + k - 1 \in Oldest..(enqueue - 1)
<1> SUFFICES ASSUME QueueInv
             PROVE  /\ Chan \in Seq(Places) /\ Len(Chan) = enqueue - Oldest
                    /\ enqueue - Oldest \in Nat
                    /\ DOMAIN Chan = 1..(enqueue - Oldest)
                    /\ \A k \in 1..(enqueue - Oldest) :
                          /\ Chan[k] = Place(Oldest + k - 1)
                          /\ Oldest + k - 1 \in Oldest..(enqueue - 1)
  OBVIOUS
<1>1. Oldest \in Nat /\ enqueue \in Nat /\ Oldest <= enqueue
  BY OldestInTurn
<1>2. \A n \in Oldest..(enqueue - 1) : Place(n) \in Places
  <2> TAKE n \in Oldest..(enqueue - 1)
  <2> DEFINE i == SlotOf(n)
             st == IF ~Settled(n) THEN Reserved
                   ELSE IF cancelled[i] THEN Cancelled ELSE Published
  <2>1. i \in Ring
    BY <1>1, SlotIn, SMTT(30)
  <2>2. owner[i] \in Threads /\ value[i] \in Items \cup {NoItem}
    BY <2>1 DEF QueueInv, QueueTypes
  <2>3. Place(n) = [owner |-> owner[i], state |-> st,
                    msg |-> IF st = Published THEN value[i] ELSE NoItem]
    BY DEF Place
  <2>4. st \in {Reserved, Published, Cancelled}
    OBVIOUS
  <2> HIDE DEF i, st
  <2> QED BY <2>2, <2>3, <2>4, SMTT(30) DEF Places
<1>3. \A k \in 1..(enqueue - Oldest) : /\ Oldest + k - 1 \in Oldest..(enqueue - 1)
                                       /\ Chan[k] = Place(Oldest + k - 1)
  BY <1>1, SMTT(30) DEF Chan
<1>4. Chan \in [1..(enqueue - Oldest) -> Places]
  <2>1. \A k \in 1..(enqueue - Oldest) : Chan[k] \in Places
    BY <1>2, <1>3
  <2> QED BY <2>1 DEF Chan
<1>5. enqueue - Oldest \in Nat
  BY <1>1, SMTT(30)
<1> QED
  BY <1>3, <1>4, <1>5, SMTT(30)

\* A claimed place that is not settled is held by the producer at that position.
LEMMA HolderIs ==
    ASSUME QueueInv, NEW p \in Producers
    PROVE  /\ pc[p] \in Owning => position[p] \in Oldest..(enqueue - 1)
           /\ \A n \in Oldest..(enqueue - 1) :
                 (owner[SlotOf(n)] = p /\ ~Settled(n))
                     <=> (pc[p] \in Owning /\ position[p] = n)
<1>1. pc[p] \in Owning => position[p] \in Oldest..(enqueue - 1)
  <2> SUFFICES ASSUME pc[p] \in Owning PROVE position[p] \in Oldest..(enqueue - 1)
    OBVIOUS
  <2>1. position[p] \in Unfreed..(enqueue - 1) /\ ~Settled(position[p])
    BY OwnerKnows
  <2>2. Oldest = Unfreed \/ (Oldest = Unfreed + 1 /\ Settled(Unfreed))
    BY SMTT(30) DEF Oldest, Unfreed, QueueInv, ConsumerRight, QueueTypes
  <2>3. Unfreed \in Nat /\ enqueue \in Nat
    BY DEF QueueInv, OneTurn, QueueTypes
  <2> QED BY <2>1, <2>2, <2>3, SMTT(30)
<1>2. ASSUME NEW n \in Oldest..(enqueue - 1), owner[SlotOf(n)] = p, ~Settled(n)
      PROVE  pc[p] \in Owning /\ position[p] = n
  <2>1. n \in Unfreed..(enqueue - 1)
    BY OldestInTurn
  <2> QED BY <1>2, <2>1 DEF QueueInv, OneTurn, Owned
<1> QED
  BY <1>1, <1>2, OwnerKnows

\* What the channel shows of a slot does not change unless the slot does.
LEMMA PlaceStays ==
    ASSUME NEW n, sequence'[SlotOf(n)] = sequence[SlotOf(n)],
           owner'[SlotOf(n)] = owner[SlotOf(n)],
           Settled(n) => /\ cancelled'[SlotOf(n)] = cancelled[SlotOf(n)]
                         /\ value'[SlotOf(n)] = value[SlotOf(n)]
    PROVE  Place(n)' = Place(n)
<1>1. Settled(n)' <=> Settled(n)
  BY DEF Settled
<1>2. CASE Settled(n)
  BY <1>1, <1>2 DEF Place
<1>3. CASE ~Settled(n)
  BY <1>1, <1>3 DEF Place, Reserved, Published
<1> QED
  BY <1>2, <1>3

\* A step that changes none of the places.
LEMMA ChanStays ==
    ASSUME enqueue' = enqueue, Oldest' = Oldest,
           \A n \in Oldest..(enqueue - 1) : Place(n)' = Place(n),
           QueueInv
    PROVE  Chan' = Chan
<1>1. \A k \in 1..(enqueue - Oldest) : Place(Oldest + k - 1)' = Place(Oldest + k - 1)
  <2> TAKE k \in 1..(enqueue - Oldest)
  <2>1. Oldest + k - 1 \in Oldest..(enqueue - 1)
    BY ChanTyped
  <2> DEFINE n == Oldest + k - 1
  <2>2. n' = n
    OBVIOUS
  <2> QED BY <2>1, <2>2
<1> QED
  BY <1>1 DEF Chan

\* Permits stay where they are while no thread's claim to one changes.
LEMMA GrantedStays ==
    ASSUME \A p \in Producers : GrantedTo(p)' <=> GrantedTo(p)
    PROVE  Granted' = Granted
<1>1. Granted = {p \in Producers : GrantedTo(p)}
  BY DEF Granted, GrantedTo
<1>2. Granted' = {p \in Producers : GrantedTo(p)'}
  BY DEF Granted, GrantedTo
<1> QED
  BY <1>1, <1>2

\* Threads that hold nothing move about: the channel does not see them.
LEMMA StandingChannel ==
    ASSUME QueueInv, Standing
    PROVE  Chan' = Chan /\ Granted' = Granted
<1>1. enqueue' = enqueue /\ Oldest' = Oldest /\ UNCHANGED <<slotVars, position>>
  BY DEF Standing, Oldest
<1>2. \A n \in Oldest..(enqueue - 1) : Place(n)' = Place(n)
  BY <1>1, PlaceStays DEF slotVars
<1>3. \A p \in Producers : GrantedTo(p)' <=> GrantedTo(p)
  <2> TAKE p \in Producers
  <2>1. pc'[p] = pc[p] \/ (pc[p] \in Aside \ {"call"} /\ pc'[p] \in Aside)
    BY DEF Standing
  <2> QED BY <1>1, <2>1 DEF GrantedTo, Aside, Notifying, Waiting, slotVars
<1> QED
  BY <1>1, <1>2, <1>3, ChanStays, GrantedStays

\* A producer moves on: only its own permit may change.
LEMMA TurningChannel ==
    ASSUME QueueInv, NEW p \in Producers, Turning(p)
    PROVE  /\ Chan' = Chan /\ pc'[Consumer] = pc[Consumer]
           /\ Granted' = IF pc'[p] \in {"permit", "write"} THEN Granted \cup {p}
                         ELSE Granted \ {p}
<1>1. /\ enqueue' = enqueue /\ UNCHANGED <<slotVars, position, dequeue>>
      /\ pc'[Consumer] = pc[Consumer]
      /\ \A q \in Producers \ {p} : pc'[q] = pc[q]
  BY Kinds DEF Turning, sharedVars
<1>2. Oldest' = Oldest
  BY <1>1 DEF Oldest
<1>3. \A n \in Oldest..(enqueue - 1) : Place(n)' = Place(n)
  BY <1>1, PlaceStays DEF slotVars
<1>4. \A q \in Producers \ {p} : GrantedTo(q)' <=> GrantedTo(q)
  BY <1>1 DEF GrantedTo, slotVars
<1>5. GrantedTo(p)' <=> pc'[p] \in {"permit", "write"}
  BY DEF Turning, GrantedTo
<1>6. Granted = {q \in Producers : GrantedTo(q)}
  BY DEF Granted, GrantedTo
<1>7. Granted' = {q \in Producers : GrantedTo(q)'}
  BY DEF Granted, GrantedTo
<1>8. Granted' = IF pc'[p] \in {"permit", "write"} THEN Granted \cup {p} ELSE Granted \ {p}
  BY <1>4, <1>5, <1>6, <1>7
<1> QED
  BY <1>1, <1>2, <1>3, <1>8, ChanStays

\* A producer charges, uncharges or looks where the tail is.
LEMMA AskingChannel ==
    ASSUME QueueInv, NEW p \in Producers, Asking(p)
    PROVE  Chan' = Chan /\ Granted' = Granted /\ pc'[Consumer] = pc[Consumer]
<1>1. /\ enqueue' = enqueue /\ UNCHANGED <<slotVars, dequeue>>
      /\ pc'[Consumer] = pc[Consumer]
      /\ \A q \in Producers \ {p} : pc'[q] = pc[q] /\ position'[q] = position[q]
  BY Kinds DEF Asking
<1>2. Oldest' = Oldest
  BY <1>1 DEF Oldest
<1>3. \A n \in Oldest..(enqueue - 1) : Place(n)' = Place(n)
  BY <1>1, PlaceStays DEF slotVars
<1>4. \A q \in Producers : GrantedTo(q)' <=> GrantedTo(q)
  <2> TAKE q \in Producers
  <2>1. CASE q = p
    BY <2>1 DEF GrantedTo, Asking, Owning
  <2>2. CASE q # p
    BY <1>1, <2>2 DEF GrantedTo, slotVars
  <2> QED BY <2>1, <2>2
<1> QED
  BY <1>1, <1>2, <1>3, <1>4, ChanStays, GrantedStays

\* An owner writes its cell: nobody sees it until the sequence is stored.
LEMMA FillingChannel ==
    ASSUME QueueInv, NEW p \in Producers, Filling(p), GrantedTo(p)' <=> GrantedTo(p)
    PROVE  Chan' = Chan /\ Granted' = Granted /\ pc'[Consumer] = pc[Consumer]
<1>1. /\ enqueue' = enqueue /\ UNCHANGED <<sequence, owner, position, dequeue>>
      /\ pc'[Consumer] = pc[Consumer] /\ pc[p] \in Owning
      /\ \A q \in Producers \ {p} : pc'[q] = pc[q]
  BY Kinds DEF Filling
<1>2. Oldest' = Oldest
  BY <1>1 DEF Oldest
<1>3. \A n \in Oldest..(enqueue - 1) : Place(n)' = Place(n)
  <2> TAKE n \in Oldest..(enqueue - 1)
  <2>1. Settled(n) => n # position[p]
    BY <1>1, OwnerKnows
  <2>2. Settled(n) => SlotOf(n) # SlotOf(position[p])
    BY <1>1, <2>1, OwnerKnows, OldestInTurn, TurnApart
  <2>3. SlotOf(n) \in Ring
    BY OldestInTurn, SlotIn
  <2>4. Settled(n) => /\ cancelled'[SlotOf(n)] = cancelled[SlotOf(n)]
                      /\ value'[SlotOf(n)] = value[SlotOf(n)]
    BY <2>2, <2>3 DEF Filling
  <2> QED BY <1>1, <2>4, PlaceStays
<1>4. \A q \in Producers : GrantedTo(q)' <=> GrantedTo(q)
  <2> TAKE q \in Producers
  <2>1. CASE q # p /\ pc[q] \in Owning
    <3>1. SlotOf(position[q]) # SlotOf(position[p]) /\ SlotOf(position[q]) \in Ring
      BY <1>1, <2>1, InvExclusive, OwnerKnows DEF ExclusiveSlots
    <3>2. cancelled'[SlotOf(position[q])] = cancelled[SlotOf(position[q])]
      BY <3>1 DEF Filling
    <3> QED BY <1>1, <2>1, <3>2 DEF GrantedTo
  <2>2. CASE q # p /\ pc[q] \notin Owning
    BY <1>1, <2>2 DEF GrantedTo, Owning
  <2> QED BY <2>1, <2>2
<1> QED
  BY <1>1, <1>2, <1>3, <1>4, ChanStays, GrantedStays

\* WriteSlot, CancelSlot and Refund: a permit stays granted until it is settled.
LEMMA FillsGranted ==
    ASSUME QueueInv, NEW p \in Producers, WriteSlot(p) \/ CancelSlot(p) \/ Refund(p)
    PROVE  GrantedTo(p)' <=> GrantedTo(p)
<1> USE DEF Goto, QueueInv, QueueTypes, ThreadTypes
<1>0. p \in Threads /\ SlotOf(position[p]) \in Ring /\ pc \in [Threads -> UNION {LabelsOf(t) : t \in Threads}]
  BY Kinds, SlotIn
<1>1. CASE WriteSlot(p)
  <2>1. /\ pc[p] = "write" /\ pc'[p] = "publish" /\ position' = position
        /\ ~cancelled'[SlotOf(position[p])]
    BY <1>0, <1>1 DEF WriteSlot, localVars
  <2> QED BY <2>1 DEF GrantedTo
<1>2. CASE CancelSlot(p)
  <2>1. pc[p] = "cancel" /\ pc'[p] = "refund"
    BY <1>0, <1>2 DEF CancelSlot
  <2> QED BY <2>1 DEF GrantedTo
<1>3. CASE Refund(p)
  <2>1. /\ pc[p] = "refund" /\ pc'[p] = "publish" /\ UNCHANGED <<position, cancelled>>
    BY <1>0, <1>3 DEF Refund, localVars, slotVars
  <2>2. cancelled[SlotOf(position[p])]
    BY <2>1 DEF WrittenRight
  <2> QED BY <2>1, <2>2 DEF GrantedTo
<1> QED
  BY <1>1, <1>2, <1>3

\* A sequence and the one that has one more entry.
LEMMA AppendIs ==
    ASSUME NEW S, NEW s \in Seq(S), NEW e \in S,
           NEW N, N = Len(s)
    PROVE  [k \in 1..(N + 1) |-> IF k = N + 1 THEN e ELSE s[k]] = Append(s, e)
<1> DEFINE t == [k \in 1..(N + 1) |-> IF k = N + 1 THEN e ELSE s[k]]
<1>1. N \in Nat /\ s \in [1..N -> S]
  BY SMTT(30)
<1>2. t \in [1..(N + 1) -> S]
  BY <1>1, SMTT(30)
<1>3. t \in Seq(S) /\ Len(t) = N + 1
  BY <1>1, <1>2, SMTT(30)
<1>4. /\ Append(s, e) \in Seq(S) /\ Len(Append(s, e)) = N + 1
      /\ \A k \in 1..(N + 1) : Append(s, e)[k] = IF k = N + 1 THEN e ELSE s[k]
  BY <1>1, SMTT(30)
<1>5. \A k \in 1..(N + 1) : t[k] = Append(s, e)[k]
  BY <1>4
<1> HIDE DEF t
<1>6. t = Append(s, e)
  BY <1>3, <1>4, <1>5, SMTT(30)
<1> QED
  BY <1>6 DEF t

\* What is left of a sequence when its head is taken.
LEMMA TailIs ==
    ASSUME NEW S, NEW s \in Seq(S), s # <<>>, NEW N, N = Len(s) - 1
    PROVE  /\ [k \in 1..N |-> s[k + 1]] = Tail(s) /\ Head(s) = s[1]
<1> DEFINE t == [k \in 1..N |-> s[k + 1]]
<1>1. N \in Nat /\ s \in [1..(N + 1) -> S] /\ Head(s) = s[1]
  BY SMTT(30)
<1>2. t \in [1..N -> S]
  BY <1>1, SMTT(30)
<1>3. t \in Seq(S) /\ Len(t) = N
  BY <1>1, <1>2, SMTT(30)
<1>4. /\ Tail(s) \in Seq(S) /\ Len(Tail(s)) = N
      /\ \A k \in 1..N : Tail(s)[k] = s[k + 1]
  BY <1>1, SMTT(30)
<1>5. \A k \in 1..N : t[k] = Tail(s)[k]
  BY <1>4
<1> HIDE DEF t
<1>6. t = Tail(s)
  BY <1>3, <1>4, <1>5, SMTT(30)
<1> QED
  BY <1>1, <1>6 DEF t

\* A successful exchange takes the next place in line.
LEMMA SwapTakes ==
    ASSUME QueueInv, NEW p \in Producers, Swap(p), enqueue' # enqueue
    PROVE  Channel!Take(p)
<1>0. /\ pc[p] = "swap" /\ enqueue = position[p] /\ enqueue' = enqueue + 1
      /\ owner' = [owner EXCEPT ![SlotOf(enqueue)] = p]
      /\ pc' = [pc EXCEPT ![p] = "recheck"]
      /\ UNCHANGED <<dequeue, closed, sequence, slotBytes, cancelled, value, position, received>>
  BY DEF Swap, Goto, localVars
<1>1. /\ Oldest \in Nat /\ enqueue \in Nat /\ Unfreed \in Nat /\ Slots \in Nat
      /\ Unfreed <= Oldest /\ Oldest <= enqueue /\ enqueue < Unfreed + Slots
      /\ \A n \in Oldest..(enqueue - 1) : n \in Unfreed..(Unfreed + Slots - 1)
  BY OldestInTurn, SwapKeeps, SlotsPositive
<1>2. /\ pc'[p] = "recheck" /\ pc'[Consumer] = pc[Consumer]
      /\ \A q \in Producers \ {p} : pc'[q] = pc[q]
  BY <1>0, Kinds DEF QueueInv, QueueTypes, ThreadTypes
<1>3. Oldest' = Oldest
  BY <1>0, <1>2 DEF Oldest
<1>4. sequence[SlotOf(enqueue)] = enqueue /\ SlotOf(enqueue) \in Ring
  <2>1. enqueue \in enqueue..(Unfreed + Slots - 1)
    BY <1>1, SMTT(30)
  <2> QED BY <1>1, <2>1, SlotIn DEF QueueInv, OneTurn, Unclaimed
<1>5. \A n \in Oldest..(enqueue - 1) : Place(n)' = Place(n)
  <2> TAKE n \in Oldest..(enqueue - 1)
  <2>1. n # enqueue /\ enqueue \in Unfreed..(Unfreed + Slots - 1)
    BY <1>1, SMTT(30)
  <2>2. SlotOf(n) # SlotOf(enqueue) /\ SlotOf(n) \in Ring
    BY <1>1, <2>1, TurnApart, SlotIn, SMTT(30)
  <2>3. owner'[SlotOf(n)] = owner[SlotOf(n)]
    BY <1>0, <2>2 DEF QueueInv, QueueTypes
  <2> QED BY <1>0, <2>3, PlaceStays
<1> DEFINE e == [owner |-> p, state |-> Reserved, msg |-> NoItem]
<1>6. \A n : n = enqueue => Place(n)' = e
  <2> SUFFICES ASSUME NEW n, n = enqueue PROVE Place(n)' = e
    OBVIOUS
  <2>1. owner'[SlotOf(n)] = p
    BY <1>0, <1>4 DEF QueueInv, QueueTypes
  <2>2. sequence'[SlotOf(n)] = n
    BY <1>0, <1>4
  <2>3. ~(sequence'[SlotOf(n)] = n + 1)
    BY <1>1, <2>2, SMTT(30)
  <2> QED
    BY <2>1, <2>3 DEF Place, Settled, Reserved, Published
<1>7. Chan' = Append(Chan, e)
  <2> DEFINE N == enqueue - Oldest
  <2>1. /\ Chan \in Seq(Places) /\ Len(Chan) = N /\ N \in Nat /\ DOMAIN Chan = 1..N
        /\ \A k \in 1..N : Chan[k] = Place(Oldest + k - 1)
    BY ChanTyped
  <2>2. \A k \in 1..(N + 1) : Place(Oldest + k - 1)' = IF k = N + 1 THEN e ELSE Chan[k]
    <3> TAKE k \in 1..(N + 1)
    <3> DEFINE n == Oldest + k - 1
    <3>1. n' = n
      BY <1>3
    <3>2. CASE k = N + 1
      <4>1. n = enqueue
        BY <1>1, <3>2, SMTT(30)
      <4> QED BY <1>6, <3>1, <3>2, <4>1
    <3>3. CASE k # N + 1
      <4>1. k \in 1..N /\ n \in Oldest..(enqueue - 1)
        BY <1>1, <3>3, SMTT(30)
      <4> QED BY <1>5, <2>1, <3>1, <3>3, <4>1
    <3> QED BY <3>2, <3>3
  <2>3. enqueue' - Oldest' = N + 1
    BY <1>0, <1>1, <1>3, SMTT(30)
  <2>4. Chan' = [k \in 1..(N + 1) |-> IF k = N + 1 THEN e ELSE Chan[k]]
    BY <2>2, <2>3 DEF Chan
  <2> HIDE DEF N, e
  <2>5. e \in Places
    BY Kinds DEF e, Places
  <2>6. \A c \in Seq(Places) : N = Len(c) =>
           [k \in 1..(N + 1) |-> IF k = N + 1 THEN e ELSE c[k]] = Append(c, e)
    BY <2>5, AppendIs, SMTT(30)
  <2> QED
    BY <2>1, <2>4, <2>6
<1>8. \A q \in Producers : GrantedTo(q)' <=> GrantedTo(q)
  <2> TAKE q \in Producers
  <2>1. CASE q = p
    BY <1>0, <1>2, <2>1 DEF GrantedTo
  <2>2. CASE q # p
    BY <1>0, <1>2, <2>2 DEF GrantedTo
  <2> QED BY <2>1, <2>2
<1>9. Len(Chan) < Slots
  BY <1>1, ChanTyped, SMTT(30)
<1>10. ~Channel!Holds(Chan, p)
  <2> SUFFICES ASSUME NEW k \in DOMAIN Chan, Chan[k].owner = p, Chan[k].state = Reserved
               PROVE  FALSE
    BY DEF Channel!Holds, Channel!HeldAt, Channel!Reserved, Reserved
  <2> DEFINE n == Oldest + k - 1
  <2>1. Chan[k] = Place(n) /\ n \in Oldest..(enqueue - 1)
    BY ChanTyped
  <2> HIDE DEF n
  <2>2. owner[SlotOf(n)] = p /\ ~Settled(n)
    BY <2>1, SMTT(30) DEF Place, Reserved, Published, Cancelled
  <2> QED BY <1>0, <2>1, <2>2, HolderIs DEF Owning
<1> QED
  <2>1. Granted' = Granted /\ received' = received /\ closed' = closed
    BY <1>0, <1>8, GrantedStays
  <2>2. (pc[Consumer] = "end")' = (pc[Consumer] = "end")
    BY <1>2
  <2>3. Chan' = Channel!Claim(Chan, p, NoItem)
    BY <1>7 DEF Channel!Claim, Channel!Reserved, Reserved
  <2> QED
    BY <1>9, <1>10, <2>1, <2>2, <2>3 DEF Channel!Take

\* Storing the sequence settles the place of its owner, and no other: by what it
\* wrote if it holds a permit, as cancelled otherwise.
LEMMA StoreSettles ==
    ASSUME QueueInv, NEW p \in Producers, StoreSequence(p)
    PROVE  Channel!Put(p) \/ Channel!Abandon(p)
<1> DEFINE i == SlotOf(position[p])
           v == <<p, calls[p]>>
           st == IF cancelled[i] THEN Cancelled ELSE Published
           m == IF cancelled[i] THEN NoItem ELSE v
<1>0. /\ pc[p] = "publish" /\ pc' = [pc EXCEPT ![p] = "bump"]
      /\ sequence' = [sequence EXCEPT ![i] = position[p] + 1]
      /\ UNCHANGED <<enqueue, dequeue, closed, slotBytes, cancelled, value, owner, position, received>>
  BY DEF StoreSequence, Notify, Goto, localVars, sharedVars
<1>1. /\ position[p] \in Unfreed..(Unfreed + Slots - 1) /\ position[p] \in Nat
      /\ i \in Ring /\ owner[i] = p /\ ~Settled(position[p]) /\ pc[p] \in Owning
      /\ position[p] \in Oldest..(enqueue - 1)
  BY <1>0, OwnerKnows, HolderIs DEF Owning
<1>2. pc'[p] = "bump" /\ \A t \in Threads \ {p} : pc'[t] = pc[t]
  BY <1>0, Kinds DEF QueueInv, QueueTypes, ThreadTypes
<1>3. Oldest' = Oldest /\ pc'[Consumer] = pc[Consumer]
  BY <1>0, <1>2, Kinds DEF Oldest
<1>4. sequence'[i] = position[p] + 1 /\ \A j \in Ring \ {i} : sequence'[j] = sequence[j]
  BY <1>0, <1>1 DEF QueueInv, QueueTypes
<1>5. \A n \in Oldest..(enqueue - 1) :
         Place(n)' = IF n = position[p] THEN [owner |-> p, state |-> st, msg |-> m]
                     ELSE Place(n)
  <2> TAKE n \in Oldest..(enqueue - 1)
  <2>1. CASE n = position[p]
    <3>1. ~cancelled[i] => value[i] = v
      BY <1>0 DEF QueueInv, WrittenRight
    <3>2. sequence'[SlotOf(n)] = n + 1 /\ SlotOf(n) = i
      BY <1>4, <2>1
    <3>3. owner'[i] = p /\ cancelled'[i] = cancelled[i] /\ value'[i] = value[i]
      BY <1>0, <1>1
    <3> HIDE DEF i, v
    <3>4. CASE cancelled[i]
      BY <2>1, <3>1, <3>2, <3>3, <3>4 DEF Place, Settled, Published, Cancelled, Reserved
    <3>5. CASE ~cancelled[i]
      BY <2>1, <3>1, <3>2, <3>3, <3>5 DEF Place, Settled, Published, Cancelled, Reserved
    <3> QED BY <3>4, <3>5
  <2>2. CASE n # position[p]
    <3>1. SlotOf(n) # i /\ SlotOf(n) \in Ring
      BY <1>1, <2>2, OldestInTurn, TurnApart, SlotIn
    <3>2. sequence'[SlotOf(n)] = sequence[SlotOf(n)]
      BY <1>4, <3>1
    <3>3. Place(n)' = Place(n)
      BY <1>0, <3>2, PlaceStays
    <3> QED BY <2>2, <3>3
  <2> QED BY <2>1, <2>2
<1> DEFINE N == enqueue - Oldest
<1>6. /\ DOMAIN Chan = 1..N
      /\ \A k \in 1..N : Chan[k] = Place(Oldest + k - 1) /\ Oldest + k - 1 \in Oldest..(enqueue - 1)
  BY ChanTyped
<1>7. \A k \in 1..N : (Chan[k].owner = p /\ Chan[k].state = Reserved)
                         <=> Oldest + k - 1 = position[p]
  <2> TAKE k \in 1..N
  <2> DEFINE n == Oldest + k - 1
  <2>1. Chan[k] = Place(n) /\ n \in Oldest..(enqueue - 1)
    BY <1>6
  <2> HIDE DEF n
  <2>2. (Place(n).owner = p /\ Place(n).state = Reserved) <=> (owner[SlotOf(n)] = p /\ ~Settled(n))
    BY DEF Place, Reserved, Published, Cancelled
  <2>3. (owner[SlotOf(n)] = p /\ ~Settled(n)) <=> n = position[p]
    BY <1>1, <2>1, HolderIs
  <2> QED BY <2>1, <2>2, <2>3 DEF n
<1>8. \A k \in 1..N : Place(Oldest + k - 1)' =
         IF Chan[k].owner = p /\ Chan[k].state = Reserved
         THEN [owner |-> p, state |-> st, msg |-> m] ELSE Chan[k]
  <2> TAKE k \in 1..N
  <2> DEFINE n == Oldest + k - 1
  <2>1. n' = n
    BY <1>3
  <2>2. Chan[k] = Place(n) /\ n \in Oldest..(enqueue - 1)
    BY <1>6
  <2> HIDE DEF st, m
  <2> QED BY <1>5, <1>7, <2>1, <2>2
<1>9. Chan' = [k \in DOMAIN Chan |-> IF Chan[k].owner = p /\ Chan[k].state = Reserved
                                     THEN [owner |-> p, state |-> st, msg |-> m] ELSE Chan[k]]
  <2>1. enqueue' - Oldest' = N
    BY <1>0, <1>3
  <2> HIDE DEF st, m, N
  <2> QED BY <1>6, <1>8, <2>1 DEF Chan
<1>10. Channel!Holds(Chan, p)
  <2>1. position[p] - Oldest + 1 \in 1..N /\ Oldest + (position[p] - Oldest + 1) - 1 = position[p]
    BY <1>1, OldestInTurn, SMTT(30)
  <2> DEFINE k == position[p] - Oldest + 1
  <2>2. k \in DOMAIN Chan /\ Chan[k].owner = p /\ Chan[k].state = Reserved
    BY <1>6, <1>7, <2>1
  <2> HIDE DEF k
  <2> QED BY <2>2 DEF Channel!Holds, Channel!HeldAt, Channel!Reserved, Reserved
<1>11. Chan' = Channel!Settle(Chan, p, st, m)
  <2> HIDE DEF st, m
  <2> QED BY <1>9 DEF Channel!Settle, Channel!HeldAt, Channel!Reserved, Reserved
<1>12. \A q \in Producers : GrantedTo(q)' <=> (GrantedTo(q) /\ q # p)
  <2> TAKE q \in Producers
  <2>1. CASE q = p
    BY <1>2, <2>1 DEF GrantedTo
  <2>2. CASE q # p
    BY <1>0, <1>2, <2>2, Kinds DEF GrantedTo
  <2> QED BY <2>1, <2>2
<1>13. Granted = {q \in Producers : GrantedTo(q)} /\ Granted' = {q \in Producers : GrantedTo(q)'}
  BY DEF Granted, GrantedTo
<1>14. Granted' = Granted \ {p} /\ (p \in Granted <=> ~cancelled[i])
  <2>1. GrantedTo(p) <=> ~cancelled[i]
    BY <1>0 DEF GrantedTo
  <2> QED BY <1>12, <1>13, <2>1
<1>15. received' = received /\ closed' = closed /\ (pc[Consumer] = "end")' = (pc[Consumer] = "end")
  BY <1>0, <1>3
<1>16. v \in Items
  <2>1. calls[p] \in Nat /\ calls[p] > 0 /\ calls[p] <= load.calls[p] /\ load \in Loads
        /\ load.calls[p] \in Nat
    BY <1>0, QueueAssumption DEF QueueInv, QueueTypes, WrittenRight
  <2> DEFINE Of(q, l) == {q} \X (1..l.calls[q])
             All == {Of(q, l) : q \in Producers, l \in Loads}
  <2>2. v \in Of(p, load)
    BY <2>1, SMTT(30)
  <2>3. Of(p, load) \in All
    BY <2>1, SMTT(30)
  <2>4. Items = UNION All
    BY SMTT(30) DEF Items
  <2> HIDE DEF v, Of, All
  <2> QED BY <2>2, <2>3, <2>4
<1> HIDE DEF i, v
<1>17. CASE cancelled[i]
  <2>1. Chan' = Channel!Cancel(Chan, p, NoItem)
    BY <1>11, <1>17 DEF Channel!Cancel, Channel!Cancelled, Cancelled
  <2>2. Granted' = Granted /\ p \notin Granted
    BY <1>14, <1>17
  <2> QED
    BY <1>10, <1>15, <2>1, <2>2 DEF Channel!Abandon
<1>18. CASE ~cancelled[i]
  <2>1. Chan' = Channel!Publish(Chan, p, v)
    BY <1>11, <1>18 DEF Channel!Publish, Channel!Published, Published
  <2> QED
    BY <1>10, <1>14, <1>15, <1>16, <1>18, <2>1 DEF Channel!Put
<1> QED
  BY <1>17, <1>18

\* The consumer reads the oldest place: it receives what was published there, or
\* passes over it.
LEMMA ReadReceives ==
    ASSUME QueueInv, ReadSlot
    PROVE  Channel!Receive \/ Channel!Pass
<1> DEFINE i == SlotOf(dequeue - 1)
           N == enqueue - Oldest
<1>0. /\ pc[Consumer] = "read" /\ pc' = [pc EXCEPT ![Consumer] = "free"]
      /\ received' = IF cancelled[i] THEN received ELSE Append(received, value[i])
      /\ UNCHANGED <<enqueue, dequeue, closed, slotVars, position>>
  BY DEF ReadSlot, Goto, sharedVars
<1>1. /\ dequeue \in Nat /\ enqueue \in Nat /\ Oldest = dequeue - 1 /\ Oldest \in Nat
      /\ Oldest < enqueue /\ Settled(Oldest)
  BY <1>0 DEF Unfreed, Oldest, QueueInv, QueueTypes, ConsumerRight, OneTurn
<1>2. pc'[Consumer] = "free" /\ \A p \in Producers : pc'[p] = pc[p]
  BY <1>0, Kinds DEF QueueInv, QueueTypes, ThreadTypes
<1>3. Oldest' = Oldest + 1
  BY <1>0, <1>1, <1>2, SMTT(30) DEF Oldest
<1>4. /\ Chan \in Seq(Places) /\ Len(Chan) = N /\ N \in Nat /\ N > 0
      /\ \A k \in 1..N : Chan[k] = Place(Oldest + k - 1) /\ Oldest + k - 1 \in Oldest..(enqueue - 1)
  BY <1>1, ChanTyped, SMTT(30)
<1>5. \A n \in Oldest..(enqueue - 1) : Place(n)' = Place(n)
  BY <1>0, PlaceStays DEF slotVars
<1>6. Chan' = [k \in 1..(N - 1) |-> Chan[k + 1]]
  <2>1. \A k \in 1..(N - 1) : Place(Oldest + k - 1)' = Chan[k + 1]
    <3> TAKE k \in 1..(N - 1)
    <3> DEFINE n == Oldest + k - 1
    <3>1. n' = Oldest + (k + 1) - 1 /\ k + 1 \in 1..N
      BY <1>1, <1>3, <1>4, SMTT(30)
    <3>2. Chan[k + 1] = Place(n') /\ n' \in Oldest..(enqueue - 1)
      BY <1>4, <3>1
    <3> QED BY <1>5, <3>2
  <2>2. enqueue' - Oldest' = N - 1
    BY <1>0, <1>1, <1>3, SMTT(30)
  <2> HIDE DEF N
  <2> QED BY <2>1, <2>2 DEF Chan
<1>7. Chan # <<>> /\ Chan' = Tail(Chan) /\ Head(Chan) = Place(Oldest)
  <2>1. Chan # <<>>
    BY <1>4, SMTT(30)
  <2>2. Chan[1] = Place(Oldest)
    BY <1>1, <1>4, SMTT(30)
  <2>3. \A c \in Seq(Places) : c # <<>> /\ N - 1 = Len(c) - 1 =>
           [k \in 1..(N - 1) |-> c[k + 1]] = Tail(c) /\ Head(c) = c[1]
    <3> DEFINE M == N - 1
    <3> HIDE DEF M
    <3>1. \A c \in Seq(Places) : c # <<>> /\ M = Len(c) - 1 =>
             [k \in 1..M |-> c[k + 1]] = Tail(c) /\ Head(c) = c[1]
      BY TailIs
    <3> QED BY <3>1 DEF M
  <2> HIDE DEF N
  <2> QED BY <1>4, <1>6, <2>1, <2>2, <2>3
<1>8. \A p \in Producers : GrantedTo(p)' <=> GrantedTo(p)
  BY <1>0, <1>2 DEF GrantedTo, slotVars
<1>9. /\ Granted' = Granted /\ closed' = closed
      /\ (pc[Consumer] = "end")' = (pc[Consumer] = "end") /\ ~(pc[Consumer] = "end")
  BY <1>0, <1>2, <1>8, GrantedStays
<1>10. CASE cancelled[i]
  <2>1. Head(Chan).state = Channel!Cancelled
    BY <1>1, <1>7, <1>10, SMTT(30) DEF Place, Channel!Cancelled, Cancelled, Published
  <2> QED
    BY <1>0, <1>7, <1>9, <1>10, <2>1 DEF Channel!Pass, Channel!HeadIs
<1>11. CASE ~cancelled[i]
  <2>1. Head(Chan).state = Channel!Published /\ Head(Chan).msg = value[i]
    BY <1>1, <1>7, <1>11, SMTT(30) DEF Place, Channel!Published, Published
  <2> QED
    BY <1>0, <1>7, <1>9, <1>11, <2>1 DEF Channel!Receive, Channel!HeadIs, Channel!HeadMsg
<1> QED
  BY <1>10, <1>11

\* The other steps of pop leave the channel as it is.
LEMMA PopChannel ==
    ASSUME QueueInv,
           (Pop /\ pc'[Consumer] = "take") \/ TakeSlot \/ FreeSlot \/ ReleaseBytes
    PROVE  UNCHANGED Channel!channelVars
<1>0. /\ pc[Consumer] \in {"pop", "take", "free", "release"}
      /\ \E l \in {"take", "read", "release", "bump"} : pc' = [pc EXCEPT ![Consumer] = l]
      /\ pc[Consumer] = "take" => dequeue' = dequeue + 1 /\ pc' = [pc EXCEPT ![Consumer] = "read"]
      /\ pc[Consumer] # "take" => dequeue' = dequeue /\ pc' # [pc EXCEPT ![Consumer] = "read"]
      /\ UNCHANGED <<enqueue, closed, slotBytes, cancelled, value, owner, position, received>>
  <2>1. pc \in [Threads -> UNION {LabelsOf(t) : t \in Threads}] /\ Consumer \in Threads
    BY Kinds DEF QueueInv, QueueTypes, ThreadTypes
  <2>2. CASE Pop /\ pc'[Consumer] = "take"
    BY <2>1, <2>2 DEF Pop, Goto, sharedVars, slotVars, localVars
  <2>3. CASE TakeSlot
    BY <2>1, <2>3 DEF TakeSlot, Goto, slotVars, localVars
  <2>4. CASE FreeSlot
    BY <2>1, <2>4 DEF FreeSlot, Goto, sharedVars, localVars
  <2>5. CASE ReleaseBytes
    BY <2>1, <2>5 DEF ReleaseBytes, Notify, Goto, slotVars
  <2> QED BY <2>2, <2>3, <2>4, <2>5
<1>1. /\ pc'[Consumer] \in {"take", "read", "release", "bump"}
      /\ pc'[Consumer] = "read" <=> pc[Consumer] = "take"
      /\ \A p \in Producers : pc'[p] = pc[p]
  BY <1>0, Kinds DEF QueueInv, QueueTypes, ThreadTypes
<1>2. Oldest' = Oldest /\ Oldest = dequeue
  BY <1>0, <1>1, SMTT(30) DEF Oldest, QueueInv, QueueTypes
<1>3. \A n \in Oldest..(enqueue - 1) : sequence'[SlotOf(n)] = sequence[SlotOf(n)]
  <2>1. CASE FreeSlot
    <3>1. /\ sequence' = [sequence EXCEPT ![SlotOf(dequeue - 1)] = dequeue - 1 + Slots]
          /\ Unfreed = dequeue - 1
      BY <2>1 DEF FreeSlot, Unfreed
    <3> SUFFICES ASSUME NEW n \in Oldest..(enqueue - 1)
                 PROVE  sequence'[SlotOf(n)] = sequence[SlotOf(n)]
      OBVIOUS
    <3>2. /\ n \in Unfreed..(Unfreed + Slots - 1) /\ n \in Nat /\ dequeue \in Nat
          /\ Unfreed \in Nat /\ Slots \in Nat /\ Slots >= 2
      BY OldestInTurn, SlotsPositive DEF QueueInv, QueueTypes
    <3>3. Unfreed \in Unfreed..(Unfreed + Slots - 1) /\ n # Unfreed
      BY <1>2, <3>1, <3>2, SMTT(30)
    <3>4. SlotOf(n) # SlotOf(dequeue - 1) /\ SlotOf(n) \in Ring
      BY <3>1, <3>2, <3>3, TurnApart, SlotIn
    <3> QED BY <3>1, <3>4 DEF QueueInv, QueueTypes
  <2>2. CASE ~FreeSlot
    BY <2>2 DEF Pop, TakeSlot, ReleaseBytes, slotVars
  <2> QED BY <2>1, <2>2
<1>4. Chan' = Chan
  BY <1>0, <1>2, <1>3, PlaceStays, ChanStays
<1>5. \A p \in Producers : GrantedTo(p)' <=> GrantedTo(p)
  BY <1>0, <1>1 DEF GrantedTo
<1>6. (pc[Consumer] = "end")' = (pc[Consumer] = "end")
  BY <1>0, <1>1
<1> QED
  BY <1>0, <1>4, <1>5, <1>6, GrantedStays DEF Channel!channelVars

\* A step of threads that hold nothing, which neither closes the queue nor ends the
\* consumer, leaves the channel as it is.
LEMMA StandingStutters ==
    ASSUME QueueInv, Standing, closed' = closed, received' = received,
           pc'[Consumer] = "end" <=> pc[Consumer] = "end"
    PROVE  UNCHANGED Channel!channelVars
<1>1. (pc[Consumer] = "end")' = (pc[Consumer] = "end")
  OBVIOUS
<1> QED
  BY <1>1, StandingChannel DEF Channel!channelVars

\* Every step of a producer is a step of the channel.
LEMMA ProduceChannel ==
    ASSUME QueueInv, NEW p \in Producers, Produce(p)
    PROVE  [Channel!Next]_(Channel!channelVars)
<1>0. QueueInv /\ QueueTypes /\ Consumer \in Threads \ {p}
  BY Kinds DEF QueueInv
<1>1. CASE Call(p) \/ LoadPosition(p) \/ Uncharge(p) \/ Charge(p)
  <2>0. received' = received /\ closed' = closed
    BY <1>1 DEF Call, LoadPosition, Uncharge, Charge, localVars, sharedVars
  <2>1. CASE Charge(p) /\ ~(bytesUsed + Bytes[p] <= load.capacity)
    <3>1. Standing
      BY <1>0, <2>1, ChargeFailStands
    <3>2. pc'[Consumer] = pc[Consumer]
      BY <1>0, <2>1 DEF Charge, Goto, QueueTypes, ThreadTypes
    <3> QED BY <1>0, <2>0, <3>1, <3>2, StandingStutters
  <2>2. CASE \/ Call(p) \/ (Charge(p) /\ bytesUsed + Bytes[p] <= load.capacity)
             \/ LoadPosition(p) \/ Uncharge(p)
    <3>1. Asking(p)
      BY <1>0, <2>2, ProducerAsks
    <3>2. Chan' = Chan /\ Granted' = Granted /\ pc'[Consumer] = pc[Consumer]
      BY <1>0, <3>1, AskingChannel
    <3> QED BY <2>0, <3>2 DEF Channel!channelVars
  <2> QED BY <1>1, <2>1, <2>2
<1>2. CASE CheckClosed(p)
  <2>1. Standing
    BY <1>0, <1>2, CheckClosedStands
  <2>2. UNCHANGED <<received, closed>> /\ pc'[Consumer] = pc[Consumer]
    BY <1>0, <1>2 DEF CheckClosed, Goto, sharedVars, localVars, QueueTypes, ThreadTypes
  <2> QED BY <1>0, <2>1, <2>2, StandingStutters
<1>3. CASE Inspect(p) \/ (Swap(p) /\ enqueue' = enqueue) \/ Recheck(p) \/ UsePermit(p)
  <2>0. received' = received /\ closed' = closed
    BY <1>3 DEF Inspect, Swap, Recheck, UsePermit, localVars, sharedVars
  <2>1. Turning(p)
    BY <1>0, <1>3, ProducerTurns
  <2>2. /\ Chan' = Chan /\ pc'[Consumer] = pc[Consumer]
        /\ Granted' = IF pc'[p] \in {"permit", "write"} THEN Granted \cup {p}
                      ELSE Granted \ {p}
    BY <1>0, <2>1, TurningChannel
  <2>3. (pc[Consumer] = "end")' = (pc[Consumer] = "end")
    BY <2>2
  <2>4. CASE pc'[p] \notin {"permit", "write"}
    BY <2>0, <2>2, <2>3, <2>4 DEF Channel!Next, Channel!Renounce
  <2>5. CASE pc'[p] \in {"permit", "write"} /\ pc[p] = "recheck"
    <3>1. Recheck(p)
      BY <1>3, <2>5 DEF Inspect, Swap, UsePermit
    <3>2. ~closed
      BY <1>0, <2>5, <3>1, Kinds DEF Recheck, Goto, QueueTypes, ThreadTypes
    <3>3. Channel!Holds(Chan, p)
      <4> DEFINE k == position[p] - Oldest + 1
      <4>1. position[p] \in Oldest..(enqueue - 1) /\ ~Settled(position[p])
            /\ owner[SlotOf(position[p])] = p
        BY <1>0, <2>5, HolderIs, OwnerKnows DEF Owning
      <4>2. k \in 1..(enqueue - Oldest) /\ Oldest + k - 1 = position[p]
        BY <1>0, <4>1, OldestInTurn, SMTT(30)
      <4>3. k \in DOMAIN Chan /\ Chan[k] = Place(position[p])
        BY <1>0, <4>2, ChanTyped
      <4> HIDE DEF k
      <4>4. Chan[k].owner = p /\ Chan[k].state = Reserved
        <5>1. Place(position[p]).owner = p /\ Place(position[p]).state = Reserved
          BY <4>1 DEF Place
        <5> QED BY <4>3, <5>1
      <4> QED BY <4>3, <4>4 DEF Channel!Holds, Channel!HeldAt, Channel!Reserved, Reserved
    <3> QED
      BY <2>0, <2>2, <2>3, <2>5, <3>2, <3>3 DEF Channel!Next, Channel!Grant
  <2>6. CASE pc'[p] \in {"permit", "write"} /\ pc[p] # "recheck"
    <3>1. pc[p] = "permit"
      BY <2>1, <2>6 DEF Turning
    <3>2. p \in Granted
      BY <3>1 DEF Granted
    <3>3. Granted' = Granted
      BY <2>2, <2>6, <3>2
    <3> QED BY <2>0, <2>2, <2>3, <3>3 DEF Channel!channelVars
  <2> QED BY <2>4, <2>5, <2>6
<1>4. CASE Swap(p) /\ enqueue' # enqueue
  BY <1>4, SwapTakes DEF Channel!Next
<1>5. CASE WriteSlot(p) \/ CancelSlot(p) \/ Refund(p)
  <2>0. received' = received /\ closed' = closed
    BY <1>5 DEF WriteSlot, CancelSlot, Refund, localVars, sharedVars
  <2>1. Filling(p) /\ (GrantedTo(p)' <=> GrantedTo(p))
    BY <1>0, <1>5, ProducerFills, FillsGranted
  <2>2. Chan' = Chan /\ Granted' = Granted /\ pc'[Consumer] = pc[Consumer]
    BY <1>0, <2>1, FillingChannel
  <2> QED BY <2>0, <2>2 DEF Channel!channelVars
<1>6. CASE StoreSequence(p)
  BY <1>6, StoreSettles DEF Channel!Next
<1> QED
  BY <1>1, <1>2, <1>3, <1>4, <1>5, <1>6 DEF Produce

\* Every step of the consumer is a step of the channel.
LEMMA ConsumeChannel ==
    ASSUME QueueInv, Consume
    PROVE  [Channel!Next]_(Channel!channelVars)
<1>0. QueueInv /\ QueueTypes /\ Consumer \in Threads
  BY Kinds DEF QueueInv
<1>1. CASE ReadSlot
  BY <1>1, ReadReceives DEF Channel!Next
<1>2. CASE (Pop /\ pc'[Consumer] = "take") \/ TakeSlot \/ FreeSlot \/ ReleaseBytes
  BY <1>2, PopChannel
<1>3. CASE (Pop /\ pc'[Consumer] # "take") \/ Empty
  <2>1. Standing
    BY <1>0, <1>3, SearchStands
  <2>2. UNCHANGED <<received, closed>> /\ pc'[Consumer] # "end" /\ pc[Consumer] # "end"
    BY <1>0, <1>3 DEF Pop, Empty, Goto, sharedVars, localVars, QueueTypes, ThreadTypes
  <2> QED BY <1>0, <2>1, <2>2, StandingStutters
<1>4. CASE IsDrained
  <2>1. Standing
    BY <1>0, <1>4, SearchStands
  <2>2. /\ UNCHANGED <<received, closed>> /\ pc[Consumer] = "drained" /\ closed
        /\ pc' = [pc EXCEPT ![Consumer] = IF dequeue = enqueue THEN "end" ELSE "park"]
    BY <1>0, <1>4 DEF IsDrained, Goto, sharedVars, localVars, QueueInv, ConsumerRight
  <2>3. CASE dequeue = enqueue
    <3>1. pc'[Consumer] = "end" /\ Oldest = enqueue
      BY <1>0, <2>2, <2>3 DEF QueueTypes, ThreadTypes, Oldest
    <3>2. Chan = <<>>
      <4>1. Chan \in Seq(Places) /\ Len(Chan) = 0
        BY <1>0, <3>1, ChanTyped, SMTT(30) DEF QueueTypes
      <4> QED BY <4>1, SMTT(30)
    <3>3. Chan' = Chan /\ Granted' = Granted
      BY <1>0, <2>1, StandingChannel
    <3>4. (pc[Consumer] = "end")' = TRUE
      BY <3>1
    <3> QED
      BY <2>2, <3>2, <3>3, <3>4 DEF Channel!Next, Channel!ReportDrained
  <2>4. CASE dequeue # enqueue
    <3>1. pc'[Consumer] = "park"
      BY <1>0, <2>2, <2>4 DEF QueueTypes, ThreadTypes
    <3> QED BY <1>0, <2>1, <2>2, <3>1, StandingStutters
  <2> QED BY <2>3, <2>4
<1> QED
  BY <1>1, <1>2, <1>3, <1>4 DEF Consume

\* Waiting and waking leave the channel as it is.
LEMMA WaitChannel ==
    ASSUME QueueInv, NEW t \in Threads, Wait(t)
    PROVE  UNCHANGED Channel!channelVars
<1>0. QueueInv /\ QueueTypes
  BY DEF QueueInv
<1>1. Standing
  BY <1>0, WaitStands
<1>2. UNCHANGED <<received, closed>>
  BY <1>0, WaitMoves DEF localVars, sharedVars
<1>3. pc'[Consumer] = "end" <=> pc[Consumer] = "end"
  <2>1. CASE t = Consumer
    BY <1>0, <2>1, WaitMoves, Kinds DEF Notifying, Waiting
  <2>2. CASE t # Consumer
    BY <1>0, <2>2, WaitMoves, Kinds
  <2> QED BY <2>1, <2>2
<1> QED
  BY <1>0, <1>1, <1>2, <1>3, StandingStutters

\* IMPLEMENTS THE CHANNEL, for any number of producers and slots: with the places
\* not yet read as the channel and the permits held as its grants, every step of the
\* lock-free queue is one step of BoundedChannel or none (queue.rs).
THEOREM ImplementsChannel == Spec => ChannelSpec
<1>1. Init => Channel!Init
  <2> SUFFICES ASSUME Init PROVE Channel!Init
    OBVIOUS
  <2>1. QueueInv /\ Oldest = 0 /\ enqueue = 0 /\ pc[Consumer] = "observe"
    BY QueueStarts, Kinds DEF QueueInv, Oldest, Init
  <2>2. Chan = <<>>
    <3>1. Chan \in Seq(Places) /\ Len(Chan) = 0
      BY <2>1, ChanTyped, SMTT(30)
    <3> QED BY <3>1, SMTT(30)
  <2>3. Granted = {}
    <3>1. \A p \in Producers : pc[p] = "call"
      BY Kinds DEF Init
    <3> QED BY <3>1 DEF Granted
  <2>4. (pc[Consumer] = "end") = FALSE
    BY <2>1
  <2>5. received = <<>> /\ closed = FALSE
    BY DEF Init
  <2> QED
    BY <2>2, <2>3, <2>4, <2>5 DEF Channel!Init
<1>2. QueueInv /\ [Next]_vars => [Channel!Next]_(Channel!channelVars)
  <2> SUFFICES ASSUME QueueInv, [Next]_vars
               PROVE  [Channel!Next]_(Channel!channelVars)
    OBVIOUS
  <2>0. QueueInv /\ QueueTypes
    BY DEF QueueInv
  <2>1. ASSUME NEW p \in Producers, Produce(p) PROVE [Channel!Next]_(Channel!channelVars)
    BY <2>1, ProduceChannel
  <2>2. CASE Consume
    BY <2>2, ConsumeChannel
  <2>3. CASE CloseQueue
    <3>1. Standing
      BY <2>0, <2>3, CloseStands
    <3>2. Chan' = Chan /\ Granted' = Granted
      BY <2>0, <3>1, StandingChannel
    <3>3. received' = received /\ closed' = TRUE /\ pc'[Consumer] = pc[Consumer]
      BY <2>0, <2>3, Kinds DEF CloseQueue, Notify, Goto, localVars, QueueTypes, ThreadTypes
    <3>4. (pc[Consumer] = "end")' = (pc[Consumer] = "end")
      BY <3>3
    <3> QED BY <3>2, <3>3, <3>4 DEF Channel!Next, Channel!Close
  <2>4. ASSUME NEW t \in Threads, Wait(t) PROVE [Channel!Next]_(Channel!channelVars)
    BY <2>4, WaitChannel
  <2>5. CASE UNCHANGED vars
    BY <2>5 DEF vars, sharedVars, slotVars, localVars, Channel!channelVars, Chan, Granted,
                Oldest, Place, Settled
  <2> QED
    BY <2>1, <2>2, <2>3, <2>4, <2>5 DEF Next, Quiet
<1> QED
  BY <1>1, <1>2, QueueInvHolds, PTL DEF Spec, ChannelSpec, Channel!Spec

(***************************************************************************)
(* What is summed.                                                         *)
(***************************************************************************)
\* A sum of numbers is a number.
LEMMA SumInt ==
    ASSUME NEW S, IsFiniteSet(S), NEW f \in [S -> Int]
    PROVE  SumFunction(f) \in Int
<1>1. \A x \in S : f[x] = f[x] /\ f[x] \in Int
  OBVIOUS
<1>2. SumFunctionOnSet(f, S) \in Int
  BY <1>1, SumAgree
<1> QED
  BY <1>2 DEF SumFunction

\* What is summed are numbers.
LEMMA BytesTyped ==
    ASSUME QueueInv
    PROVE  /\ Holdings \in [Producers -> Int] /\ SumFunction(Holdings) \in Int
           /\ Oldest \in Int
           /\ Lying \in [Oldest..(enqueue - 1) -> Int] /\ SumFunction(Lying) \in Int
           /\ carried.bytes \in Nat /\ bytesUsed \in Int
           /\ \A p \in Producers : Bytes[p] \in Nat /\ Bytes[p] > 0
           /\ load.capacity \in Nat
<1>1. Holdings \in [Producers -> Int] /\ \A p \in Producers : Bytes[p] \in Nat /\ Bytes[p] > 0
  BY QueueAssumption, SMTT(30) DEF Holdings
<1>2. /\ Oldest \in Int /\ enqueue \in Int /\ carried.bytes \in Nat /\ load.capacity \in Nat
      /\ bytesUsed \in Int
  BY QueueAssumption, SMTT(30) DEF QueueInv, QueueTypes, Oldest
<1>3. \A n \in Oldest..(enqueue - 1) : n \in Nat
  BY OldestInTurn
<1>4. Lying \in [Oldest..(enqueue - 1) -> Int]
  BY <1>3, SlotIn, SMTT(30) DEF Lying, QueueInv, QueueTypes
<1>5. SumFunction(Holdings) \in Int
  BY <1>1, SumInt, QueueAssumption
<1>6. SumFunction(Lying) \in Int
  BY <1>2, <1>4, SumInt, FS_Interval, SMTT(30)
<1> QED
  BY <1>1, <1>2, <1>4, <1>5, <1>6

\* Only p comes to hold more or less.
LEMMA HoldingsMove ==
    ASSUME NEW p \in Producers, \A q \in Producers \ {p} : Charged(q)' <=> Charged(q)
    PROVE  SumFunction(Holdings') = SumFunction(Holdings)
               - (IF Charged(p) THEN Bytes[p] ELSE 0) + (IF Charged(p)' THEN Bytes[p] ELSE 0)
<1>1. Holdings \in [Producers -> Int] /\ Holdings' \in [Producers -> Int]
  BY QueueAssumption, SMTT(30) DEF Holdings
<1>2. \A q \in Producers \ {p} : Holdings'[q] = Holdings[q]
  BY DEF Holdings
<1>3. SumFunction(Holdings') = SumFunction(Holdings) - Holdings[p] + Holdings'[p]
  BY <1>1, <1>2, SumChange, QueueAssumption, SMTT(30)
<1> QED
  BY <1>3 DEF Holdings

\* While the producers and the cells stand still, so do the holdings.
LEMMA HoldingsStay ==
    ASSUME UNCHANGED <<position, cancelled>>, \A p \in Producers : pc'[p] = pc[p]
    PROVE  Holdings' = Holdings
<1>1. \A p \in Producers : Charged(p)' <=> Charged(p)
  BY DEF Charged
<1> QED
  BY <1>1 DEF Holdings

\* Where neither sum changes, bytesUsed and what the consumer carries decide.
LEMMA SumsStay ==
    ASSUME BytesAddUp, Holdings' = Holdings, Lying' = Lying,
           UNCHANGED <<bytesUsed, load, carried>>
    PROVE  BytesAddUp'
  BY DEF BytesAddUp

(***************************************************************************)
(* The steps of producers.                                                 *)
(***************************************************************************)
\* Threads that hold nothing may move about.
LEMMA StandingBytes ==
    ASSUME QueueInv, BytesAddUp, Standing
    PROVE  BytesAddUp'
<1>1. ASSUME NEW p \in Producers PROVE Charged(p)' <=> Charged(p)
  BY DEF Charged, Standing, slotVars, Aside, Notifying, Waiting
<1>2. Holdings' = Holdings
  BY <1>1 DEF Holdings
<1>3. Oldest' = Oldest /\ UNCHANGED <<enqueue, sequence, slotBytes, bytesUsed, load, carried>>
  BY DEF Standing, Oldest, slotVars
<1>4. Lying' = Lying
  BY <1>3 DEF Lying, Settled
<1> QED
  BY <1>2, <1>3, <1>4, SumsStay

\* A producer may move on with what it holds.
LEMMA TurningBytes ==
    ASSUME QueueInv, BytesAddUp, NEW p \in Producers, Turning(p)
    PROVE  BytesAddUp'
<1>1. ASSUME NEW q \in Producers PROVE Charged(q)' <=> Charged(q)
  BY Kinds DEF Charged, Turning, slotVars
<1>2. Holdings' = Holdings
  BY <1>1 DEF Holdings
<1>3. Oldest' = Oldest /\ UNCHANGED <<enqueue, sequence, slotBytes, bytesUsed, load, carried>>
  BY Kinds DEF Turning, Oldest, slotVars, sharedVars
<1>4. Lying' = Lying
  BY <1>3 DEF Lying, Settled
<1> QED
  BY <1>2, <1>3, <1>4, SumsStay

\* A producer that owns no slot may charge its bytes and give them back.
LEMMA AskingBytes ==
    ASSUME QueueInv, BytesAddUp, NEW p \in Producers, Asking(p)
    PROVE  BytesAddUp'
<1>1. ASSUME NEW q \in Producers \ {p} PROVE Charged(q)' <=> Charged(q)
  <2>1. pc'[q] = pc[q] /\ position'[q] = position[q] /\ cancelled' = cancelled
    BY Kinds DEF Asking, slotVars
  <2> QED BY <2>1 DEF Charged
<1>2. SumFunction(Holdings') = SumFunction(Holdings)
          - (IF Charged(p) THEN Bytes[p] ELSE 0) + (IF Charged(p)' THEN Bytes[p] ELSE 0)
  BY <1>1, HoldingsMove
<1>3. Oldest' = Oldest /\ UNCHANGED <<enqueue, sequence, slotBytes, load, carried>>
  BY Kinds DEF Asking, Oldest, slotVars
<1>4. Lying' = Lying
  BY <1>3 DEF Lying, Settled
<1>5. /\ bytesUsed <= load.capacity
      /\ bytesUsed = SumFunction(Holdings) + SumFunction(Lying) + carried.bytes
  BY DEF BytesAddUp
<1>6. /\ SumFunction(Holdings) \in Int /\ SumFunction(Lying) \in Int
      /\ carried.bytes \in Nat /\ load.capacity \in Nat /\ bytesUsed \in Int
      /\ Bytes[p] \in Nat
  BY BytesTyped
<1>7. /\ bytesUsed' <= load.capacity
      /\ bytesUsed' = SumFunction(Holdings') + SumFunction(Lying) + carried.bytes
  <2>1. CASE bytesUsed' = bytesUsed /\ (Charged(p)' <=> Charged(p))
    BY <1>2, <1>5, <1>6, <2>1, SMTT(30)
  <2>2. CASE /\ ~Charged(p) /\ Charged(p)' /\ bytesUsed' = bytesUsed + Bytes[p]
             /\ bytesUsed' <= load.capacity
    BY <1>2, <1>5, <1>6, <2>2, SMTT(30)
  <2>3. CASE Charged(p) /\ ~Charged(p)' /\ bytesUsed' = bytesUsed - Bytes[p]
    BY <1>2, <1>5, <1>6, <2>3, SMTT(30)
  <2> QED BY <2>1, <2>2, <2>3 DEF Asking
<1> QED
  BY <1>3, <1>4, <1>7 DEF BytesAddUp

\* An owner may write the cell of its slot, and give back the bytes of a cancelled one.
LEMMA FillingBytes ==
    ASSUME QueueInv, BytesAddUp, NEW p \in Producers, Filling(p)
    PROVE  BytesAddUp'
<1>0. Oldest' = Oldest /\ UNCHANGED <<enqueue, sequence, load, carried, position>>
  BY Kinds DEF Filling, Oldest
<1>1. ASSUME NEW q \in Producers \ {p} PROVE Charged(q)' <=> Charged(q)
  <2>1. pc'[q] = pc[q]
    BY Kinds DEF Filling
  <2>2. CASE pc[q] \in Owning
    <3>1. SlotOf(position[q]) \in Ring /\ SlotOf(position[q]) # SlotOf(position[p])
      BY <2>2, OwnerKnows, InvExclusive DEF Filling, ExclusiveSlots
    <3>2. cancelled'[SlotOf(position[q])] = cancelled[SlotOf(position[q])]
      BY <3>1 DEF Filling
    <3> QED BY <1>0, <2>1, <3>2 DEF Charged
  <2>3. CASE pc[q] \notin Owning
    BY <2>1, <2>3 DEF Charged, Owning
  <2> QED BY <2>2, <2>3
<1>2. SumFunction(Holdings') = SumFunction(Holdings)
          - (IF Charged(p) THEN Bytes[p] ELSE 0) + (IF Charged(p)' THEN Bytes[p] ELSE 0)
  BY <1>1, HoldingsMove
<1>3. Lying' = Lying
  <2>1. ASSUME NEW n \in Oldest..(enqueue - 1)
        PROVE  /\ Settled(n)' <=> Settled(n)
               /\ Settled(n) => slotBytes'[SlotOf(n)] = slotBytes[SlotOf(n)]
    <3>1. Settled(n)' <=> Settled(n)
      BY <1>0 DEF Settled
    <3>2. CASE Settled(n)
      <4>1. n # position[p] /\ position[p] \in Unfreed..(Unfreed + Slots - 1)
        BY <3>2, OwnerKnows DEF Filling
      <4>2. SlotOf(n) # SlotOf(position[p]) /\ SlotOf(n) \in Ring
        BY <4>1, TurnApart, OldestInTurn, SlotIn
      <4> QED BY <3>1, <4>2 DEF Filling
    <3> QED BY <3>1, <3>2
  <2> QED BY <1>0, <2>1 DEF Lying
<1>4. /\ bytesUsed <= load.capacity
      /\ bytesUsed = SumFunction(Holdings) + SumFunction(Lying) + carried.bytes
  BY DEF BytesAddUp
<1>5. /\ SumFunction(Holdings) \in Int /\ SumFunction(Lying) \in Int
      /\ carried.bytes \in Nat /\ load.capacity \in Nat /\ bytesUsed \in Int
      /\ Bytes[p] \in Nat
  BY BytesTyped
<1>6. /\ bytesUsed' <= load.capacity
      /\ bytesUsed' = SumFunction(Holdings') + SumFunction(Lying) + carried.bytes
  <2>1. /\ Charged(p)
        /\ \/ Charged(p)' /\ bytesUsed' = bytesUsed
           \/ ~Charged(p)' /\ bytesUsed' = bytesUsed - Bytes[p]
    BY DEF Filling
  <2> QED BY <1>2, <1>4, <1>5, <2>1, SMTT(30)
<1> QED
  BY <1>0, <1>3, <1>6 DEF BytesAddUp

\* Swap hands out the next position, at which nothing lies yet.
LEMMA SwapBytes ==
    ASSUME QueueInv, BytesAddUp, NEW p \in Producers, Swap(p), enqueue' # enqueue
    PROVE  BytesAddUp'
<1>0. /\ pc[p] = "swap" /\ position[p] = enqueue /\ enqueue' = enqueue + 1
      /\ pc' = [pc EXCEPT ![p] = "recheck"]
      /\ UNCHANGED <<load, dequeue, bytesUsed, sequence, slotBytes, cancelled, position, carried>>
  BY DEF Swap, Goto, localVars
<1>1. \A t \in Threads : pc'[t] = IF t = p THEN "recheck" ELSE pc[t]
  BY <1>0 DEF QueueInv, QueueTypes, ThreadTypes
<1>2. Oldest' = Oldest
  BY <1>0, <1>1, Kinds DEF Oldest
<1>3. Holdings' = Holdings
  <2>1. ASSUME NEW q \in Producers PROVE Charged(q)' <=> Charged(q)
    BY <1>0, <1>1, Kinds DEF Charged
  <2> QED BY <2>1 DEF Holdings
<1>4. Oldest \in Nat /\ enqueue \in Nat /\ Oldest <= enqueue
  BY OldestInTurn
<1> DEFINE S == Oldest..(enqueue - 1)
<1>5. Oldest' .. (enqueue' - 1) = S \cup {enqueue} /\ enqueue \notin S /\ IsFiniteSet(S)
  <2>1. enqueue' - 1 = enqueue
    BY <1>0, <1>4, SMTT(30)
  <2>2. Oldest..enqueue = S \cup {enqueue} /\ enqueue \notin S
    BY <1>4, SMTT(30)
  <2>3. IsFiniteSet(S)
    BY <1>4, FS_Interval, SMTT(30)
  <2> QED BY <1>2, <2>1, <2>2, <2>3
<1>6. ~Settled(enqueue)
  <2>1. sequence[SlotOf(enqueue)] = enqueue
    BY <1>0 DEF QueueInv, ClaimRight, Unclaimed
  <2> QED BY <1>4, <2>1, SMTT(30) DEF Settled
<1>7. Lying' = [n \in S \cup {enqueue} |-> IF Settled(n) THEN slotBytes[SlotOf(n)] ELSE 0]
  BY <1>0, <1>5 DEF Lying, Settled
<1>8. Lying \in [S -> Int]
  BY BytesTyped
<1>9. \A n \in S : Lying'[n] = Lying[n]
  BY <1>7 DEF Lying
<1>10. Lying'[enqueue] = 0
  BY <1>6, <1>7
<1> HIDE DEF S
<1>11. Lying' \in [S \cup {enqueue} -> Int]
  <2>1. DOMAIN Lying' = S \cup {enqueue} /\ Lying' = [n \in S \cup {enqueue} |-> Lying'[n]]
    BY <1>7
  <2>2. \A n \in S \cup {enqueue} : Lying'[n] \in Int
    BY <1>8, <1>9, <1>10, SMTT(30)
  <2> QED BY <2>1, <2>2
<1>12. SumFunction(Lying') = SumFunction(Lying)
  <2>1. \A f \in [S -> Int], e \in [S \cup {enqueue} -> Int] :
           (\A n \in S : e[n] = f[n]) =>
               SumFunction(e) = SumFunction(f) + e[enqueue] /\ SumFunction(f) \in Int
    BY <1>5, SumExtend
  <2>2. SumFunction(Lying') = SumFunction(Lying) + Lying'[enqueue] /\ SumFunction(Lying) \in Int
    BY <1>8, <1>9, <1>11, <2>1
  <2> QED BY <1>10, <2>2, SMTT(30)
<1> QED
  BY <1>0, <1>3, <1>12 DEF BytesAddUp

\* StoreSequence settles the slot of p and hands its bytes over.
LEMMA StoreBytes ==
    ASSUME QueueInv, BytesAddUp, NEW p \in Producers, StoreSequence(p)
    PROVE  BytesAddUp'
<1> DEFINE i == SlotOf(position[p])
<1>0. /\ pc[p] = "publish" /\ pc' = [pc EXCEPT ![p] = "bump"]
      /\ sequence' = [sequence EXCEPT ![i] = position[p] + 1]
      /\ UNCHANGED <<load, enqueue, dequeue, bytesUsed, slotBytes, cancelled, position, carried>>
  BY DEF StoreSequence, Notify, Goto, sharedVars, localVars
<1>1. /\ position[p] \in Unfreed..(enqueue - 1) /\ position[p] \in Unfreed..(Unfreed + Slots - 1)
      /\ position[p] \in Nat /\ i \in Ring /\ ~Settled(position[p]) /\ pc[p] \in Owning
  BY <1>0, OwnerKnows DEF Owning
<1>2. \A t \in Threads : pc'[t] = IF t = p THEN "bump" ELSE pc[t]
  BY <1>0 DEF QueueInv, QueueTypes, ThreadTypes
<1>3. Oldest' = Oldest
  BY <1>0, <1>2, Kinds DEF Oldest
<1>4. SumFunction(Holdings') = SumFunction(Holdings) - slotBytes[i]
  <2>1. ASSUME NEW q \in Producers \ {p} PROVE Charged(q)' <=> Charged(q)
    <3>1. pc'[q] = pc[q]
      BY <1>2, Kinds
    <3> QED BY <1>0, <3>1 DEF Charged
  <2>2. SumFunction(Holdings') = SumFunction(Holdings)
            - (IF Charged(p) THEN Bytes[p] ELSE 0) + (IF Charged(p)' THEN Bytes[p] ELSE 0)
    BY <2>1, HoldingsMove
  <2>3. pc'[p] = "bump"
    BY <1>2, Kinds
  <2>4. ~Charged(p)'
    BY <2>3 DEF Charged
  <2>5. slotBytes[i] = IF Charged(p) THEN Bytes[p] ELSE 0
    BY <1>0 DEF Charged, QueueInv, WrittenRight
  <2>6. SumFunction(Holdings) \in Int /\ Bytes[p] \in Nat
    BY BytesTyped
  <2> HIDE DEF i
  <2> QED BY <2>2, <2>4, <2>5, <2>6, SMTT(30)
<1>5. SumFunction(Lying') = SumFunction(Lying) + slotBytes[i] /\ slotBytes[i] \in Int
  <2> DEFINE S == Oldest..(enqueue - 1)
             z == position[p]
  <2>1. z \in S
    <3>1. pc[Consumer] = "free" => z # Unfreed
      BY <1>1 DEF QueueInv, ConsumerRight
    <3> QED BY <1>1, <3>1, SMTT(30) DEF Oldest, Unfreed, QueueInv, QueueTypes
  <2>2. Oldest' .. (enqueue' - 1) = S
    BY <1>0, <1>3
  <2>3. Lying \in [S -> Int] /\ IsFiniteSet(S)
    BY BytesTyped, OldestInTurn, FS_Interval, SMTT(30)
  <2>4. Lying[z] = 0
    BY <1>1, <2>1 DEF Lying
  <2>5. Lying' = [n \in S |-> IF Settled(n)' THEN slotBytes[SlotOf(n)] ELSE 0]
    BY <1>0, <2>2 DEF Lying
  <2>6. sequence \in [Ring -> Nat] /\ slotBytes[i] \in Nat
    BY <1>1 DEF QueueInv, QueueTypes
  <2>7. Settled(z)'
    BY <1>0, <1>1, <2>6 DEF Settled
  <2>8. Lying'[z] = slotBytes[i]
    <3>1. \A n \in S : Lying'[n] = IF Settled(n)' THEN slotBytes[SlotOf(n)] ELSE 0
      <4> TAKE n \in S
      <4> HIDE DEF S
      <4> QED BY <2>5
    <3> QED BY <1>0, <2>1, <2>7, <3>1
  <2>9. \A n \in S \ {z} : Lying'[n] = Lying[n]
    <3> TAKE n \in S \ {z}
    <3>1. n \in Unfreed..(Unfreed + Slots - 1) /\ n \in Nat
      BY OldestInTurn
    <3>2. SlotOf(n) # i
      BY <1>1, <3>1, TurnApart
    <3>3. Settled(n)' <=> Settled(n)
      BY <1>0, <2>6, <3>2, SMTT(30) DEF Settled
    <3> QED BY <2>5, <3>3 DEF Lying
  <2> HIDE DEF S, z, i
  <2>10. Lying' \in [S -> Int]
    <3>1. Lying' = [n \in S |-> Lying'[n]]
      BY <2>5
    <3>2. \A n \in S : Lying'[n] \in Int
      BY <2>3, <2>6, <2>8, <2>9, SMTT(30)
    <3> QED BY <3>1, <3>2
  <2>11. \A f \in [S -> Int], e \in [S -> Int] :
           (\A n \in S \ {z} : e[n] = f[n]) =>
               SumFunction(e) = SumFunction(f) - f[z] + e[z] /\ SumFunction(f) \in Int
    BY <2>1, <2>3, SumChange, SMTT(30)
  <2>12. SumFunction(Lying') = SumFunction(Lying) - Lying[z] + Lying'[z]
         /\ SumFunction(Lying) \in Int
    BY <2>3, <2>9, <2>10, <2>11
  <2> QED BY <2>4, <2>6, <2>8, <2>12, SMTT(30)
<1> HIDE DEF i
<1>6. /\ bytesUsed <= load.capacity
      /\ bytesUsed = SumFunction(Holdings) + SumFunction(Lying) + carried.bytes
  BY DEF BytesAddUp
<1>7. SumFunction(Holdings) \in Int /\ SumFunction(Lying) \in Int /\ carried.bytes \in Nat
  BY BytesTyped
<1>8. bytesUsed = SumFunction(Holdings') + SumFunction(Lying') + carried.bytes
  BY <1>4, <1>5, <1>6, <1>7, SMTT(30)
<1> QED
  BY <1>0, <1>6, <1>8 DEF BytesAddUp

(***************************************************************************)
(* The steps of the consumer.                                              *)
(***************************************************************************)
\* The consumer finds a settled slot, and takes it.
LEMMA TakeBytes ==
    ASSUME QueueInv, BytesAddUp, (Pop /\ pc'[Consumer] = "take") \/ TakeSlot
    PROVE  BytesAddUp'
<1>0. dequeue \in Nat /\ Consumer \in Threads
  BY Kinds DEF QueueInv, QueueTypes
<1>1. PICK l \in {"take", "read"} :
         /\ pc' = [pc EXCEPT ![Consumer] = l] /\ pc[Consumer] \in {"pop", "take"}
         /\ UNCHANGED <<load, enqueue, bytesUsed, slotVars, localVars>>
         /\ dequeue' = IF l = "take" THEN dequeue ELSE dequeue + 1
  <2>1. CASE Pop /\ pc'[Consumer] = "take"
    BY <1>0, <2>1 DEF Pop, Goto, QueueInv, QueueTypes, ThreadTypes, sharedVars
  <2>2. CASE TakeSlot
    BY <2>2 DEF TakeSlot, Goto
  <2> QED BY <2>1, <2>2
<1>2. pc'[Consumer] = l /\ \A p \in Producers : pc'[p] = pc[p]
  BY <1>0, <1>1, Kinds DEF QueueInv, QueueTypes, ThreadTypes
<1>3. Oldest' = Oldest
  BY <1>0, <1>1, <1>2, SMTT(30) DEF Oldest
<1>4. UNCHANGED <<enqueue, sequence, slotBytes, cancelled, position, load, bytesUsed, carried>>
  BY <1>1 DEF slotVars, localVars
<1>5. Lying' = Lying
  BY <1>3, <1>4 DEF Lying, Settled
<1>6. Holdings' = Holdings
  BY <1>2, <1>4, HoldingsStay
<1> QED
  BY <1>4, <1>5, <1>6, SumsStay

\* The consumer reads the slot it took: its bytes are now the consumer's.
LEMMA ReadBytes ==
    ASSUME QueueInv, BytesAddUp, ReadSlot
    PROVE  BytesAddUp'
<1> DEFINE i == SlotOf(dequeue - 1)
<1>0. /\ pc[Consumer] = "read" /\ pc' = [pc EXCEPT ![Consumer] = "free"]
      /\ carried'.bytes = slotBytes[i]
      /\ UNCHANGED <<load, enqueue, dequeue, bytesUsed, sequence, slotBytes, cancelled, position>>
  BY DEF ReadSlot, Goto, sharedVars, slotVars
<1>1. /\ dequeue \in Nat /\ enqueue \in Nat /\ Unfreed = dequeue - 1 /\ Unfreed \in Nat
      /\ Oldest = dequeue - 1
      /\ Unfreed < enqueue /\ Settled(Unfreed) /\ i \in Ring /\ carried.bytes = 0
  BY <1>0, SlotIn DEF Unfreed, Oldest, QueueInv, QueueTypes, ConsumerRight, OneTurn
<1>2. pc'[Consumer] = "free" /\ \A p \in Producers : pc'[p] = pc[p]
  BY <1>0, Kinds DEF QueueInv, QueueTypes, ThreadTypes
<1>3. Oldest' = dequeue /\ slotBytes[i] \in Nat
  BY <1>0, <1>1, <1>2 DEF Oldest, QueueInv, QueueTypes
<1>4. Holdings' = Holdings
  BY <1>0, <1>2, HoldingsStay
<1> DEFINE S == dequeue..(enqueue - 1)
           z == dequeue - 1
<1>5. Oldest..(enqueue - 1) = S \cup {z} /\ z \notin S
  BY <1>1, SMTT(30)
<1>6. IsFiniteSet(S)
  BY <1>1, FS_Interval, SMTT(30)
<1>7. Lying \in [S \cup {z} -> Int]
  BY <1>5, BytesTyped
<1>8. Lying' = [n \in S |-> IF Settled(n) THEN slotBytes[SlotOf(n)] ELSE 0]
  BY <1>0, <1>3 DEF Lying, Settled
<1>9. \A n \in S : Lying[n] = Lying'[n]
  BY <1>5, <1>8 DEF Lying
<1>10. Lying[z] = slotBytes[i]
  BY <1>1, <1>5 DEF Lying
<1> HIDE DEF S, z, i
<1>11. Lying' \in [S -> Int]
  BY <1>7, <1>8, <1>9
<1>12. SumFunction(Lying) = SumFunction(Lying') + slotBytes[i] /\ SumFunction(Lying') \in Int
  <2>1. \A f \in [S -> Int], e \in [S \cup {z} -> Int] :
           (\A n \in S : e[n] = f[n]) =>
               SumFunction(e) = SumFunction(f) + e[z] /\ SumFunction(f) \in Int
    BY <1>5, <1>6, SumExtend
  <2> QED BY <1>7, <1>9, <1>10, <1>11, <2>1
<1>13. /\ bytesUsed <= load.capacity
       /\ bytesUsed = SumFunction(Holdings) + SumFunction(Lying) + carried.bytes
  BY DEF BytesAddUp
<1>14. SumFunction(Holdings) \in Int
  BY BytesTyped
<1>15. bytesUsed = SumFunction(Holdings) + SumFunction(Lying') + slotBytes[i]
  BY <1>1, <1>3, <1>12, <1>13, <1>14, SMTT(30)
<1> QED
  BY <1>0, <1>4, <1>13, <1>15 DEF BytesAddUp

\* The consumer gives the slot back, which it has read already.
LEMMA FreeBytes ==
    ASSUME QueueInv, BytesAddUp, FreeSlot
    PROVE  BytesAddUp'
<1>0. /\ pc[Consumer] = "free" /\ pc' = [pc EXCEPT ![Consumer] = "release"]
      /\ sequence' = [sequence EXCEPT ![SlotOf(dequeue - 1)] = dequeue - 1 + Slots]
      /\ UNCHANGED <<load, enqueue, dequeue, bytesUsed, slotBytes, cancelled, position, carried>>
  BY DEF FreeSlot, Goto, sharedVars, localVars
<1>1. /\ dequeue \in Nat /\ Unfreed = dequeue - 1 /\ Unfreed \in Nat
      /\ Oldest = dequeue /\ Slots \in Nat /\ Slots >= 2
  BY <1>0, SlotsPositive DEF Unfreed, Oldest, QueueInv, QueueTypes, ConsumerRight, OneTurn
<1>2. pc'[Consumer] = "release" /\ \A p \in Producers : pc'[p] = pc[p]
  BY <1>0, Kinds DEF QueueInv, QueueTypes, ThreadTypes
<1>3. Oldest' = Oldest
  BY <1>0, <1>1, <1>2 DEF Oldest
<1>4. \A n \in Oldest..(enqueue - 1) : Settled(n)' <=> Settled(n)
  <2> TAKE n \in Oldest..(enqueue - 1)
  <2>1. /\ n \in Nat /\ n \in Unfreed..(Unfreed + Slots - 1)
        /\ Unfreed \in Unfreed..(Unfreed + Slots - 1) /\ n # Unfreed
    BY <1>1, OldestInTurn, SMTT(30)
  <2>2. SlotOf(n) # SlotOf(dequeue - 1)
    BY <1>1, <2>1, TurnApart
  <2>3. sequence \in [Ring -> Nat]
    BY DEF QueueInv, QueueTypes
  <2> QED BY <1>0, <2>2, <2>3, SMTT(30) DEF Settled
<1>5. Lying' = Lying
  BY <1>0, <1>3, <1>4 DEF Lying
<1>6. Holdings' = Holdings
  BY <1>0, <1>2, HoldingsStay
<1> QED
  BY <1>0, <1>5, <1>6, SumsStay

\* The consumer uncharges what it read.
LEMMA ReleasedBytes ==
    ASSUME QueueInv, BytesAddUp, ReleaseBytes
    PROVE  BytesAddUp'
<1>0. /\ pc[Consumer] = "release" /\ pc' = [pc EXCEPT ![Consumer] = "bump"]
      /\ bytesUsed' = bytesUsed - carried.bytes /\ carried'.bytes = 0
      /\ UNCHANGED <<load, enqueue, dequeue, sequence, slotBytes, cancelled, position>>
  BY DEF ReleaseBytes, Notify, Goto, slotVars
<1>1. pc'[Consumer] = "bump" /\ \A p \in Producers : pc'[p] = pc[p]
  BY <1>0, Kinds DEF QueueInv, QueueTypes, ThreadTypes
<1>2. Oldest' = Oldest
  BY <1>0, <1>1 DEF Oldest
<1>3. Lying' = Lying
  BY <1>0, <1>2 DEF Lying, Settled
<1>4. Holdings' = Holdings
  BY <1>0, <1>1, HoldingsStay
<1>5. /\ SumFunction(Holdings) \in Int /\ SumFunction(Lying) \in Int /\ load.capacity \in Nat
      /\ carried.bytes \in Nat /\ bytesUsed \in Int
  BY BytesTyped
<1>6. /\ bytesUsed <= load.capacity
      /\ bytesUsed = SumFunction(Holdings) + SumFunction(Lying) + carried.bytes
  BY DEF BytesAddUp
<1>7. /\ bytesUsed' <= load.capacity
      /\ bytesUsed' = SumFunction(Holdings) + SumFunction(Lying) + carried'.bytes
  BY <1>0, <1>5, <1>6, SMTT(30)
<1> QED
  BY <1>0, <1>3, <1>4, <1>7 DEF BytesAddUp

(***************************************************************************)
(* The accounting holds.                                                   *)
(***************************************************************************)
\* A new queue: nothing is charged.
LEMMA BytesStart == Init => BytesAddUp
<1> SUFFICES ASSUME Init PROVE BytesAddUp
  OBVIOUS
<1>1. QueueInv
  BY QueueStarts
<1>2. /\ pc[Consumer] = "observe" /\ enqueue = 0 /\ dequeue = 0
      /\ carried.bytes = 0 /\ bytesUsed = 0
      /\ \A p \in Producers : pc[p] = "call"
  BY Kinds DEF Init
<1>3. SumFunction(Holdings) = 0
  <2>1. \A p \in Producers : ~Charged(p)
    BY <1>2 DEF Charged
  <2>2. \A p \in Producers : Holdings[p] = 0
    BY <2>1 DEF Holdings
  <2>3. Holdings \in [Producers -> Int] /\ IsFiniteSet(Producers)
    BY <1>1, BytesTyped, QueueAssumption
  <2> QED BY <2>2, <2>3, SumZero
<1>4. SumFunction(Lying) = 0
  <2>1. DOMAIN Lying = {}
    BY <1>2, SMTT(30) DEF Lying, Oldest
  <2> QED BY <2>1, SumEmpty DEF SumFunction
<1>5. load.capacity \in Nat
  BY <1>1, BytesTyped
<1> QED
  BY <1>2, <1>3, <1>4, <1>5, SMTT(30) DEF BytesAddUp

\* Every step of a producer keeps the account.
LEMMA ProduceBytes ==
    ASSUME QueueInv, BytesAddUp, NEW p \in Producers, Produce(p)
    PROVE  BytesAddUp'
<1>0. QueueTypes
  BY DEF QueueInv
<1>1. CASE Call(p) \/ LoadPosition(p) \/ Uncharge(p)
  <2>1. Asking(p)
    BY <1>1, ProducerAsks
  <2> QED BY <2>1, AskingBytes
<1>2. CASE Charge(p)
  BY <1>0, <1>2, ProducerAsks, AskingBytes, ChargeFailStands, StandingBytes
<1>3. CASE CheckClosed(p)
  BY <1>0, <1>3, CheckClosedStands, StandingBytes
<1>4. CASE Inspect(p) \/ Recheck(p) \/ UsePermit(p)
  <2>1. Turning(p)
    BY <1>0, <1>4, ProducerTurns
  <2> QED BY <2>1, TurningBytes
<1>5. CASE Swap(p)
  BY <1>0, <1>5, ProducerTurns, TurningBytes, SwapBytes
<1>6. CASE WriteSlot(p) \/ CancelSlot(p) \/ Refund(p)
  BY <1>6, ProducerFills, FillingBytes
<1>7. CASE StoreSequence(p)
  BY <1>7, StoreBytes
<1> QED
  BY <1>1, <1>2, <1>3, <1>4, <1>5, <1>6, <1>7 DEF Produce

\* Every step of the consumer keeps the account.
LEMMA ConsumeBytes ==
    ASSUME QueueInv, BytesAddUp, Consume
    PROVE  BytesAddUp'
<1>0. QueueTypes
  BY DEF QueueInv
<1>1. CASE Pop
  BY <1>0, <1>1, TakeBytes, SearchStands, StandingBytes
<1>2. CASE Empty \/ IsDrained
  BY <1>0, <1>2, SearchStands, StandingBytes
<1>3. CASE TakeSlot
  BY <1>3, TakeBytes
<1> QED
  BY <1>1, <1>2, <1>3, ReadBytes, FreeBytes, ReleasedBytes DEF Consume

\* Every step of the queue keeps the account.
LEMMA BytesStep == QueueInv /\ BytesAddUp /\ [Next]_vars => BytesAddUp'
<1> SUFFICES ASSUME QueueInv, BytesAddUp, [Next]_vars PROVE BytesAddUp'
  OBVIOUS
<1>0. QueueTypes
  BY DEF QueueInv
<1>1. ASSUME NEW p \in Producers, Produce(p) PROVE BytesAddUp'
  BY <1>1, ProduceBytes
<1>2. CASE Consume
  BY <1>2, ConsumeBytes
<1>3. CASE CloseQueue
  BY <1>0, <1>3, CloseStands, StandingBytes
<1>4. ASSUME NEW t \in Threads, Wait(t) PROVE BytesAddUp'
  BY <1>0, <1>4, WaitStands, StandingBytes
<1>5. CASE UNCHANGED vars
  <2>1. Holdings' = Holdings /\ Lying' = Lying /\ UNCHANGED <<bytesUsed, load, carried>>
    BY <1>5 DEF vars, sharedVars, slotVars, waitVars, localVars, Holdings, Lying, Charged,
                Settled, Oldest
  <2> QED BY <2>1, SumsStay
<1> QED
  BY <1>1, <1>2, <1>3, <1>4, <1>5 DEF Next, Quiet

\* BYTES ADD UP, for any charges and capacity: bytes_used never exceeds the byte
\* capacity and is exactly what permits, published items and the item being popped
\* hold (queue.rs, charge_bytes and its uncharges).
THEOREM BytesNeverLeak == Spec => []BytesAddUp
  BY BytesStart, BytesStep, QueueInvHolds, PTL DEF Spec

=============================================================================
