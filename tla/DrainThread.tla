---------------------------- MODULE DrainThread ----------------------------
(***************************************************************************)
(* The drain thread of one CPU (eventd/src/kmes.rs, drain) with the        *)
(* reconciler (eventd-core/src/reconcile.rs) and the stripe router         *)
(* (eventd-core/src/routing.rs) that it owns.                              *)
(*                                                                         *)
(*   dpc[c]       where the thread is in the loop                          *)
(*   pos[c]       read_position                                            *)
(*   next[c]      Reconciler::next_sequence                                *)
(*   last[c]      last_sequence, 0 for None                                *)
(*   cur[c]       the event being handled and what observe() said of it    *)
(*   router[c]    StripeRouter: index into ShardOrder[c], handoffs sent    *)
(*   recovered[c] recovery_complete                                        *)
(*   final[c]     final_write, 0 until the stop flag has been seen         *)
(*   boundary[c]  recovery_boundary                                        *)
(*   base[c]      whether the mapped ring had already been replaced when   *)
(*                its generation was read to compare later ones with       *)
(*   mark[c]      barriers sent, then barriers acknowledged                *)
(*   note[c]      what the thread sent on the startup channel              *)
(*                                                                         *)
(* A step is what the thread does between two points at which another      *)
(* thread or the kernel can be seen to act.  ring.wait returns on new data *)
(* or after a second, so an idle thread goes round the loop.               *)
(***************************************************************************)
EXTENDS IngestState

\* The event at hand, and what observe() said of it.
Verdict ==
    {v \in [seq : Nat, gaps : SUBSET Key, store : BOOLEAN, torn : BOOLEAN] :
        v.store => v.seq # 0}

NoEvent == [seq |-> 0, gaps |-> {}, store |-> FALSE, torn |-> FALSE]

NewRouter == [index |-> 1, sent |-> 0]

CurrentShard(c) == ShardOrder[c][router[c].index]

\* StripeRouter::advance
Advance(r, n) ==
    IF r.sent + 1 = StripeLength
    THEN [index |-> (r.index % n) + 1, sent |-> 0]
    ELSE [r EXCEPT !.sent = @ + 1]

Goto(c, label) == dpc' = [dpc EXCEPT ![c] = label]

\* Every thread of the process is alive only while it runs.
Alive == phase # "down"

(***************************************************************************)
(* The reconciler.                                                         *)
(***************************************************************************)
\* Mutation: the receipts found at startup are not consulted.
CoveredNever(c, q) == FALSE

Covered(c, q) == <<c, q>> \in coverage

\* Mutation: the sequence just before the observed one is left out.
UncoveredGapsShort(c, q) == {<<c, n>> : n \in next[c]..(q - 2)} \ coverage

\* Reconciler::uncovered_gaps, as the set of keys its ranges name.
UncoveredGaps(c, q) == {<<c, n>> : n \in next[c]..(q - 1)} \ coverage

Regression(c, q) == q < next[c] /\ ~Covered(c, q)

\* Reconciler::observe, for a sequence that is no regression.
Observe(c, q) ==
    IF q < next[c]
    THEN [seq |-> q, gaps |-> {}, store |-> FALSE, torn |-> FALSE]
    ELSE [seq |-> q, gaps |-> UncoveredGaps(c, q), store |-> ~Covered(c, q),
          torn |-> FALSE]

NextAfter(c, q) == IF q < next[c] THEN next[c] ELSE q + 1

NeedsHandoff(o) == o.store \/ o.gaps # {}

\* The candidate reconciler replaces the current one, and the position and
\* last_sequence move past the event.
MovePast(c, q) ==
    /\ pos' = [pos EXCEPT ![c] = q + 1]
    /\ last' = [last EXCEPT ![c] = q]
    /\ next' = [next EXCEPT ![c] = NextAfter(c, q)]

(***************************************************************************)
(* The loop.                                                               *)
(***************************************************************************)
\* The thread starts on the ring attached before it was spawned.
DrainStart(c) ==
    /\ Alive /\ dpc[c] = "attached"
    /\ pos' = [pos EXCEPT ![c] = TailPos(c)]
    /\ base' = [base EXCEPT ![c] = stale[c]]
    /\ boundary' = [boundary EXCEPT ![c] = WritePos(c)]
    /\ Goto(c, "top")
    /\ UNCHANGED <<next, last, cur, router, recovered, final, mark, note,
                   kernelVars, storeVars, chanVars, writerVars, superVars, budget>>

\* The stop flag is read once per cycle.  The first cycle that sees it set is
\* the final one, and reads no further than the write position of now.
DrainTop(c) ==
    /\ Alive /\ dpc[c] = "top"
    /\ IF stopping /\ final[c] # 0
       THEN Goto(c, "done") /\ UNCHANGED final
       ELSE /\ final' = [final EXCEPT ![c] = IF stopping THEN WritePos(c) ELSE @]
            /\ Goto(c, "scan")
    /\ UNCHANGED <<pos, next, last, cur, router, recovered, boundary, base, mark,
                   note, kernelVars, storeVars, chanVars, writerVars, superVars,
                   budget>>

\* Mutation: the newest event is left for a later cycle.
UnreadButLast(c) ==
    LET limit == IF final[c] # 0 THEN final[c] ELSE WritePos(c)
    IN  {q \in Mapped(c) : pos[c] <= q /\ q < limit - 1}

\* The unread survivors below the cycle's limit.
Unread(c) ==
    LET limit == IF final[c] # 0 THEN final[c] ELSE WritePos(c)
    IN  {q \in Mapped(c) : pos[c] <= q /\ q < limit}

\* tail_pos and write_pos are read and read_position settles on an event, or the
\* cycle ends.  Both positions only grow, so reading the one just before the
\* other comes to reading both when that event was still there.
DrainScan(c) ==
    /\ Alive /\ dpc[c] = "scan"
    /\ IF Unread(c) = {}
       THEN /\ pos' = [pos EXCEPT ![c] = IF @ < TailPos(c) THEN TailPos(c) ELSE @]
            /\ Goto(c, "cycle")
       ELSE /\ pos' = [pos EXCEPT ![c] = MinOf(Unread(c))]
            /\ Goto(c, "reading")
    /\ UNCHANGED <<next, last, cur, router, recovered, final, boundary, base, mark,
                   note, kernelVars, storeVars, chanVars, writerVars, superVars,
                   budget>>

\* What an overwritten header may show and observe() let pass.
Stray(c) == {q \in 1..(MaxSeq[c] + 1) : ~Regression(c, q)}

\* event_at, the CPU check and observe(), on a header decoded once.  The kernel
\* may have overwritten the event since the tail was read: then its sequence is
\* any at all.  (A header that cannot be read, names another CPU or shows a false
\* regression ends the thread: DrainFault.)
DrainRead(c) ==
    /\ Alive /\ dpc[c] = "reading"
    /\ \E q \in IF Lapped(c, pos[c]) THEN Stray(c) ELSE {pos[c]} :
         IF Regression(c, q)
         THEN Goto(c, "failed") /\ UNCHANGED cur
         ELSE /\ cur' = [cur EXCEPT ![c] = Observe(c, q)]
              /\ Goto(c, "observed")
    /\ UNCHANGED <<pos, next, last, router, recovered, final, boundary, base, mark,
                   note, kernelVars, storeVars, chanVars, writerVars, superVars,
                   budget>>

\* Mutation: the tail is not read again.
OverwrittenNever(c) == FALSE

\* The tail, read again, has passed the event at hand.
Overwritten(c) == Lapped(c, pos[c])

\* An event already covered, which reveals no gap, is skipped unless it has
\* been overwritten meanwhile.
DrainSkip(c) ==
    /\ Alive /\ dpc[c] = "observed"
    /\ ~NeedsHandoff(cur[c])
    /\ IF Overwritten(c)
       THEN UNCHANGED <<pos, last, next>>
       ELSE MovePast(c, cur[c].seq)
    /\ cur' = [cur EXCEPT ![c] = NoEvent]
    /\ Goto(c, "scan")
    /\ UNCHANGED <<router, recovered, final, boundary, base, mark, note, kernelVars,
                   storeVars, chanVars, writerVars, superVars, budget>>

\* reserve(): waits for room, and fails once the queue is closed.
DrainReserve(c) ==
    LET s == CurrentShard(c)
    IN  /\ Alive /\ dpc[c] = "observed"
        /\ NeedsHandoff(cur[c])
        /\ \/ /\ closed[s]
              /\ Goto(c, "failed")
              /\ UNCHANGED queue
           \/ /\ ~closed[s] /\ Room(s)
              /\ queue' = [queue EXCEPT ![s] = Claim(@, c, NoMsg)]
              /\ Goto(c, "held")
        /\ UNCHANGED <<pos, next, last, cur, router, recovered, final, boundary, base,
                       mark, note, closed, replies, kernelVars, storeVars,
                       writerVars, superVars, budget>>

\* The event is copied out of the mapped ring, which may have moved on.
DrainCopy(c) ==
    /\ Alive /\ dpc[c] = "held"
    /\ cur' = [cur EXCEPT ![c].torn = Lapped(c, pos[c])]
    /\ Goto(c, "copied")
    /\ UNCHANGED <<pos, next, last, router, recovered, final, boundary, base, mark,
                   note, kernelVars, storeVars, chanVars, writerVars, superVars,
                   budget>>

\* What is handed off for the event: a reserved type is not stored.
Handoff(c) ==
    LET e == cur[c]
        k == <<c, e.seq>>
    IN  EventMsg(c, IF e.store /\ k \notin ReservedTypes THEN {k} ELSE {},
                 e.gaps, e.torn)

\* The tail is read again.  If the event was overwritten the permit is
\* dropped and nothing moves; otherwise the copy is published and everything
\* moves past it.
DrainSettle(c) ==
    LET s == CurrentShard(c)
    IN  /\ Alive /\ dpc[c] = "copied"
        /\ IF Overwritten(c)
           THEN /\ queue' = [queue EXCEPT ![s] = Cancel(@, c, NoMsg)]
                /\ UNCHANGED <<pos, last, next, router>>
           ELSE /\ queue' = [queue EXCEPT ![s] = Publish(@, c, Handoff(c))]
                /\ router' = [router EXCEPT ![c] = Advance(@, Len(ShardOrder[c]))]
                /\ MovePast(c, cur[c].seq)
        /\ cur' = [cur EXCEPT ![c] = NoEvent]
        /\ Goto(c, "scan")
        /\ UNCHANGED <<recovered, final, boundary, base, mark, note, closed, replies,
                       kernelVars, storeVars, writerVars, superVars, budget>>

AfterRecovery(c) == IF final[c] # 0 THEN "done" ELSE "top"

\* The end of a cycle: follow a generation change, else complete recovery,
\* else stop or go round again.
DrainCycleEnd(c) ==
    /\ Alive /\ dpc[c] = "cycle"
    /\ IF stale[c] # base[c]
       THEN /\ Goto(c, "swapping")
            /\ stale' = [stale EXCEPT ![c] = FALSE]
            /\ frozen' = [frozen EXCEPT ![c] = {}]
       ELSE /\ Goto(c, IF ~recovered[c] /\ pos[c] >= boundary[c]
                       THEN "marking" ELSE AfterRecovery(c))
            /\ UNCHANGED <<stale, frozen>>
    /\ UNCHANGED <<pos, next, last, cur, router, recovered, final, boundary, base,
                   mark, note, head, ring, storeVars, chanVars, writerVars,
                   superVars, budget>>

\* Mutation: the replacement is read from its tail.
ResumeAtTail(c) == TailPos(c)

\* replacement_ring: the first event of the new ring after the last one
\* handled, or its write position.
ResumeAt(c) ==
    LET newer == {q \in Mapped(c) : q > last[c]}
    IN  IF last[c] = 0 THEN TailPos(c)
        ELSE IF newer = {} THEN WritePos(c)
        ELSE MinOf(newer)

\* The replacement is adopted; its generation becomes the one to compare with.
DrainSwap(c) ==
    /\ Alive /\ dpc[c] = "swapping"
    /\ pos' = [pos EXCEPT ![c] = ResumeAt(c)]
    /\ base' = [base EXCEPT ![c] = stale[c]]
    /\ boundary' = [boundary EXCEPT ![c] = IF recovered[c] THEN @ ELSE WritePos(c)]
    /\ Goto(c, "top")
    /\ UNCHANGED <<next, last, cur, router, recovered, final, mark, note, kernelVars,
                   storeVars, chanVars, writerVars, superVars, budget>>

(***************************************************************************)
(* commit_recovery_markers: a barrier to each shard of this CPU, then the  *)
(* acknowledgements in the same order.                                     *)
(***************************************************************************)
\* The thread reports on the startup channel.
Notify(c, n) == note' = [note EXCEPT ![c] = n]

DrainMark(c) ==
    LET s == ShardOrder[c][mark[c] + 1]
        all == mark[c] + 1 = Len(ShardOrder[c])
    IN  /\ Alive /\ dpc[c] = "marking"
        /\ \/ /\ closed[s]
              /\ Goto(c, "failed") /\ Notify(c, "failed")
              /\ UNCHANGED <<queue, mark>>
           \/ /\ ~closed[s] /\ Room(s)
              /\ queue' = [queue EXCEPT ![s] = Send(@, c, Control("barrier", c))]
              /\ mark' = [mark EXCEPT ![c] = IF all THEN 0 ELSE @ + 1]
              /\ Goto(c, IF all THEN "acking" ELSE "marking")
              /\ UNCHANGED note
        /\ UNCHANGED <<pos, next, last, cur, router, recovered, final, boundary, base,
                       closed, replies, kernelVars, storeVars, writerVars,
                       superVars, budget>>

DrainAck(c) ==
    LET s == ShardOrder[c][mark[c] + 1]
        all == mark[c] + 1 = Len(ShardOrder[c])
    IN  /\ Alive /\ dpc[c] = "acking"
        /\ \E ok \in BOOLEAN :
             /\ <<c, s, ok>> \in replies
             /\ replies' = replies \ {<<c, s, ok>>}
             /\ IF ~ok
                THEN /\ Goto(c, "failed") /\ Notify(c, "failed")
                     /\ UNCHANGED <<recovered, mark>>
                ELSE /\ mark' = [mark EXCEPT ![c] = IF all THEN 0 ELSE @ + 1]
                     /\ recovered' = [recovered EXCEPT ![c] = all]
                     /\ Goto(c, IF all THEN AfterRecovery(c) ELSE "acking")
                     /\ note' = [note EXCEPT ![c] = IF all THEN "recovered" ELSE @]
        /\ UNCHANGED <<pos, next, last, cur, router, final, boundary, base, queue,
                       closed, kernelVars, storeVars, writerVars, superVars, budget>>

\* event_at, attach, map or the CPU check fails, or an overwritten header shows a
\* sequence that regresses: the thread returns an error without a word on the
\* startup channel.
DrainFault(c) ==
    /\ Alive /\ dpc[c] \in {"reading", "swapping"}
    /\ Spend("ring")
    /\ Goto(c, "failed")
    /\ UNCHANGED <<pos, next, last, cur, router, recovered, final, boundary, base,
                   mark, note, kernelVars, storeVars, chanVars, writerVars,
                   superVars>>

DrainStep(c) ==
    \/ DrainStart(c) \/ DrainTop(c) \/ DrainScan(c) \/ DrainRead(c)
    \/ DrainSkip(c) \/ DrainReserve(c) \/ DrainCopy(c) \/ DrainSettle(c)
    \/ DrainCycleEnd(c) \/ DrainSwap(c) \/ DrainMark(c) \/ DrainAck(c)
=============================================================================
