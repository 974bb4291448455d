------------------------- MODULE EventIngestRecovery -------------------------
(***************************************************************************)
(* No event is found behind the reconciler (NoRegression), and a drain     *)
(* that reports recovery has everything up to its boundary on record       *)
(* (ReadyMeansRecovered).                                                  *)
(*                                                                         *)
(* Reading is about a drain and its ring: the read position never falls    *)
(* behind the reconciler, across any number of ring replacements, because  *)
(* the newest survivor is carried over.  Recovery is about the markers:    *)
(* until a drain has recovered, none of its keys is queued behind one of   *)
(* its markers, so an acknowledged marker says that its shard has nothing  *)
(* of that drain left in hand.                                             *)
(***************************************************************************)
EXTENDS EventIngestSafety

\* The time each leaf may take, in seconds.
USE ZenonT(30)

(***************************************************************************)
(* Reading.                                                                *)
(***************************************************************************)
\* A drain's step leaves the other drains alone.
LEMMA DrainElsewhere ==
    ASSUME TypeInv, NEW c \in Cpus, DrainStep(c) \/ DrainFault(c), NEW d \in Cpus \ {c}
    PROVE  /\ last'[d] = last[d] /\ final'[d] = final[d]
           /\ boundary'[d] = boundary[d] /\ recovered'[d] = recovered[d]
           /\ mark'[d] = mark[d]
<1> USE DEF TypeInv, TypeOK, DrainTypes
<1>1. CASE DrainStart(c) \/ DrainTop(c) \/ DrainScan(c) \/ DrainRead(c) \/ DrainSkip(c)
  <2>1. CASE DrainStart(c)
    BY <2>1 DEF DrainStart
  <2>2. CASE DrainTop(c)
    BY <2>2 DEF DrainTop
  <2>3. CASE DrainScan(c) \/ DrainRead(c)
    BY <2>3 DEF DrainScan, DrainRead
  <2>4. CASE DrainSkip(c)
    BY <2>4 DEF DrainSkip, MovePast
  <2> QED
    BY <1>1, <2>1, <2>2, <2>3, <2>4
<1>2. CASE DrainReserve(c) \/ DrainCopy(c) \/ DrainSettle(c)
  BY <1>2 DEF DrainReserve, DrainCopy, DrainSettle, MovePast
<1>3. CASE DrainCycleEnd(c) \/ DrainSwap(c) \/ DrainMark(c)
  BY <1>3 DEF DrainCycleEnd, DrainSwap, DrainMark
<1>4. CASE DrainAck(c)
  <2>1. UNCHANGED <<last, final, boundary>> /\ mark'[d] = mark[d]
    BY <1>4, SMTT(30) DEF DrainAck
  <2>2. \/ UNCHANGED recovered
        \/ recovered' = [recovered EXCEPT ![c] = mark[c] + 1 = Len(ShardOrder[c])]
    BY <1>4 DEF DrainAck
  <2>3. recovered'[d] = recovered[d]
    BY <2>2
  <2> QED
    BY <2>1, <2>3
<1>5. CASE DrainFault(c)
  BY <1>5 DEF DrainFault
<1> QED
  BY <1>1, <1>2, <1>3, <1>4, <1>5 DEF DrainStep

\* Everything in S has something as new in T.
Outlived(S, T) == \A x \in S : \E y \in T : x <= y

\* A step that leaves the drain of c where it is.
Still(c) ==
    /\ next'[c] = next[c] /\ last'[c] = last[c] /\ pos'[c] = pos[c] /\ dpc'[c] = dpc[c]
    /\ final'[c] = final[c] /\ boundary'[c] = boundary[c]
    /\ stopping => stopping'

\* The ring that c has mapped keeps its newest survivor.
RingOutlives(c) ==
    /\ Outlived(Mapped(c), Mapped(c)')
    /\ stale'[c] => Outlived(frozen'[c], ring'[c])

LEMMA StillReads ==
    ASSUME TypeInv, TypeInv', NEW c \in Cpus, Still(c), RingOutlives(c),
           InOrder(c)
    PROVE  InOrder(c)'
<1>1. /\ Mapped(c) \in SUBSET Nat /\ Mapped(c)' \in SUBSET Nat
      /\ last[c] \in Nat /\ pos[c] \in Nat
  BY DEF TypeInv, TypeOK, DrainTypes, KernelTypes, Mapped
<1>2. ReadsForward(c)'
  BY DEF Still, ReadsForward, InOrder
<1>3. \A n \in Nat : (\E x \in Mapped(c) : n <= x) => \E x \in Mapped(c)' : n <= x
  BY <1>1, SMTT(30) DEF RingOutlives, Outlived
<1>4. NewestSurvives(c)'
  BY <1>1, <1>3 DEF Still, RingOutlives, Outlived, NewestSurvives, InOrder
<1>5. CaughtUp(c)'
  BY <1>1, <1>3 DEF Still, CaughtUp, InOrder
<1> QED
  BY <1>2, <1>4, <1>5 DEF InOrder

\* The kernel's steps keep the newest survivor of every ring.
LEMMA KernelOutlives ==
    ASSUME TypeInv, Kernel, NEW d \in Cpus, NewestSurvives(d)
    PROVE  RingOutlives(d)
<1>0. /\ head \in [Cpus -> Nat] /\ ring \in [Cpus -> SUBSET (Nat \ {0})]
      /\ stale \in [Cpus -> BOOLEAN] /\ frozen \in [Cpus -> SUBSET (Nat \ {0})]
      /\ ring[d] \subseteq 1..head[d]
  BY DEF TypeInv, TypeOK, KernelTypes, RingsBounded
<1>1. PICK c \in Cpus : Emit(c) \/ StructuralDrop(c) \/ Resize(c)
  BY DEF Kernel
<1>2. ring'[d] \subseteq Nat /\ Outlived(ring[d], ring'[d])
  <2>1. CASE c # d \/ StructuralDrop(c)
    BY <1>0, <1>1, <2>1, SMTT(30) DEF Emit, StructuralDrop, Resize, Outlived
  <2>2. CASE c = d /\ Emit(c)
    <3>1. /\ head[d] + 1 \in ring'[d]
          /\ ring'[d] \subseteq ring[d] \cup {head[d] + 1}
      BY <1>0, <2>2 DEF Emit
    <3> QED
      BY <1>0, <3>1, SMTT(30) DEF Outlived
  <2>3. CASE c = d /\ Resize(c)
    <3>1. PICK k \in IF ring[d] = {} THEN {0} ELSE ring[d] :
              ring'[d] = {n \in ring[d] : k <= n}
      BY <1>0, <2>3 DEF Resize
    <3> QED
      BY <1>0, <3>1, SMTT(30) DEF Outlived
  <2> QED
    BY <1>1, <2>1, <2>2, <2>3
<1>3. \/ stale'[d] = stale[d] /\ frozen'[d] = frozen[d]
      \/ stale'[d] /\ ~stale[d] /\ frozen'[d] = ring[d]
  BY <1>0, <1>1, SMTT(30) DEF Emit, StructuralDrop, Resize
<1>4. stale[d] => Outlived(frozen[d], ring[d])
  BY DEF NewestSurvives, Outlived
<1>5. stale'[d] => Outlived(frozen'[d], ring'[d])
  <2>1. CASE stale[d] /\ frozen'[d] = frozen[d]
    BY <1>0, <1>2, <1>4, <2>1, SMTT(30) DEF Outlived
  <2>2. CASE frozen'[d] = ring[d]
    BY <1>2, <2>2
  <2> QED
    BY <1>3, <2>1, <2>2
<1>6. Outlived(Mapped(d), Mapped(d)')
  BY <1>0, <1>2, <1>3, SMTT(30) DEF Outlived, Mapped
<1> QED
  BY <1>5, <1>6 DEF RingOutlives

\* Where a drain resumes in a replacement (replacement_ring): not behind the
\* reconciler, and either where it stands or at a survivor.
LEMMA ResumesForward ==
    ASSUME TypeInv, NEW c \in Cpus, ReadsForward(c), NewestSurvives(c)
    PROVE  /\ ResumeAt(c) \in Nat \ {0} /\ next[c] <= ResumeAt(c)
           /\ ResumeAt(c) = next[c] \/ ResumeAt(c) \in Mapped(c)
<1>0. /\ last[c] \in Nat /\ next[c] = last[c] + 1 /\ head[c] \in Nat
      /\ Mapped(c) \subseteq 1..head[c]
  BY RingPositions DEF TypeInv, TypeOK, DrainTypes, KernelTypes, ReadsForward
<1>1. CASE last[c] = 0
  <2>1. ResumeAt(c) = TailPos(c)
    BY <1>1 DEF ResumeAt
  <2>2. Mapped(c) # {} => TailPos(c) \in Mapped(c)
    BY <1>0, MinExists, SMTT(30) DEF TailPos
  <2>3. Mapped(c) = {} => TailPos(c) = 1
    BY DEF TailPos
  <2> QED
    BY <1>0, <1>1, <2>1, <2>2, <2>3, SMTT(30)
<1>2. CASE last[c] # 0
  <2> DEFINE newer == {q \in Mapped(c) : q > last[c]}
  <2>1. CASE newer = {}
    <3>1. PICK x \in Mapped(c) : last[c] <= x
      BY <1>2 DEF NewestSurvives
    <3>2. /\ MaxOf(Mapped(c)) \in Mapped(c)
          /\ \A y \in Mapped(c) : y <= MaxOf(Mapped(c))
      <4>1. Mapped(c) \in SUBSET (0..head[c]) /\ Mapped(c) # {}
        BY <1>0, <3>1, SMTT(30)
      <4> QED
        BY <1>0, <4>1, MaxExists
    <3>3. MaxOf(Mapped(c)) = last[c]
      BY <1>0, <2>1, <3>1, <3>2, SMTT(30)
    <3>4. ResumeAt(c) = last[c] + 1
      BY <1>2, <2>1, <3>1, <3>3 DEF ResumeAt, WritePos
    <3> QED
      BY <1>0, <3>4, SMTT(30)
  <2>2. CASE newer # {}
    <3>1. newer \in SUBSET Nat
      BY <1>0, SMTT(30)
    <3>2. MinOf(newer) \in newer
      BY <2>2, <3>1, MinExists
    <3>3. ResumeAt(c) = MinOf(newer)
      BY <1>2, <2>2 DEF ResumeAt
    <3> QED
      BY <1>0, <3>2, <3>3, SMTT(30)
  <2> QED
    BY <2>1, <2>2
<1> QED
  BY <1>1, <1>2

\* What is unread: at or past the read position, and short of a stop nothing else
\* is left there.
LEMMA UnreadAhead ==
    ASSUME TypeInv, NEW c \in Cpus
    PROVE  /\ Unread(c) # {} => /\ MinOf(Unread(c)) \in Mapped(c)
                                /\ pos[c] <= MinOf(Unread(c))
           /\ Unread(c) = {} /\ final[c] = 0 => \A x \in Mapped(c) : ~(pos[c] <= x)
<1>0. Mapped(c) \subseteq 1..head[c] /\ head[c] \in Nat /\ pos[c] \in Nat
  BY RingPositions DEF TypeInv, TypeOK, DrainTypes, KernelTypes
<1>1. ASSUME Unread(c) # {}
      PROVE  MinOf(Unread(c)) \in Mapped(c) /\ pos[c] <= MinOf(Unread(c))
  <2>1. Unread(c) \in SUBSET Nat
    BY <1>0, SMTT(30) DEF Unread
  <2>2. MinOf(Unread(c)) \in Unread(c)
    BY <1>1, <2>1, MinExists
  <2> QED
    BY <2>2 DEF Unread
<1>2. ASSUME Unread(c) = {}, final[c] = 0, NEW x \in Mapped(c), pos[c] <= x
      PROVE  FALSE
  <2>1. \A y \in Mapped(c) : y <= MaxOf(Mapped(c)) /\ MaxOf(Mapped(c)) \in Nat
    <3>1. Mapped(c) \in SUBSET (0..head[c]) /\ Mapped(c) # {}
      BY <1>0, <1>2, SMTT(30)
    <3>2. MaxOf(Mapped(c)) \in Mapped(c) /\ \A y \in Mapped(c) : y <= MaxOf(Mapped(c))
      BY <1>0, <3>1, MaxExists
    <3> QED
      BY <1>0, <3>2, SMTT(30)
  <2>2. x < WritePos(c)
    BY <1>0, <2>1, SMTT(30) DEF WritePos
  <2> QED
    BY <1>2, <2>2 DEF Unread
<1> QED
  BY <1>1, <1>2

\* A step of the drain of c that leaves its rings alone.
LEMMA SameRings ==
    ASSUME NEW c \in Cpus, UNCHANGED <<ring, stale, frozen>>
    PROVE  Mapped(c)' = Mapped(c)
BY DEF Mapped

\* The drain moves past the event at hand, or stays where it is.
LEMMA MovesForward ==
    ASSUME TypeInv, NEW c \in Cpus, InOrder(c),
           dpc[c] \in Handling, dpc'[c] = "scan",
           UNCHANGED <<ring, stale, frozen, final, stopping>>,
           ~Overwritten(c) => cur[c].seq = pos[c],
           IF Overwritten(c) THEN UNCHANGED <<pos, last, next>> ELSE MovePast(c, cur[c].seq)
    PROVE  InOrder(c)'
<1>0. /\ pos \in [Cpus -> Nat \ {0}] /\ next \in [Cpus -> Nat \ {0}]
      /\ last \in [Cpus -> Nat] /\ next[c] <= pos[c]
  BY DEF TypeInv, TypeOK, DrainTypes, ReadsForward, InOrder
<1>1. Mapped(c)' = Mapped(c)
  BY SameRings
<1>2. CASE Overwritten(c)
  <2>1. ReadsForward(c)'
    BY <1>2 DEF ReadsForward, InOrder, Handling
  <2>2. NewestSurvives(c)'
    BY <1>1, <1>2 DEF NewestSurvives, InOrder
  <2>3. CaughtUp(c)'
    BY <1>1, <1>2 DEF CaughtUp, InOrder, Handling, Marking
  <2> QED
    BY <2>1, <2>2, <2>3 DEF InOrder
<1>3. CASE ~Overwritten(c)
  <2>1. pos[c] \in Mapped(c)
    BY <1>0, <1>3 DEF Overwritten, Lapped
  <2>2. pos'[c] = pos[c] + 1 /\ last'[c] = pos[c] /\ next'[c] = pos[c] + 1
    <3>1. MovePast(c, pos[c]) /\ NextAfter(c, pos[c]) = pos[c] + 1
      BY <1>0, <1>3, SMTT(30) DEF NextAfter
    <3> QED
      BY <1>0, <3>1 DEF MovePast
  <2>3. ReadsForward(c)'
    BY <1>0, <2>2, SMTT(30) DEF ReadsForward, Handling
  <2>4. NewestSurvives(c)'
    BY <1>0, <1>1, <2>1, <2>2, SMTT(30) DEF NewestSurvives, InOrder
  <2>5. CaughtUp(c)'
    BY <2>2 DEF CaughtUp, InOrder, Handling, Marking
  <2> QED
    BY <2>3, <2>4, <2>5 DEF InOrder
<1> QED
  BY <1>2, <1>3

\* The drain stays where it is and takes up another part of its loop, one that the
\* invariant asks no more of.
LEMMA TurnsInOrder ==
    ASSUME NEW c \in Cpus, InOrder(c),
           UNCHANGED <<pos, next, last, ring, stale, frozen, boundary, stopping>>,
           final'[c] # 0 => stopping, final'[c] = 0 => final[c] = 0,
           \/ dpc'[c] \in {"failed", "done"}
           \/ dpc[c] = "top" /\ dpc'[c] = "scan"
           \/ dpc[c] = "cycle" /\ dpc'[c] = "top"
           \/ dpc[c] = "cycle" /\ dpc'[c] = "marking" /\ boundary[c] <= pos[c]
           \/ dpc[c] \in Marking /\ dpc'[c] \in Marking \cup {"top"}
           \/ dpc[c] \in Handling \cup {"reading"} /\ dpc'[c] \in Handling
    PROVE  InOrder(c)'
<1>1. Mapped(c)' = Mapped(c)
  BY SameRings
<1>2. ReadsForward(c)'
  BY DEF ReadsForward, InOrder, Handling, Marking
<1>3. NewestSurvives(c)'
  BY <1>1 DEF NewestSurvives, InOrder
<1>4. CaughtUp(c)'
  BY <1>1 DEF CaughtUp, InOrder, Handling, Marking
<1> QED
  BY <1>2, <1>3, <1>4 DEF InOrder

\* The drain takes up another position, not behind the reconciler, at a survivor
\* unless it has caught up.
LEMMA PlacesInOrder ==
    ASSUME NEW c \in Cpus, InOrder(c),
           UNCHANGED <<next, last, ring, stale, frozen, final, stopping>>,
           next[c] <= pos'[c],
           dpc'[c] \in {"top", "reading"},
           pos'[c] = next[c] \/ \E x \in Mapped(c) : pos'[c] <= x
    PROVE  InOrder(c)'
<1>1. Mapped(c)' = Mapped(c)
  BY SameRings
<1>2. ReadsForward(c)'
  BY DEF ReadsForward, InOrder, Handling
<1>3. NewestSurvives(c)'
  BY <1>1 DEF NewestSurvives, InOrder
<1>4. CaughtUp(c)'
  BY <1>1 DEF CaughtUp, InOrder, Handling, Marking
<1> QED
  BY <1>2, <1>3, <1>4 DEF InOrder

\* The tail of the mapped ring.
LEMMA TailIs ==
    ASSUME TypeInv, NEW c \in Cpus
    PROVE  /\ TailPos(c) \in Nat \ {0}
           /\ Mapped(c) # {} => TailPos(c) \in Mapped(c)
           /\ Mapped(c) = {} => TailPos(c) = 1
<1>1. Mapped(c) \in SUBSET Nat /\ TailPos(c) \in Nat \ {0}
  BY RingPositions
<1> QED
  BY <1>1, MinExists DEF TailPos

LEMMA StartReads ==
    ASSUME TypeInv, NEW c \in Cpus, InOrder(c), DrainStart(c)
    PROVE  InOrder(c)'
<1>1. /\ pos'[c] = TailPos(c) /\ dpc'[c] = "top" /\ dpc[c] = "attached"
      /\ UNCHANGED <<next, last, ring, stale, frozen, final, stopping>>
  BY DEF DrainStart, Goto, kernelVars, superVars, TypeInv, TypeOK, DrainTypes
<1>2. next[c] = 1
  BY <1>1 DEF InOrder, ReadsForward
<1>3. /\ next[c] <= TailPos(c)
      /\ TailPos(c) = next[c] \/ \E x \in Mapped(c) : TailPos(c) <= x
  BY <1>2, TailIs, SMTT(30)
<1> QED
  BY <1>1, <1>3, PlacesInOrder

LEMMA TopReads ==
    ASSUME TypeInv, NEW c \in Cpus, InOrder(c), DrainTop(c)
    PROVE  InOrder(c)'
<1>1. /\ UNCHANGED <<pos, next, last, cur, ring, stale, frozen, boundary, stopping>>
      /\ dpc[c] = "top"
  BY DEF DrainTop, kernelVars, superVars
<1>2. WritePos(c) \in Nat \ {0} /\ final \in [Cpus -> Nat] /\ dpc \in [Cpus -> DrainLabels]
  BY RingPositions DEF TypeInv, TypeOK, DrainTypes
<1>3. \/ dpc'[c] = "done" /\ final'[c] = final[c]
      \/ dpc'[c] = "scan" /\ final'[c] = IF stopping THEN WritePos(c) ELSE final[c]
  BY <1>2 DEF DrainTop, Goto
<1>4. final[c] # 0 => stopping
  BY DEF InOrder, CaughtUp
<1>5. (final'[c] # 0 => stopping) /\ (final'[c] = 0 => final[c] = 0)
  BY <1>2, <1>3, <1>4
<1> QED
  BY <1>1, <1>3, <1>5, TurnsInOrder

LEMMA ScanReads ==
    ASSUME TypeInv, NEW c \in Cpus, InOrder(c), DrainScan(c)
    PROVE  InOrder(c)'
<1>0. /\ pos \in [Cpus -> Nat \ {0}] /\ next[c] \in Nat /\ dpc \in [Cpus -> DrainLabels]
      /\ Mapped(c) \subseteq Nat
  BY RingPositions DEF TypeInv, TypeOK, DrainTypes
<1>1. UNCHANGED <<next, last, final, ring, stale, frozen, stopping>> /\ dpc[c] = "scan"
  BY DEF DrainScan, kernelVars, superVars
<1>2. next[c] <= pos[c]
  BY DEF InOrder, ReadsForward
<1>3. CASE Unread(c) = {}
  <2>1. /\ pos'[c] = IF pos[c] < TailPos(c) THEN TailPos(c) ELSE pos[c]
        /\ dpc'[c] = "cycle"
    BY <1>0, <1>3 DEF DrainScan, Goto
  <2>2. ASSUME final[c] = 0
        PROVE  pos[c] = next[c] /\ ~(pos[c] < TailPos(c))
    <3>1. \A x \in Mapped(c) : ~(pos[c] <= x)
      BY <1>3, <2>2, UnreadAhead
    <3>2. pos[c] = next[c] \/ \E x \in Mapped(c) : pos[c] <= x
      BY <1>1, <2>2 DEF InOrder, CaughtUp
    <3> QED
      BY <1>0, <3>1, <3>2, TailIs, SMTT(30)
  <2>3. next[c] <= pos'[c] /\ (final[c] = 0 => pos'[c] = next[c])
    BY <1>0, <1>2, <2>1, <2>2, TailIs, SMTT(30)
  <2>4. ReadsForward(c)'
    BY <1>1, <2>1, <2>3 DEF InOrder, ReadsForward, Handling
  <2>5. NewestSurvives(c)'
    BY <1>1, SameRings DEF InOrder, NewestSurvives
  <2>6. CaughtUp(c)'
    BY <1>1, <2>1, <2>3 DEF InOrder, CaughtUp, Handling, Marking
  <2> QED
    BY <2>4, <2>5, <2>6 DEF InOrder
<1>4. CASE Unread(c) # {}
  <2> DEFINE q == MinOf(Unread(c))
  <2>1. q \in Mapped(c) /\ pos[c] <= q
    BY <1>4, UnreadAhead
  <2>2. pos'[c] = q /\ dpc'[c] = "reading"
    BY <1>0, <1>4 DEF DrainScan, Goto
  <2> HIDE DEF q
  <2>3. next[c] <= pos'[c] /\ \E x \in Mapped(c) : pos'[c] <= x
    BY <1>0, <1>2, <2>1, <2>2, SMTT(30)
  <2> QED
    BY <1>1, <2>2, <2>3, PlacesInOrder
<1> QED
  BY <1>3, <1>4

LEMMA HandlingReads ==
    ASSUME TypeInv, VerdictStands, NEW c \in Cpus, InOrder(c),
           \/ DrainRead(c) \/ DrainSkip(c) \/ DrainReserve(c) \/ DrainCopy(c)
           \/ DrainSettle(c)
    PROVE  InOrder(c)'
<1>0. dpc \in [Cpus -> DrainLabels]
  BY DEF TypeInv, TypeOK, DrainTypes
<1>1. CASE DrainSkip(c) \/ DrainSettle(c)
  <2>1. /\ dpc[c] \in Handling /\ dpc'[c] = "scan"
        /\ UNCHANGED <<ring, stale, frozen, final, stopping>>
        /\ IF Overwritten(c) THEN UNCHANGED <<pos, last, next>> ELSE MovePast(c, cur[c].seq)
    BY <1>0, <1>1 DEF DrainSkip, DrainSettle, Goto, Handling, kernelVars, superVars
  <2>2. ~Overwritten(c) => cur[c].seq = pos[c]
    BY <2>1 DEF Overwritten, VerdictStands, Upheld, Stands
  <2> QED
    BY <2>1, <2>2, MovesForward
<1>2. CASE DrainRead(c) \/ DrainReserve(c) \/ DrainCopy(c)
  <2>1. /\ dpc[c] \in Handling \cup {"reading"}
        /\ dpc'[c] \in {"failed", "observed", "held", "copied"}
        /\ UNCHANGED <<pos, next, last, final, boundary, ring, stale, frozen, stopping>>
    BY <1>0, <1>2 DEF DrainRead, DrainReserve, DrainCopy, Goto, Handling, kernelVars, superVars
  <2>2. final[c] # 0 => stopping
    BY DEF InOrder, CaughtUp
  <2> QED
    BY <2>1, <2>2, TurnsInOrder DEF Handling
<1> QED
  BY <1>1, <1>2

LEMMA CycleReads ==
    ASSUME TypeInv, NEW c \in Cpus, InOrder(c), DrainCycleEnd(c)
    PROVE  InOrder(c)'
<1>0. /\ dpc \in [Cpus -> DrainLabels] /\ stale \in [Cpus -> BOOLEAN] /\ last[c] \in Nat
      /\ pos[c] \in Nat /\ boundary[c] \in Nat /\ final[c] \in Nat
      /\ ring[c] \subseteq Nat /\ frozen[c] \subseteq Nat
  BY DEF TypeInv, TypeOK, DrainTypes, KernelTypes
<1>1. UNCHANGED <<pos, next, last, cur, final, boundary, ring, stopping>> /\ dpc[c] = "cycle"
  BY DEF DrainCycleEnd, superVars
<1>2. CASE stale[c] # base[c]
  <2>1. dpc'[c] = "swapping" /\ stale'[c] = FALSE
    BY <1>0, <1>2 DEF DrainCycleEnd, Goto
  <2>2. Mapped(c)' = ring[c]
    BY <1>1, <2>1 DEF Mapped
  <2>3. last[c] # 0 => \E x \in ring[c] : last[c] <= x
    <3> SUFFICES ASSUME last[c] # 0 PROVE \E x \in ring[c] : last[c] <= x
      OBVIOUS
    <3>1. PICK x \in Mapped(c) : last[c] <= x
      BY DEF InOrder, NewestSurvives
    <3>2. CASE stale[c]
      <4>1. PICK y \in ring[c] : x <= y
        BY <3>1, <3>2 DEF InOrder, NewestSurvives, Mapped
      <4>2. x \in Nat /\ y \in Nat
        BY <1>0, <3>1, <3>2, <4>1 DEF Mapped
      <4> QED
        BY <1>0, <3>1, <4>1, <4>2, Orders
    <3>3. CASE ~stale[c]
      BY <3>1, <3>3 DEF Mapped
    <3> QED
      BY <3>2, <3>3
  <2>4. ReadsForward(c)'
    BY <1>1, <2>1 DEF InOrder, ReadsForward, Handling
  <2>5. NewestSurvives(c)'
    BY <1>1, <2>1, <2>2, <2>3 DEF NewestSurvives
  <2>6. CaughtUp(c)'
    BY <1>1, <2>1 DEF InOrder, CaughtUp, Handling, Marking
  <2> QED
    BY <2>4, <2>5, <2>6 DEF InOrder
<1>3. CASE stale[c] = base[c]
  <2>1. /\ UNCHANGED <<stale, frozen>>
        /\ \/ dpc'[c] = "marking" /\ pos[c] >= boundary[c]
           \/ dpc'[c] \in {"done", "top"}
    BY <1>0, <1>3 DEF DrainCycleEnd, Goto, AfterRecovery
  <2>2. final[c] # 0 => stopping
    BY DEF InOrder, CaughtUp
  <2> QED
    BY <1>0, <1>1, <2>1, <2>2, TurnsInOrder
<1> QED
  BY <1>2, <1>3

LEMMA SwapReads ==
    ASSUME TypeInv, NEW c \in Cpus, InOrder(c), DrainSwap(c)
    PROVE  InOrder(c)'
<1>1. /\ pos'[c] = ResumeAt(c) /\ dpc'[c] = "top"
      /\ UNCHANGED <<next, last, final, ring, stale, frozen, stopping>>
  BY DEF DrainSwap, Goto, kernelVars, superVars, TypeInv, TypeOK, DrainTypes
<1>2. /\ ResumeAt(c) \in Nat \ {0} /\ next[c] <= ResumeAt(c)
      /\ ResumeAt(c) = next[c] \/ ResumeAt(c) \in Mapped(c)
  BY ResumesForward DEF InOrder
<1>3. ResumeAt(c) = next[c] \/ \E x \in Mapped(c) : ResumeAt(c) <= x
  BY <1>2, SMTT(30)
<1> QED
  BY <1>1, <1>2, <1>3, PlacesInOrder

LEMMA MarkReads ==
    ASSUME TypeInv, NEW c \in Cpus, InOrder(c),
           DrainMark(c) \/ DrainAck(c) \/ DrainFault(c)
    PROVE  InOrder(c)'
<1>0. dpc \in [Cpus -> DrainLabels]
  BY DEF TypeInv, TypeOK, DrainTypes
<1>1. UNCHANGED <<pos, next, last, cur, final, boundary, ring, stale, frozen, stopping>>
  BY DEF DrainMark, DrainAck, DrainFault, kernelVars, superVars
<1>2. \/ dpc'[c] \in {"failed", "done"}
      \/ dpc[c] \in Marking /\ dpc'[c] \in Marking \cup {"top"}
  <2>1. CASE DrainMark(c)
    BY <1>0, <2>1 DEF DrainMark, Goto, Marking
  <2>2. CASE DrainAck(c)
    BY <1>0, <2>2 DEF DrainAck, Goto, Marking, AfterRecovery
  <2>3. CASE DrainFault(c)
    BY <1>0, <2>3 DEF DrainFault, Goto
  <2> QED
    BY <2>1, <2>2, <2>3
<1>3. final[c] # 0 => stopping
  BY DEF InOrder, CaughtUp
<1> QED
  BY <1>1, <1>2, <1>3, TurnsInOrder

\* The rings of a CPU that no kernel step and no drain of its own touches.
LEMMA RingStays ==
    ASSUME TypeInv, NEW c \in Cpus, NewestSurvives(c), UNCHANGED ring,
           stale'[c] = stale[c], frozen'[c] = frozen[c]
    PROVE  RingOutlives(c)
<1>1. Mapped(c) \subseteq Nat /\ Mapped(c)' = Mapped(c)
  BY RingPositions DEF Mapped
<1>2. Outlived(Mapped(c), Mapped(c)')
  BY <1>1, SMTT(30) DEF Outlived
<1>3. stale'[c] => Outlived(frozen'[c], ring'[c])
  BY DEF NewestSurvives, Outlived
<1> QED
  BY <1>2, <1>3 DEF RingOutlives

LEMMA ReadingStep ==
    ASSUME TypeInv, TypeInv', DownIsEmpty, VerdictStands, Reading, [Next]_vars
    PROVE  Reading'
<1> SUFFICES ASSUME NEW d \in Cpus PROVE InOrder(d)'
  BY DEF Reading
<1>0. InOrder(d) /\ NewestSurvives(d)
  BY DEF Reading, InOrder
<1>1. CASE Kernel
  <2>1. Still(d)
    BY <1>1, KernelFrame, SMTT(30) DEF Still, drainVars, superVars
  <2> QED
    BY <1>0, <1>1, <2>1, KernelOutlives, StillReads
<1>2. ASSUME NEW c \in Cpus, DrainStep(c) \/ DrainFault(c)
      PROVE  InOrder(d)'
  <2>1. CASE c = d
    BY <1>0, <1>2, <2>1, StartReads, TopReads, ScanReads, HandlingReads, CycleReads,
       SwapReads, MarkReads DEF DrainStep
  <2>2. CASE c # d
    <3>1. Still(d) /\ UNCHANGED ring /\ stale'[d] = stale[d] /\ frozen'[d] = frozen[d]
      BY <1>2, <2>2, DrainFrame, DrainOthers, DrainElsewhere, SMTT(30) DEF Still, superVars
    <3> QED
      BY <1>0, <3>1, RingStays, StillReads
  <2> QED
    BY <2>1, <2>2
<1>3. ASSUME NEW s \in Shards, WriterStep(s) \/ WriterFault(s)
      PROVE  InOrder(d)'
  <2>1. UNCHANGED <<kernelVars, drainVars>>
    BY <1>3, WriterFrame
  <2>2. stopping => stopping'
    <3>1. UNCHANGED stopping \/ stopping' = TRUE
      BY <1>3 DEF WriterStep, WriterFault, SkipCancelled, PopFirst, PopMore, CloseBatch,
         GapsCommitted, RowsCommitted, BarrierReached, RetainDone, DrainQueue, WriterExit,
         GapsRefused, GapsCorrupt, GapsFatal, RowsRefused, RowsCorrupt, RowsFatal,
         RetainRefused, RetainCorrupt, RetainFatal, RequestRetain, superVars, Fail
    <3> QED
      BY <3>1
  <2>3. Still(d) /\ RingOutlives(d)
    BY <1>0, <2>1, <2>2, RingStays DEF Still, kernelVars, drainVars
  <2> QED
    BY <1>0, <2>3, StillReads
<1>4. CASE SuperInside \/ UNCHANGED vars
  <2>1. UNCHANGED <<kernelVars, drainVars>>
    BY <1>4, SuperFrame DEF vars
  <2>2. stopping => stopping'
    BY <1>4 DEF SuperInside, Ready, BeginStop, JoinDrains, FlushSend, FlushAck,
       CloseQueues, vars, superVars
  <2>3. Still(d) /\ RingOutlives(d)
    BY <1>0, <2>1, <2>2, RingStays DEF Still, kernelVars, drainVars
  <2> QED
    BY <1>0, <2>3, StillReads
<1>5. CASE Start
  <2>1. UNCHANGED <<kernelVars, next, last, pos, final, stopping>> /\ dpc'[d] = "attached"
    BY <1>5 DEF Start
  <2>2. next[d] = 1
    BY <1>5 DEF Start, DownIsEmpty
  <2>3. ReadsForward(d)'
    BY <1>0, <2>1, <2>2 DEF InOrder, ReadsForward, Handling
  <2>4. NewestSurvives(d)'
    BY <1>0, <2>1, SameRings DEF NewestSurvives, kernelVars
  <2>5. CaughtUp(d)'
    BY <1>0, <2>1 DEF InOrder, CaughtUp, Handling, Marking
  <2> QED
    BY <2>3, <2>4, <2>5 DEF InOrder
<1>6. CASE Exit
  <2>1. /\ next'[d] = 1 /\ last'[d] = 0 /\ pos'[d] = 1 /\ final'[d] = 0
        /\ dpc'[d] = "off" /\ stale'[d] = FALSE
    BY <1>6 DEF Exit
  <2>2. ReadsForward(d)'
    BY <2>1, SMTT(30) DEF ReadsForward, Handling
  <2>3. NewestSurvives(d)'
    BY <2>1 DEF NewestSurvives
  <2>4. CaughtUp(d)'
    BY <2>1 DEF CaughtUp, Handling, Marking
  <2> QED
    BY <2>2, <2>3, <2>4 DEF InOrder
<1> QED
  BY <1>1, <1>2, <1>3, <1>4, <1>5, <1>6, StepCases

LEMMA ReadingInit == Init => Reading
<1> SUFFICES ASSUME Init, NEW d \in Cpus PROVE InOrder(d)
  BY DEF Reading
<1>1. /\ next[d] = 1 /\ last[d] = 0 /\ pos[d] = 1 /\ final[d] = 0
      /\ dpc[d] = "off" /\ stale[d] = FALSE
  BY DEF Init
<1>2. ReadsForward(d)
  BY <1>1, SMTT(30) DEF ReadsForward, Handling
<1>3. NewestSurvives(d)
  BY <1>1 DEF NewestSurvives
<1>4. CaughtUp(d)
  BY <1>1 DEF CaughtUp, Handling, Marking
<1> QED
  BY <1>2, <1>3, <1>4 DEF InOrder

\* Reading stays in order, whatever the kernel does to the rings.
THEOREM ReadingHolds == Spec => [](Inductive /\ Reading)
<1>1. Init => Inductive /\ Reading
  BY InductiveInit, ReadingInit
<1>2. (Inductive /\ Reading) /\ [Next]_vars => (Inductive /\ Reading)'
  <2> SUFFICES ASSUME Inductive, Reading, [Next]_vars PROVE Inductive' /\ Reading'
    OBVIOUS
  <2>1. Inductive'
    BY InductiveNext
  <2>2. TypeInv /\ TypeInv' /\ DownIsEmpty /\ VerdictStands
    BY <2>1 DEF Inductive
  <2> QED
    BY <2>1, <2>2, ReadingStep
<1> QED
  BY <1>1, <1>2, PTL DEF Spec

\* No event still in the ring regresses: whatever lapping and replacement the kernel does,
\* what a drain has yet to read is not behind its reconciler (kmes.rs drain,
\* replacement_ring; reconcile.rs observe).
THEOREM NeverRegresses == Spec => []NoRegression
<1>1. Inductive /\ Reading => NoRegression
  <2> SUFFICES ASSUME Inductive, Reading, NEW c \in Cpus
               PROVE  ~Regression(c, pos[c])
    BY DEF NoRegression
  <2>1. next[c] <= pos[c]
    BY DEF Reading, InOrder, ReadsForward
  <2>2. next[c] \in Nat /\ pos[c] \in Nat
    BY DEF Inductive, TypeInv, TypeOK, DrainTypes
  <2> QED
    BY <2>1, <2>2, SMTT(30) DEF Regression
<1> QED
  BY <1>1, ReadingHolds, PTL

(***************************************************************************)
(* Recovery markers: what the queue operations do to their order.          *)
(***************************************************************************)
\* A message taken off the front.
LEMMA PopMarks ==
    ASSUME NEW q \in Queues, q # <<>>, NEW c
    PROVE  /\ MarkersBehind(c, q) => MarkersBehind(c, Tail(q))
           /\ MarkersBehind(c, q) /\ IsMarker(c, HeadMsg(q)) => NoneOf(c, QueueClaims(Tail(q)))
           /\ Unmarked(c, q) => Unmarked(c, Tail(q)) /\ ~IsMarker(c, HeadMsg(q))
<1> DEFINE r == Tail(q)
<1>1. /\ r \in Queues
      /\ 1 \in DOMAIN q /\ q[1].msg = HeadMsg(q)
      /\ \A i \in DOMAIN r : i + 1 \in DOMAIN q /\ r[i] = q[i + 1] /\ i \in Nat /\ 1 < i + 1
  BY TailEntry, SeqLen, SMTT(30) DEF HeadMsg, Queues
<1> HIDE DEF r
<1>2. MarkersBehind(c, q) => MarkersBehind(c, r)
  <2> SUFFICES ASSUME MarkersBehind(c, q), NEW i \in DOMAIN r, NEW j \in DOMAIN r,
                      i < j, IsMarker(c, r[i].msg)
               PROVE  NoneOf(c, Claims(r[j].msg))
    BY DEF MarkersBehind
  <2>1. i + 1 \in DOMAIN q /\ j + 1 \in DOMAIN q /\ i + 1 < j + 1
    BY <1>1, SMTT(30)
  <2> QED
    BY <1>1, <2>1 DEF MarkersBehind
<1>3. MarkersBehind(c, q) /\ IsMarker(c, HeadMsg(q)) => NoneOf(c, QueueClaims(r))
  <2> SUFFICES ASSUME MarkersBehind(c, q), IsMarker(c, HeadMsg(q)), NEW k \in QueueClaims(r)
               PROVE  k[1] # c
    BY DEF NoneOf
  <2>1. PICK i \in DOMAIN r : k \in Claims(r[i].msg)
    BY <1>1, QueueClaimsAt
  <2>2. NoneOf(c, Claims(q[i + 1].msg))
    BY <1>1 DEF MarkersBehind
  <2> QED
    BY <1>1, <2>1, <2>2 DEF NoneOf
<1>4. Unmarked(c, q) => Unmarked(c, r) /\ ~IsMarker(c, HeadMsg(q))
  BY <1>1 DEF Unmarked
<1> QED
  BY <1>2, <1>3, <1>4 DEF r

LEMMA PopSenders ==
    ASSUME NEW q \in Queues, q # <<>>, SendersRight(q)
    PROVE  /\ SendersRight(Tail(q))
           /\ HeadMsg(q).kind \notin {"event", "barrier"} => HeadMsg(q).from \notin Cpus
BY TailEntry, SMTT(30) DEF HeadMsg, SendersRight

\* A message without claims put at the back.
LEMMA PushMarks ==
    ASSUME NEW q \in Queues, NEW e \in Entry(Owners, Message), Claims(e.msg) = {}, NEW c
    PROVE  /\ MarkersBehind(c, q) => MarkersBehind(c, Append(q, e))
           /\ Unmarked(c, q) /\ ~IsMarker(c, e.msg) => Unmarked(c, Append(q, e))
<1> DEFINE r == Append(q, e)
           n == Len(q) + 1
<1>1. /\ DOMAIN r = DOMAIN q \cup {n} /\ r[n] = e
      /\ \A i \in DOMAIN q : r[i] = q[i] /\ i < n /\ i \in Nat
  BY AppendEntry, SeqLen, SMTT(30) DEF Queues
<1>2. n \in Nat
  BY SeqLen, SMTT(30) DEF Queues
<1> HIDE DEF r, n
<1>3. MarkersBehind(c, q) => MarkersBehind(c, r)
  <2> SUFFICES ASSUME MarkersBehind(c, q), NEW i \in DOMAIN r, NEW j \in DOMAIN r,
                      i < j, IsMarker(c, r[i].msg)
               PROVE  NoneOf(c, Claims(r[j].msg))
    BY DEF MarkersBehind
  <2>1. CASE j = n
    BY <1>1, <2>1 DEF NoneOf
  <2>2. CASE j # n
    <3>1. j \in DOMAIN q /\ r[j] = q[j] /\ j < n /\ j \in Nat
      BY <1>1, <2>2
    <3>2. i # n
      BY <1>2, <3>1, Orders
    <3>3. i \in DOMAIN q /\ r[i] = q[i]
      BY <1>1, <3>2
    <3> QED
      BY <3>1, <3>3 DEF MarkersBehind
  <2> QED
    BY <2>1, <2>2
<1>4. Unmarked(c, q) /\ ~IsMarker(c, e.msg) => Unmarked(c, r)
  BY <1>1 DEF Unmarked
<1> QED
  BY <1>3, <1>4 DEF r

LEMMA PushSenders ==
    ASSUME NEW q \in Queues, NEW e \in Entry(Owners, Message), SendersRight(q),
           e.msg.kind \notin {"event", "barrier"} => e.msg.from \notin Cpus
    PROVE  SendersRight(Append(q, e))
BY AppendEntry, SMTT(30) DEF SendersRight

\* A slot settled, with an event of another CPU or with nothing.
LEMMA SettleMarks ==
    ASSUME NEW q \in Queues, NEW p \in Owners, NEW m \in Message,
           NEW st \in {Published, Cancelled}, m.kind # "barrier", NEW c
    PROVE  LET r == Settle(q, p, st, m)
           IN  /\ MarkersBehind(c, q) /\ NoneOf(c, Claims(m)) => MarkersBehind(c, r)
               /\ Unmarked(c, q) => Unmarked(c, r) /\ MarkersBehind(c, r)
               /\ SendersRight(q) /\ (m.kind = "event" \/ m.from \notin Cpus) => SendersRight(r)
<1> DEFINE r == Settle(q, p, st, m)
<1>1. DOMAIN r = DOMAIN q /\ \A i \in DOMAIN q : r[i] = q[i] \/ r[i].msg = m
  BY DEF Settle
<1> HIDE DEF r
<1>2. \A i \in DOMAIN q : IsMarker(c, r[i].msg) => IsMarker(c, q[i].msg)
  BY <1>1 DEF IsMarker
<1>3. MarkersBehind(c, q) /\ NoneOf(c, Claims(m)) => MarkersBehind(c, r)
  BY <1>1, <1>2 DEF MarkersBehind
<1>4. Unmarked(c, q) => Unmarked(c, r) /\ MarkersBehind(c, r)
  BY <1>1, <1>2 DEF Unmarked, MarkersBehind
<1>5. SendersRight(q) /\ (m.kind = "event" \/ m.from \notin Cpus) => SendersRight(r)
  BY <1>1 DEF SendersRight
<1> QED
  BY <1>3, <1>4, <1>5 DEF r

(***************************************************************************)
(* What a step may do to shard s, as far as the markers of c are concerned. *)
(***************************************************************************)
Kept(c, s) ==
    /\ MarkersLast(c, s) => MarkersLast(c, s)'
    /\ NoMarker(c, s) => NoMarker(c, s)'
    /\ NoneOf(c, InHand(s)) => NoneOf(c, InHand(s))'

\* The writer takes a message and sets no control message aside.
Consumes(s) ==
    /\ queue[s] # <<>> /\ queue'[s] = Tail(queue[s])
    /\ ctl'[s] = ctl[s]
    /\ \/ replies' = replies
       \/ /\ HeadMsg(queue[s]).kind # "event"
          /\ replies' = replies \cup {<<HeadMsg(queue[s]).from, s, FALSE>>}

\* The writer takes a control message.
Accepts(s) ==
    /\ queue[s] # <<>> /\ queue'[s] = Tail(queue[s])
    /\ HeadMsg(queue[s]).kind # "event" /\ ctl'[s] = HeadMsg(queue[s])
    /\ replies' = replies

\* The writer works on what it has, and answers a control message at the end.
Works(s) ==
    /\ queue'[s] = queue[s]
    /\ \/ ctl'[s] = ctl[s] /\ replies' = replies
       \/ /\ ctl'[s] = NoMsg
          /\ \E ok \in BOOLEAN : /\ replies' \subseteq replies \cup {<<ctl[s].from, s, ok>>}
                                 /\ ok => batch'[s] = <<>>

\* Somebody who is not a drain may put a control message at the back.
Posts(s) ==
    /\ \/ queue'[s] = queue[s]
       \/ \E k \in {"barrier", "retain"}, p \in Owners \ Cpus :
            queue'[s] = Send(queue[s], p, Control(k, p))
    /\ ctl'[s] = ctl[s] /\ batch'[s] = batch[s]
    /\ replies' \subseteq replies

HandsOn(s) ==
    /\ QueueClaims(queue'[s]) \subseteq QueueClaims(queue[s])
    /\ InHand(s)' \subseteq InHand(s)
    /\ Consumes(s) \/ Accepts(s) \/ Works(s) \/ Posts(s)

\* Where nothing changes, nothing is lost.
LEMMA UntouchedKeeps ==
    ASSUME NEW s \in Shards, NEW c \in Cpus,
           queue'[s] = queue[s], batch'[s] = batch[s], ctl'[s] = ctl[s],
           \A ok \in BOOLEAN : <<c, s, ok>> \in replies' => <<c, s, ok>> \in replies
    PROVE  Kept(c, s)
BY DEF Kept, MarkersLast, NoMarker, InHand

LEMMA UntouchedAddresses ==
    ASSUME NEW s \in Shards, Addresses(s),
           queue'[s] = queue[s], batch'[s] = batch[s], ctl'[s] = ctl[s]
    PROVE  Addresses(s)'
BY DEF Addresses, InHand

\* A message of somebody else at the back disturbs no order.
LEMMA PostMarks ==
    ASSUME NEW q \in Queues, NEW k \in {"barrier", "retain"}, NEW p \in Owners \ Cpus
    PROVE  LET r == Send(q, p, Control(k, p))
           IN  /\ SendersRight(q) => SendersRight(r)
               /\ \A c \in Cpus : /\ MarkersBehind(c, q) => MarkersBehind(c, r)
                                  /\ Unmarked(c, q) => Unmarked(c, r)
<1> DEFINE e == [owner |-> p, state |-> Published, msg |-> Control(k, p)]
<1>1. /\ e \in Entry(Owners, Message) /\ Send(q, p, Control(k, p)) = Append(q, e)
      /\ Claims(e.msg) = {}
  BY NoMsgEmpty DEF Entry, Send
<1>2. e.msg.from = p
  BY DEF Control
<1>3. \A c \in Cpus : ~IsMarker(c, e.msg)
  BY <1>2 DEF IsMarker
<1> HIDE DEF e
<1> QED
  BY <1>1, <1>2, <1>3, PushMarks, PushSenders

\* Such a step keeps the markers of c in order.
LEMMA HandsKeep ==
    ASSUME TypeInv, NEW s \in Shards, NEW c \in Cpus, HandsOn(s), Addresses(s)
    PROVE  Kept(c, s)
<1> DEFINE q == queue[s]
           m == HeadMsg(queue[s])
<1>0. q \in Queues
  BY QueueTypes
<1>1. NoneOf(c, InHand(s)) => NoneOf(c, InHand(s))'
  BY DEF HandsOn, NoneOf
<1>2. NoneOf(c, QueueClaims(q)) => NoneOf(c, QueueClaims(queue'[s]))
  BY DEF HandsOn, NoneOf
<1>3. CASE Consumes(s)
  <2>1. /\ MarkersBehind(c, q) => MarkersBehind(c, queue'[s])
        /\ Unmarked(c, q) => Unmarked(c, queue'[s]) /\ ~IsMarker(c, m)
    BY <1>0, <1>3, PopMarks DEF Consumes
  <2>2. m.kind \notin {"event", "barrier"} => m.from \notin Cpus
    BY <1>0, <1>3, PopSenders DEF Consumes, Addresses
  <2>3. ctl'[s] = ctl[s] /\ (<<c, s, TRUE>> \in replies' => <<c, s, TRUE>> \in replies)
    BY <1>3 DEF Consumes
  <2>4. MarkersLast(c, s) => MarkersLast(c, s)'
    BY <1>1, <1>2, <2>1, <2>3 DEF MarkersLast
  <2>5. ~IsMarker(c, m) => \A ok \in BOOLEAN : <<c, s, ok>> \in replies' => <<c, s, ok>> \in replies
    <3>1. ~IsMarker(c, m) /\ m.kind # "event" => m.from # c
      BY <2>2 DEF IsMarker
    <3>2. CASE replies' = replies
      BY <3>2
    <3>3. ASSUME m.kind # "event", replies' = replies \cup {<<m.from, s, FALSE>>},
                 ~IsMarker(c, m), NEW ok \in BOOLEAN, <<c, s, ok>> \in replies'
          PROVE  <<c, s, ok>> \in replies
      BY <3>1, <3>3
    <3> QED
      BY <1>3, <3>2, <3>3 DEF Consumes
  <2>6. NoMarker(c, s) => NoMarker(c, s)'
    BY <2>1, <2>3, <2>5 DEF NoMarker
  <2> QED
    BY <1>1, <2>4, <2>6 DEF Kept
<1>4. CASE Accepts(s)
  <2>1. /\ MarkersBehind(c, q) => MarkersBehind(c, queue'[s])
        /\ MarkersBehind(c, q) /\ IsMarker(c, m) => NoneOf(c, QueueClaims(queue'[s]))
        /\ Unmarked(c, q) => Unmarked(c, queue'[s]) /\ ~IsMarker(c, m)
    BY <1>0, <1>4, PopMarks DEF Accepts
  <2>2. ctl'[s] = m /\ replies' = replies
    BY <1>4 DEF Accepts
  <2>3. MarkersLast(c, s) => MarkersLast(c, s)'
    BY <1>1, <2>1, <2>2 DEF MarkersLast
  <2>4. NoMarker(c, s) => NoMarker(c, s)'
    BY <2>1, <2>2 DEF NoMarker
  <2> QED
    BY <1>1, <2>3, <2>4 DEF Kept
<1>5. CASE Works(s)
  <2>1. CASE ctl'[s] = ctl[s] /\ replies' = replies
    <3>1. MarkersLast(c, s) => MarkersLast(c, s)'
      BY <1>1, <1>5, <2>1 DEF MarkersLast, Works
    <3>2. NoMarker(c, s) => NoMarker(c, s)'
      BY <1>5, <2>1 DEF NoMarker, Works
    <3> QED
      BY <1>1, <3>1, <3>2 DEF Kept
  <2>2. ASSUME ctl'[s] = NoMsg, NEW ok \in BOOLEAN,
               replies' \subseteq replies \cup {<<ctl[s].from, s, ok>>},
               ok => batch'[s] = <<>>
        PROVE  Kept(c, s)
    <3>1. ~IsMarker(c, ctl'[s])
      BY <2>2, SMTT(30) DEF IsMarker, NoMsg, Control
    <3>a. ctl[s].from = c => IsMarker(c, ctl[s])
      BY DEF IsMarker, Addresses
    <3>2. ~IsMarker(c, ctl[s]) => \A a \in BOOLEAN : <<c, s, a>> \in replies' => <<c, s, a>> \in replies
      BY <2>2, <3>a
    <3>3. <<c, s, TRUE>> \in replies' =>
              \/ <<c, s, TRUE>> \in replies
              \/ ok /\ IsMarker(c, ctl[s])
      BY <2>2, <3>a
    <3>4. ok /\ NoneOf(c, QueueClaims(q)) => NoneOf(c, InHand(s))'
      BY <1>5, <2>2, BatchEmpty DEF InHand, NoneOf, Works
    <3>5. MarkersLast(c, s) => MarkersLast(c, s)'
      BY <1>1, <1>5, <3>1, <3>3, <3>4 DEF MarkersLast, Works
    <3>6. NoMarker(c, s) => NoMarker(c, s)'
      BY <1>5, <3>1, <3>2 DEF NoMarker, Works
    <3> QED
      BY <1>1, <3>5, <3>6 DEF Kept
  <2> QED
    BY <1>5, <2>1, <2>2 DEF Works
<1>6. CASE Posts(s)
  <2>1. /\ MarkersBehind(c, q) => MarkersBehind(c, queue'[s])
        /\ Unmarked(c, q) => Unmarked(c, queue'[s])
    BY <1>0, <1>6, PostMarks DEF Posts
  <2>2. ctl'[s] = ctl[s] /\ replies' \subseteq replies
    BY <1>6 DEF Posts
  <2>3. MarkersLast(c, s) => MarkersLast(c, s)'
    BY <1>1, <1>2, <2>1, <2>2 DEF MarkersLast
  <2>4. NoMarker(c, s) => NoMarker(c, s)'
    BY <2>1, <2>2 DEF NoMarker
  <2> QED
    BY <1>1, <2>3, <2>4 DEF Kept
<1> QED
  BY <1>3, <1>4, <1>5, <1>6 DEF HandsOn

\* ... and the messages of the shard addressed.
LEMMA HandsAddress ==
    ASSUME TypeInv, NEW s \in Shards, HandsOn(s), Addresses(s)
    PROVE  Addresses(s)'
<1>0. queue[s] \in Queues
  BY QueueTypes
<1>1. \A k \in InHand(s)' : ShardOf(k[1], s)
  BY DEF HandsOn, Addresses
<1>2. SendersRight(queue'[s]) /\ (ctl'[s].kind # "barrier" => ctl'[s].from \notin Cpus)
  <2>1. CASE Consumes(s) \/ Accepts(s)
    BY <1>0, <2>1, PopSenders DEF Consumes, Accepts, Addresses
  <2>2. CASE Works(s)
    <3>1. NoMsg.from \notin Cpus
      BY ConstantsAssumption DEF NoMsg, Control
    <3> QED
      BY <2>2, <3>1 DEF Works, Addresses
  <2>3. CASE Posts(s)
    BY <1>0, <2>3, PostMarks DEF Posts, Addresses
  <2> QED
    BY <2>1, <2>2, <2>3 DEF HandsOn
<1> QED
  BY <1>1, <1>2 DEF Addresses, ShardOf, InHand

(***************************************************************************)
(* Writers and the supervisor take such steps.                             *)
(***************************************************************************)
LEMMA ControlClaims ==
    ASSUME NEW q \in Queues, NEW p \in Owners, NEW k \in {"barrier", "retain"}
    PROVE  QueueClaims(Send(q, p, Control(k, p))) = QueueClaims(q)
<1> DEFINE m == Control(k, p)
<1>1. m \in Message /\ Proper(m) /\ Claims(m) = {}
  BY NoMsgEmpty
<1> HIDE DEF m
<1>2. QueueClaims(Send(q, p, m)) = QueueClaims(q)
  BY <1>1, SendEffect
<1> QED
  BY <1>2 DEF m

\* No writer claims a key.
LEMMA WriterClaims ==
    ASSUME TypeInv, NEW s \in Shards, WriterStep(s) \/ WriterFault(s)
    PROVE  /\ QueueClaims(queue'[s]) \subseteq QueueClaims(queue[s])
           /\ InHand(s)' \subseteq InHand(s)
<1> DEFINE m == HeadMsg(queue[s])
<1>0. /\ queue \in [Shards -> Seq(Entry(Owners, Message))] /\ queue[s] \in Queues
      /\ batch \in [Shards -> Seq(Message)] /\ batch[s] \in Seq(Message)
  BY QueueTypes DEF TypeInv, TypeOK, WriterTypes, ChanTypes
<1>1. CASE SkipCancelled(s) \/ PopFirst(s) \/ PopMore(s) \/ DrainQueue(s)
  <2>1. queue[s] # <<>> /\ Head(queue[s]).state # Reserved /\ queue'[s] = Tail(queue[s])
    BY <1>0, <1>1 DEF SkipCancelled, PopFirst, PopMore, DrainQueue, HeadIs, Pop,
            Reserved, Cancelled, Published
  <2>2. m \in Message /\ QueueClaims(queue[s]) = Claims(m) \cup QueueClaims(queue'[s])
    BY <1>0, <2>1, PopEffect
  <2>3. batch'[s] = batch[s] \/ batch'[s] = <<m>> \/ batch'[s] = Append(batch[s], m)
    BY <1>0, <1>1 DEF SkipCancelled, PopFirst, PopMore, DrainQueue, writerVars
  <2> HIDE DEF m
  <2>4. BatchClaims(batch'[s]) \subseteq BatchClaims(batch[s]) \cup Claims(m)
    <3>1. BatchClaims(<<m>>) = Claims(m)
      BY <2>2, BatchOne
    <3>2. BatchClaims(Append(batch[s], m)) = BatchClaims(batch[s]) \cup Claims(m)
      BY <1>0, <2>2, BatchAppend
    <3> QED
      BY <2>3, <3>1, <3>2
  <2> QED
    BY <2>2, <2>4 DEF InHand
<1>2. CASE RequestRetain(s)
  <2>1. /\ queue'[s] = Send(queue[s], Retention, Control("retain", Retention))
        /\ batch' = batch
    BY <1>0, <1>2 DEF RequestRetain, writerVars
  <2>2. QueueClaims(queue'[s]) = QueueClaims(queue[s])
    BY <1>0, <2>1, ControlClaims DEF Owners
  <2> QED
    BY <2>1, <2>2 DEF InHand
<1>3. CASE queue' = queue /\ batch'[s] \in {batch[s], <<>>}
  BY <1>3, BatchEmpty DEF InHand
<1> QED
  BY <1>0, <1>1, <1>2, <1>3 DEF WriterStep, WriterFault, CloseBatch,
         GapsCommitted, RowsCommitted, BarrierReached, RetainDone, WriterExit,
         GapsRefused, GapsCorrupt, GapsFatal, RowsRefused, RowsCorrupt, RowsFatal,
         RetainRefused, RetainCorrupt, RetainFatal, RecordLost, Fail, chanVars

LEMMA WriterHands ==
    ASSUME TypeInv, WriterHolds, NEW s \in Shards, WriterStep(s) \/ WriterFault(s)
    PROVE  HandsOn(s)
<1>0. /\ queue \in [Shards -> Seq(Entry(Owners, Message))]
      /\ ctl \in [Shards -> Message] /\ batch \in [Shards -> Seq(Message)]
  BY DEF TypeInv, TypeOK, WriterTypes, ChanTypes
<1>1. CASE SkipCancelled(s) \/ PopFirst(s) \/ PopMore(s) \/ DrainQueue(s)
  <2>1. queue[s] # <<>> /\ queue'[s] = Tail(queue[s])
    BY <1>0, <1>1 DEF SkipCancelled, PopFirst, PopMore, DrainQueue, HeadIs, Pop
  <2>2. SkipCancelled(s) => Consumes(s)
    BY <2>1 DEF SkipCancelled, Consumes, writerVars
  <2>3. PopFirst(s) => Consumes(s) \/ Accepts(s)
    BY <1>0, <2>1 DEF PopFirst, Consumes, Accepts
  <2>4. PopMore(s) => Consumes(s) \/ Accepts(s)
    BY <1>0, <2>1 DEF PopMore, Consumes, Accepts
  <2>5. DrainQueue(s) => Consumes(s)
    BY <2>1 DEF DrainQueue, Consumes, Reply
  <2> QED
    BY <1>1, <2>2, <2>3, <2>4, <2>5, WriterClaims DEF HandsOn
<1>2. CASE RequestRetain(s)
  <2>1. /\ queue'[s] = Send(queue[s], Retention, Control("retain", Retention))
        /\ ctl' = ctl /\ batch' = batch /\ replies' \subseteq replies
    BY <1>0, <1>2 DEF RequestRetain, writerVars
  <2>2. Posts(s)
    BY <2>1, ConstantsAssumption DEF Posts, Owners
  <2> QED
    BY <2>2, WriterClaims DEF HandsOn
<1>3. CASE GapsFatal(s) \/ RowsFatal(s) \/ RetainFatal(s)
  <2>1. /\ queue' = queue /\ ctl'[s] = NoMsg
        /\ replies' \subseteq replies \cup {<<ctl[s].from, s, FALSE>>}
    BY <1>0, <1>3 DEF GapsFatal, RowsFatal, RetainFatal, Fail, Reply
  <2>2. Works(s)
    BY <2>1 DEF Works
  <2> QED
    BY <2>2, WriterClaims DEF HandsOn
<1>4. CASE BarrierReached(s) \/ RetainDone(s) \/ RetainRefused(s) \/ RetainCorrupt(s)
  <2>1. /\ queue' = queue /\ ctl'[s] = NoMsg /\ batch'[s] = <<>>
        /\ \E ok \in BOOLEAN : replies' = replies \cup {<<ctl[s].from, s, ok>>}
    BY <1>0, <1>4 DEF BarrierReached, RetainDone, RetainRefused, RetainCorrupt,
            Handled, Reply, WriterHolds
  <2>2. Works(s)
    BY <2>1 DEF Works
  <2> QED
    BY <2>2, WriterClaims DEF HandsOn
<1>5. CASE UNCHANGED <<queue, ctl, replies>>
  <2>1. Works(s)
    BY <1>5 DEF Works
  <2> QED
    BY <2>1, WriterClaims DEF HandsOn
<1> QED
  BY <1>1, <1>2, <1>3, <1>4, <1>5 DEF WriterStep, WriterFault, CloseBatch,
         GapsCommitted, RowsCommitted, WriterExit, GapsRefused, GapsCorrupt,
         RowsRefused, RowsCorrupt, chanVars

LEMMA SuperHands ==
    ASSUME TypeInv, SuperInside, NEW s \in Shards
    PROVE  HandsOn(s)
<1>0. queue \in [Shards -> Seq(Entry(Owners, Message))] /\ queue[s] \in Queues
  BY QueueTypes DEF TypeInv, TypeOK, ChanTypes
<1>1. /\ \/ queue'[s] = queue[s]
         \/ queue'[s] = Send(queue[s], Supervisor, Control("barrier", Supervisor))
      /\ replies' \subseteq replies
  BY <1>0 DEF SuperInside, Ready, BeginStop, JoinDrains, FlushSend, FlushAck, CloseQueues,
          chanVars
<1>2. ctl' = ctl /\ batch' = batch
  BY SuperFrame DEF writerVars
<1>3. Posts(s)
  BY <1>1, <1>2, ConstantsAssumption DEF Posts, Owners
<1>4. QueueClaims(queue'[s]) = QueueClaims(queue[s])
  BY <1>0, <1>1, ControlClaims DEF Owners
<1> QED
  BY <1>2, <1>3, <1>4 DEF HandsOn, InHand

\* A writer's step leaves the other shards alone.
LEMMA HandsElsewhere ==
    ASSUME TypeInv, NEW s \in Shards, NEW t \in Shards, t # s, NEW c \in Cpus,
           WriterStep(s) \/ WriterFault(s), HandsOn(s)
    PROVE  Kept(c, t)
<1>1. queue'[t] = queue[t] /\ batch'[t] = batch[t] /\ ctl'[t] = ctl[t]
  BY WriterFrame
<1>2. \A ok \in BOOLEAN : <<c, t, ok>> \in replies' => <<c, t, ok>> \in replies
  <2>1. \/ replies' \subseteq replies
        \/ \E p, b : replies' \subseteq replies \cup {<<p, s, b>>}
    BY DEF HandsOn, Consumes, Accepts, Works, Posts
  <2> QED
    BY <2>1
<1> QED
  BY <1>1, <1>2, UntouchedKeeps

(***************************************************************************)
(* A drain puts its own messages into the queues of its own shards.        *)
(***************************************************************************)
\* What the drain of d settles its slot of s with.
Fills(d, s, st, m) ==
    /\ Proper(m) /\ (m.kind = "event" \/ m = NoMsg)
    /\ st # Published => Claims(m) = {}
    /\ \A k \in Claims(m) : k[1] = d
    /\ HoldsOne(queue[s], d) /\ QueueProper(queue[s]) /\ ShardOf(d, s)
    /\ queue'[s] = Settle(queue[s], d, st, m)

Puts(d, s) ==
    /\ batch'[s] = batch[s] /\ ctl'[s] = ctl[s] /\ replies' \subseteq replies
    /\ \/ queue'[s] = queue[s]
       \/ queue'[s] = Claim(queue[s], d, NoMsg)
       \/ dpc[d] = "marking" /\ queue'[s] = Send(queue[s], d, Control("barrier", d))
       \/ /\ dpc[d] = "copied"
          /\ \E st \in {Published, Cancelled}, m \in Message : Fills(d, s, st, m)

\* The shard that a drain hands off to is one of its own.
LEMMA OwnShard ==
    ASSUME TypeInv, NEW c \in Cpus
    PROVE  /\ ShardOf(c, CurrentShard(c))
           /\ ShardOf(c, ShardOrder[c][mark[c] + 1]) /\ mark[c] + 1 \in DOMAIN ShardOrder[c]
<1>1. ShardOrder[c] \in Seq(Shards) /\ Len(ShardOrder[c]) \in Nat \ {0}
  BY ListsNotEmpty
<1>2. router[c] \in [index : Nat \ {0}, sent : Nat] /\ mark[c] \in Nat
  BY DEF TypeInv, TypeOK, DrainTypes
<1>3. router[c].index \in 1..Len(ShardOrder[c]) /\ mark[c] + 1 \in 1..Len(ShardOrder[c])
  <2>1. router[c].index \in Nat \ {0}
    BY <1>2
  <2>2. router[c].index <= Len(ShardOrder[c]) /\ mark[c] < Len(ShardOrder[c])
    BY DEF TypeInv, InRange
  <2> QED
    BY <1>1, <1>2, <2>1, <2>2, Positions
<1>4. DOMAIN ShardOrder[c] = 1..Len(ShardOrder[c])
  BY <1>1, SeqLen
<1> QED
  BY <1>3, <1>4 DEF ShardOf, CurrentShard

LEMMA DrainPuts ==
    ASSUME TypeInv, VerdictStands, SlotsHeld, MessagesProper,
           NEW d \in Cpus, DrainStep(d) \/ DrainFault(d), NEW s \in Shards
    PROVE  Puts(d, s)
<1>0. queue \in [Shards -> Seq(Entry(Owners, Message))] /\ CurrentShard(d) \in Shards
  BY Addressed DEF TypeInv, TypeOK, ChanTypes
<1>1. batch'[s] = batch[s] /\ ctl'[s] = ctl[s]
  BY DrainFrame DEF writerVars
<1>2. CASE DrainSettle(d)
  <2>1. PICK st \in {Published, Cancelled}, m \in Message : Settles(d, st, m)
    BY <1>2, SettleSays
  <2>2. dpc[d] = "copied" /\ replies' = replies
    BY <1>2 DEF DrainSettle
  <2>3. CASE s # CurrentShard(d)
    <3>1. queue'[s] = queue[s]
      BY <1>0, <2>1, <2>3 DEF Settles
    <3> QED
      BY <1>1, <2>2, <3>1 DEF Puts
  <2>4. CASE s = CurrentShard(d)
    <3>1. queue'[s] = Settle(queue[s], d, st, m)
      BY <1>0, <2>1, <2>4 DEF Settles
    <3>2. HoldsOne(queue[s], d) /\ QueueProper(queue[s]) /\ ShardOf(d, s)
      BY <2>2, <2>4, OwnShard DEF SlotsHeld, SlotRight, MessagesProper
    <3>3. \A k \in Claims(m) : k[1] = d
      BY <2>1, SMTT(30) DEF Settles, Progress
    <3>4. Fills(d, s, st, m)
      BY <2>1, <3>1, <3>2, <3>3 DEF Fills, Settles
    <3> QED
      BY <1>1, <2>2, <3>4 DEF Puts
  <2> QED
    BY <2>3, <2>4
<1>3. CASE DrainReserve(d)
  <2>1. queue'[s] = queue[s] \/ queue'[s] = Claim(queue[s], d, NoMsg)
    BY <1>0, <1>3 DEF DrainReserve
  <2>2. replies' = replies
    BY <1>3 DEF DrainReserve
  <2> QED
    BY <1>1, <2>1, <2>2 DEF Puts
<1>4. CASE DrainMark(d)
  <2>1. queue'[s] = queue[s] \/ queue'[s] = Send(queue[s], d, Control("barrier", d))
    BY <1>0, <1>4 DEF DrainMark
  <2>2. dpc[d] = "marking" /\ replies' = replies
    BY <1>4 DEF DrainMark
  <2> QED
    BY <1>1, <2>1, <2>2 DEF Puts
<1>5. CASE queue' = queue /\ replies' \subseteq replies
  BY <1>1, <1>5 DEF Puts
<1> QED
  BY <1>2, <1>3, <1>4, <1>5 DEF DrainStep, DrainFault, DrainStart, DrainTop, DrainScan,
     DrainRead, DrainSkip, DrainCopy, DrainCycleEnd, DrainSwap, DrainAck, chanVars

\* The queue after such a step.
LEMMA PutsMarks ==
    ASSUME TypeInv, NEW d \in Cpus, NEW s \in Shards, Puts(d, s), NEW c \in Cpus
    PROVE  /\ c # d \/ dpc[d] # "copied" =>
                /\ MarkersBehind(c, queue[s]) => MarkersBehind(c, queue'[s])
                /\ NoneOf(c, QueueClaims(queue[s])) => NoneOf(c, QueueClaims(queue'[s]))
           /\ c # d \/ dpc[d] # "marking" =>
                (Unmarked(c, queue[s]) => Unmarked(c, queue'[s]))
<1> DEFINE q == queue[s]
           r == queue'[s]
<1>0. q \in Queues /\ d \in Owners
  BY QueueTypes DEF Owners
<1>1. CASE r = q
  BY <1>1
<1>2. CASE r = Claim(q, d, NoMsg)
  <2> DEFINE e == [owner |-> d, state |-> Reserved, msg |-> NoMsg]
  <2>1. e \in Entry(Owners, Message) /\ Claims(e.msg) = {} /\ r = Append(q, e)
    BY <1>0, <1>2, NoMsgEmpty DEF Entry, Claim
  <2>2. ~IsMarker(c, e.msg)
    BY DEF IsMarker, NoMsg, Control
  <2>3. QueueClaims(r) = QueueClaims(q)
    BY <1>0, <1>2, ClaimEffect
  <2> HIDE DEF e, q, r
  <2> QED
    BY <1>0, <2>1, <2>2, <2>3, PushMarks DEF q, r
<1>3. CASE dpc[d] = "marking" /\ r = Send(q, d, Control("barrier", d))
  <2> DEFINE e == [owner |-> d, state |-> Published, msg |-> Control("barrier", d)]
  <2>1. e \in Entry(Owners, Message) /\ Claims(e.msg) = {} /\ r = Append(q, e)
    BY <1>0, <1>3, NoMsgEmpty DEF Entry, Send
  <2>2. c # d => ~IsMarker(c, e.msg)
    BY DEF IsMarker, Control
  <2>3. QueueClaims(r) = QueueClaims(q)
    BY <1>0, <1>3, ControlClaims
  <2> HIDE DEF e, q, r
  <2> QED
    BY <1>0, <1>3, <2>1, <2>2, <2>3, PushMarks DEF q, r
<1>4. ASSUME dpc[d] = "copied",
             NEW st \in {Published, Cancelled}, NEW m \in Message, Fills(d, s, st, m)
      PROVE  /\ c # d =>
                  /\ MarkersBehind(c, q) => MarkersBehind(c, r)
                  /\ NoneOf(c, QueueClaims(q)) => NoneOf(c, QueueClaims(r))
             /\ Unmarked(c, q) => Unmarked(c, r)
  <2>1. /\ m.kind # "barrier" /\ r = Settle(q, d, st, m)
        /\ c # d => NoneOf(c, Claims(m))
    BY <1>4, NoMsgKind DEF Fills, NoneOf
  <2>2. QueueClaims(r) = QueueClaims(q) \cup Claims(m)
    <3>1. /\ st # Published => Claims(m) = {}
          /\ HoldsOne(q, d) /\ QueueProper(q) /\ Proper(m)
      BY <1>4 DEF Fills
    <3> HIDE DEF q, r
    <3> QED
      BY <1>0, <1>4, <2>1, <3>1, SettleClaims, SMTT(30)
  <2> HIDE DEF q, r
  <2>3. /\ MarkersBehind(c, q) /\ NoneOf(c, Claims(m)) => MarkersBehind(c, r)
        /\ Unmarked(c, q) => Unmarked(c, r)
    BY <1>0, <2>1, SettleMarks
  <2> QED
    BY <2>1, <2>2, <2>3 DEF NoneOf
<1> QED
  BY <1>1, <1>2, <1>3, <1>4 DEF Puts

\* The drain of d disturbs neither the other drains' markers nor, unless it hands
\* an event off or sends a marker, its own.
LEMMA PutsKeep ==
    ASSUME TypeInv, NEW d \in Cpus, NEW s \in Shards, Puts(d, s), NEW c \in Cpus
    PROVE  /\ c # d \/ dpc[d] # "copied" =>
                /\ MarkersLast(c, s) => MarkersLast(c, s)'
                /\ NoneOf(c, InHand(s)) => NoneOf(c, InHand(s))'
           /\ c # d \/ dpc[d] # "marking" => (NoMarker(c, s) => NoMarker(c, s)')
<1>1. batch'[s] = batch[s] /\ ctl'[s] = ctl[s] /\ replies' \subseteq replies
  BY DEF Puts
<1>2. NoneOf(c, InHand(s)) <=>
          NoneOf(c, QueueClaims(queue[s])) /\ NoneOf(c, BatchClaims(batch[s]))
  BY DEF NoneOf, InHand
<1>3. NoneOf(c, InHand(s))' <=>
          NoneOf(c, QueueClaims(queue'[s])) /\ NoneOf(c, BatchClaims(batch'[s]))
  BY DEF NoneOf, InHand
<1>4. c # d \/ dpc[d] # "copied" => (NoneOf(c, InHand(s)) => NoneOf(c, InHand(s))')
  BY <1>1, <1>2, <1>3, PutsMarks
<1>5. c # d \/ dpc[d] # "copied" => (MarkersLast(c, s) => MarkersLast(c, s)')
  BY <1>1, <1>4, PutsMarks DEF MarkersLast
<1>6. c # d \/ dpc[d] # "marking" => (NoMarker(c, s) => NoMarker(c, s)')
  BY <1>1, PutsMarks DEF NoMarker
<1> QED
  BY <1>4, <1>5, <1>6

LEMMA PutsAddress ==
    ASSUME TypeInv, NEW d \in Cpus, NEW s \in Shards, Puts(d, s), Addresses(s)
    PROVE  Addresses(s)'
<1> DEFINE q == queue[s]
           r == queue'[s]
<1>0. q \in Queues /\ d \in Owners /\ SendersRight(q)
  BY QueueTypes DEF Owners, Addresses
<1>1. batch'[s] = batch[s] /\ ctl'[s] = ctl[s]
  BY DEF Puts
<1>e. NoMsg.from \notin Cpus
  BY ConstantsAssumption DEF NoMsg, Control
<1>2. SendersRight(r) /\ \A k \in QueueClaims(r) : k \in QueueClaims(q) \/ ShardOf(k[1], s)
  <2>1. CASE r = q
    BY <1>0, <2>1
  <2>2. CASE r = Claim(q, d, NoMsg)
    <3> DEFINE e == [owner |-> d, state |-> Reserved, msg |-> NoMsg]
    <3>1. e \in Entry(Owners, Message) /\ e.msg.from \notin Cpus /\ r = Append(q, e)
      BY <1>0, <1>e, <2>2, NoMsgEmpty DEF Entry, Claim
    <3>2. QueueClaims(r) = QueueClaims(q)
      BY <1>0, <2>2, ClaimEffect
    <3> HIDE DEF e, q, r
    <3> QED
      BY <1>0, <3>1, <3>2, PushSenders DEF q, r
  <2>3. CASE r = Send(q, d, Control("barrier", d))
    <3> DEFINE e == [owner |-> d, state |-> Published, msg |-> Control("barrier", d)]
    <3>1. e \in Entry(Owners, Message) /\ r = Append(q, e)
      BY <1>0, <2>3, NoMsgEmpty DEF Entry, Send
    <3>2. e.msg.kind = "barrier"
      BY DEF Control
    <3>3. QueueClaims(r) = QueueClaims(q)
      BY <1>0, <2>3, ControlClaims
    <3> HIDE DEF e, q, r
    <3> QED
      BY <1>0, <3>1, <3>2, <3>3, PushSenders DEF q, r
  <2>4. ASSUME NEW st \in {Published, Cancelled}, NEW m \in Message, Fills(d, s, st, m)
        PROVE  SendersRight(r) /\ \A k \in QueueClaims(r) : k \in QueueClaims(q) \/ ShardOf(k[1], s)
    <3>1. /\ m.kind # "barrier" /\ (m.kind = "event" \/ m.from \notin Cpus)
          /\ r = Settle(q, d, st, m)
      BY <2>4, NoMsgKind DEF Fills
    <3>2. QueueClaims(r) = QueueClaims(q) \cup Claims(m)
      <4>1. /\ st # Published => Claims(m) = {}
            /\ HoldsOne(q, d) /\ QueueProper(q) /\ Proper(m)
        BY <2>4 DEF Fills
      <4> HIDE DEF q, r
      <4> QED
        BY <1>0, <2>4, <3>1, <4>1, SettleClaims, SMTT(30)
    <3>3. \A k \in Claims(m) : ShardOf(k[1], s)
      BY <2>4 DEF Fills
    <3> HIDE DEF q, r
    <3>4. SendersRight(r)
      BY <1>0, <3>1, SettleMarks
    <3> QED
      BY <3>2, <3>3, <3>4
  <2> QED
    BY <2>1, <2>2, <2>3, <2>4 DEF Puts
<1>3. \A k \in InHand(s)' : ShardOf(k[1], s)
  BY <1>1, <1>2 DEF InHand, Addresses
<1>4. ctl'[s].kind # "barrier" => ctl'[s].from \notin Cpus
  BY <1>1 DEF Addresses
<1> QED
  BY <1>2, <1>3, <1>4 DEF Addresses, ShardOf, InHand

(***************************************************************************)
(* The markers of each drain, step by step.                                *)
(***************************************************************************)
LEMMA NoMarkerLast ==
    ASSUME NEW c \in Cpus, NEW s \in Shards
    PROVE  /\ NoMarker(c, s) => MarkersLast(c, s)
           /\ NoMarker(c, s)' => MarkersLast(c, s)'
<1>1. NoMarker(c, s) => MarkersLast(c, s)
  BY DEF NoMarker, MarkersLast, Unmarked, MarkersBehind
<1>2. NoMarker(c, s)' => MarkersLast(c, s)'
  BY DEF NoMarker, MarkersLast, Unmarked, MarkersBehind
<1> QED
  BY <1>1, <1>2

\* The step of somebody else.
LEMMA MarkersFrame ==
    ASSUME NEW c \in Cpus, MarkersRight(c),
           dpc'[c] = dpc[c], recovered'[c] = recovered[c], mark'[c] = mark[c],
           TypeInv, \A s \in Shards : Kept(c, s)
    PROVE  MarkersRight(c)'
<1>1. dpc[c] \in {"off", "attached"} \cup Marking => ~recovered'[c]
  BY DEF MarkersRight
<1>2. ~recovered'[c] => \A s \in Shards : MarkersLast(c, s)'
  BY DEF MarkersRight, Kept
<1>3. ~recovered'[c] /\ dpc[c] \notin {"done", "failed"} \cup Marking =>
          \A s \in Shards : NoMarker(c, s)'
  BY DEF MarkersRight, Kept
<1>4. dpc[c] = "acking" => \A i \in 1..mark[c] : NoneOf(c, InHand(ShardOrder[c][i]))'
  <2> SUFFICES ASSUME dpc[c] = "acking", NEW i \in 1..mark[c]
               PROVE  NoneOf(c, InHand(ShardOrder[c][i]))'
    OBVIOUS
  <2>1. ShardOrder[c] \in Seq(Shards) /\ i \in 1..Len(ShardOrder[c])
    <3>1. mark[c] \in Nat /\ mark[c] < Len(ShardOrder[c])
      BY DEF TypeInv, TypeOK, DrainTypes, InRange
    <3> QED
      BY <3>1, ListsNotEmpty, Positions
  <2>2. ShardOrder[c][i] \in Shards
    BY <2>1, SeqEntry
  <2>3. NoneOf(c, InHand(ShardOrder[c][i]))
    BY DEF MarkersRight
  <2> QED
    BY <2>2, <2>3 DEF Kept
<1> QED
  BY <1>1, <1>2, <1>3, <1>4 DEF MarkersRight, Marking

\* The drain itself, between its start and its markers.
LEMMA MarkersRoam ==
    ASSUME TypeInv, NEW c \in Cpus, MarkersRight(c), \A s \in Shards : Puts(c, s),
           dpc[c] \notin {"off", "done", "failed"} \cup Marking,
           dpc'[c] \notin {"off", "attached", "acking"},
           dpc'[c] = "marking" => ~recovered[c],
           recovered'[c] = recovered[c]
    PROVE  MarkersRight(c)'
<1>1. ~recovered[c] => \A s \in Shards : NoMarker(c, s)
  BY DEF MarkersRight
<1>2. ~recovered[c] => \A s \in Shards : NoMarker(c, s)'
  BY <1>1, PutsKeep DEF Marking
<1>3. ~recovered[c] => \A s \in Shards : MarkersLast(c, s)'
  BY <1>2, NoMarkerLast
<1> QED
  BY <1>2, <1>3 DEF MarkersRight, Marking

LEMMA MarkersMark ==
    ASSUME TypeInv, NEW c \in Cpus, MarkersRight(c), \A s \in Shards : Puts(c, s),
           DrainMark(c)
    PROVE  MarkersRight(c)'
<1>1. dpc[c] = "marking" /\ recovered'[c] = recovered[c]
  BY DEF DrainMark
<1>2. ~recovered[c] /\ \A s \in Shards : MarkersLast(c, s)
  BY <1>1 DEF MarkersRight, Marking
<1>3. \A s \in Shards : MarkersLast(c, s)'
  BY <1>1, <1>2, PutsKeep
<1>4. \/ dpc'[c] \in {"failed", "marking"}
      \/ dpc'[c] = "acking" /\ mark'[c] = 0
  BY DEF DrainMark, Goto, TypeInv, TypeOK, DrainTypes
<1>5. dpc'[c] = "acking" => 1..mark'[c] = {}
  BY <1>4, SMTT(30)
<1> QED
  BY <1>1, <1>2, <1>3, <1>4, <1>5 DEF MarkersRight, Marking

\* An acknowledgement: it says that the shard has nothing of c left.
LEMMA AckSays ==
    ASSUME TypeInv, NEW c \in Cpus, MarkersRight(c), DrainAck(c)
    PROVE  /\ dpc[c] = "acking" /\ recovered[c] = FALSE
           /\ \/ dpc'[c] = "failed" /\ recovered'[c] = FALSE
              \/ /\ \A i \in 1..(mark[c] + 1) : NoneOf(c, InHand(ShardOrder[c][i]))
                 /\ \/ /\ mark[c] + 1 # Len(ShardOrder[c]) /\ recovered'[c] = FALSE
                       /\ dpc'[c] = "acking" /\ mark'[c] = mark[c] + 1
                    \/ /\ mark[c] + 1 = Len(ShardOrder[c]) /\ recovered'[c] = TRUE
                       /\ dpc'[c] \in {"done", "top"}
<1> DEFINE s == ShardOrder[c][mark[c] + 1]
           all == mark[c] + 1 = Len(ShardOrder[c])
<1>0. dpc \in [Cpus -> DrainLabels] /\ mark \in [Cpus -> Nat] /\ recovered \in [Cpus -> BOOLEAN]
  BY DEF TypeInv, TypeOK, DrainTypes
<1>1. dpc[c] = "acking" /\ ~recovered[c]
  BY DEF DrainAck, MarkersRight, Marking
<1>2. PICK ok \in BOOLEAN :
         /\ <<c, s, ok>> \in replies
         /\ IF ~ok
            THEN Goto(c, "failed") /\ UNCHANGED <<recovered, mark>>
            ELSE /\ mark' = [mark EXCEPT ![c] = IF all THEN 0 ELSE @ + 1]
                 /\ recovered' = [recovered EXCEPT ![c] = all]
                 /\ Goto(c, IF all THEN AfterRecovery(c) ELSE "acking")
  BY DEF DrainAck
<1>3. recovered[c] = FALSE
  BY <1>0, <1>1
<1>4. CASE ~ok
  BY <1>0, <1>1, <1>2, <1>3, <1>4 DEF Goto
<1>5. CASE ok
  <2>1. s \in Shards /\ MarkersLast(c, s) /\ <<c, s, TRUE>> \in replies
    BY <1>1, <1>2, <1>5, Addressed DEF MarkersRight
  <2>2. NoneOf(c, InHand(s))
    BY <2>1 DEF MarkersLast
  <2>3. \A i \in 1..mark[c] : NoneOf(c, InHand(ShardOrder[c][i]))
    BY <1>1 DEF MarkersRight
  <2>4. \A i \in 1..(mark[c] + 1) : NoneOf(c, InHand(ShardOrder[c][i]))
    <3>1. \A i \in 1..(mark[c] + 1) : i \in 1..mark[c] \/ i = mark[c] + 1
      BY <1>0, SMTT(30)
    <3> QED
      BY <2>2, <2>3, <3>1
  <2>5. recovered'[c] = all
    BY <1>0, <1>2, <1>5
  <2>6. CASE all
    BY <1>0, <1>1, <1>2, <1>3, <1>5, <2>4, <2>5, <2>6 DEF Goto, AfterRecovery
  <2>7. CASE ~all
    BY <1>0, <1>1, <1>2, <1>3, <1>5, <2>4, <2>5, <2>7 DEF Goto
  <2> QED
    BY <2>6, <2>7
<1> QED
  BY <1>4, <1>5

LEMMA MarkersAck ==
    ASSUME TypeInv, NEW c \in Cpus, MarkersRight(c), \A s \in Shards : Puts(c, s),
           DrainAck(c)
    PROVE  MarkersRight(c)'
<1>1. \A s \in Shards : MarkersLast(c, s)'
  BY AckSays, PutsKeep DEF MarkersRight
<1>2. \A s \in Shards : NoneOf(c, InHand(s)) => NoneOf(c, InHand(s))'
  BY AckSays, PutsKeep
<1>3. CASE dpc'[c] # "acking"
  BY <1>1, <1>3, AckSays DEF MarkersRight, Marking
<1>4. CASE dpc'[c] = "acking"
  <2>1. /\ \A i \in 1..mark'[c] : NoneOf(c, InHand(ShardOrder[c][i]))
        /\ recovered'[c] = FALSE /\ mark'[c] = mark[c] + 1
    BY <1>4, AckSays
  <2>2. \A i \in 1..mark'[c] : ShardOrder[c][i] \in Shards
    <3>1. ShardOrder[c] \in Seq(Shards) /\ mark[c] < Len(ShardOrder[c])
          /\ Len(ShardOrder[c]) \in Nat /\ mark[c] \in Nat
      BY ListsNotEmpty DEF TypeInv, TypeOK, DrainTypes, InRange
    <3>2. \A i \in 1..mark'[c] : i \in 1..Len(ShardOrder[c])
      BY <2>1, <3>1, Positions
    <3> QED
      BY <3>1, <3>2, SeqEntry
  <2>3. \A i \in 1..mark'[c] : NoneOf(c, InHand(ShardOrder[c][i]))'
    BY <1>2, <2>1, <2>2
  <2> QED
    BY <1>1, <1>4, <2>1, <2>3 DEF MarkersRight, Marking
<1> QED
  BY <1>3, <1>4

\* The last acknowledgement: nothing of c is in any queue or batch.
LEMMA LastAck ==
    ASSUME TypeInv, NEW c \in Cpus, MarkersRight(c), \A s \in Shards : Addresses(s),
           DrainAck(c), recovered'[c]
    PROVE  \A s \in Shards : NoneOf(c, InHand(s))
<1>1. \A i \in 1..Len(ShardOrder[c]) : NoneOf(c, InHand(ShardOrder[c][i]))
  BY AckSays
<1> SUFFICES ASSUME NEW s \in Shards, NEW k \in InHand(s), k[1] = c PROVE FALSE
  BY DEF NoneOf
<1>2. PICK i \in DOMAIN ShardOrder[c] : ShardOrder[c][i] = s
  BY DEF Addresses, ShardOf
<1>3. i \in 1..Len(ShardOrder[c])
  BY ListsNotEmpty, SeqLen
<1> QED
  BY <1>1, <1>2, <1>3 DEF NoneOf

LEMMA MarkersDrain ==
    ASSUME TypeInv, NEW d \in Cpus, DrainStep(d) \/ DrainFault(d),
           \A s \in Shards : Puts(d, s), NEW c \in Cpus, MarkersRight(c)
    PROVE  MarkersRight(c)'
<1>1. CASE c # d
  <2>1. \A s \in Shards : Kept(c, s)
    BY <1>1, PutsKeep DEF Kept
  <2>2. dpc'[c] = dpc[c] /\ recovered'[c] = recovered[c] /\ mark'[c] = mark[c]
    BY <1>1, DrainOthers, DrainElsewhere
  <2> QED
    BY <2>1, <2>2, MarkersFrame
<1>2. CASE c = d /\ DrainMark(d)
  BY <1>2, MarkersMark
<1>3. CASE c = d /\ DrainAck(d)
  BY <1>3, MarkersAck
<1>4. CASE c = d /\ ~DrainMark(d) /\ ~DrainAck(d)
  <2>1. recovered'[c] = recovered[c]
    BY <1>4 DEF DrainStep, DrainFault, DrainStart, DrainTop, DrainScan, DrainRead, DrainSkip,
       DrainReserve, DrainCopy, DrainSettle, DrainCycleEnd, DrainSwap
  <2>2. dpc[c] \notin {"off", "done", "failed"} \cup Marking
    BY <1>4 DEF DrainStep, DrainFault, DrainStart, DrainTop, DrainScan, DrainRead, DrainSkip,
       DrainReserve, DrainCopy, DrainSettle, DrainCycleEnd, DrainSwap, Marking
  <2>3. /\ dpc'[c] \notin {"off", "attached", "acking"}
        /\ dpc'[c] = "marking" => ~recovered[c]
    <3>0. dpc \in [Cpus -> DrainLabels] /\ recovered \in [Cpus -> BOOLEAN]
      BY DEF TypeInv, TypeOK, DrainTypes
    <3>1. CASE DrainCycleEnd(d)
      BY <1>4, <3>0, <3>1 DEF DrainCycleEnd, Goto, AfterRecovery
    <3>2. CASE ~DrainCycleEnd(d)
      <4>1. dpc'[c] \in {"top", "done", "scan", "cycle", "failed", "reading", "observed",
                      "held", "copied"}
        BY <1>4, <3>0, <3>2 DEF DrainStep, DrainFault, DrainStart, DrainTop, DrainScan,
           DrainRead, DrainSkip, DrainReserve, DrainCopy, DrainSettle, DrainSwap, Goto
      <4> QED
        BY <4>1
    <3> QED
      BY <3>1, <3>2
  <2> QED
    BY <1>4, <2>1, <2>2, <2>3, MarkersRoam
<1> QED
  BY <1>1, <1>2, <1>3, <1>4

(***************************************************************************)
(* What is on record, or noted as a loss, stays so.                        *)
(***************************************************************************)
OnRecord == AllReceipts \cup AllPending \cup quarantined \cup dropped \cup ReservedTypes

LEMMA WriterRecords ==
    ASSUME TypeInv, ExactlyOnce, NEW s \in Shards, WriterStep(s) \/ WriterFault(s),
           Carried(s), HandsOn(s)
    PROVE  OnRecord \subseteq OnRecord'
<1>1. \A t \in Shards \ {s} : receipts'[t] = receipts[t] /\ pending'[t] = pending[t]
  BY WriterFrame
<1>2. \A k : k \in OnRecord' <=> \/ \E t \in Shards : k \in receipts'[t] \cup pending'[t]
                                 \/ k \in quarantined' \cup dropped' \cup ReservedTypes
  BY DEF OnRecord, AllReceipts, AllPending
<1>3. \A k : k \in OnRecord <=> \/ \E t \in Shards : k \in receipts[t] \cup pending[t]
                                \/ k \in quarantined \cup dropped \cup ReservedTypes
  BY DEF OnRecord, AllReceipts, AllPending
<1>4. quarantined \subseteq quarantined' /\ dropped \subseteq dropped'
  BY DEF Carried
<1>5. ASSUME NEW k \in receipts[s] \cup pending[s]
      PROVE  k \in receipts'[s] \cup pending'[s] \cup quarantined' \cup dropped'
  <2>1. k \notin InHand(s)
    BY DEF ExactlyOnce, Single, Claimed, InHand
  <2>2. k \notin InHand(s)'
    BY <2>1 DEF HandsOn
  <2>3. k \in Held(s)' \cup quarantined' \cup dropped'
    BY DEF Carried, Held, Claimed
  <2> QED
    BY <2>2, <2>3 DEF Held, Claimed, InHand
<1> SUFFICES ASSUME NEW k \in OnRecord PROVE k \in OnRecord'
  OBVIOUS
<1>6. CASE \E t \in Shards \ {s} : k \in receipts[t] \cup pending[t]
  BY <1>1, <1>2, <1>6
<1>7. CASE k \in receipts[s] \cup pending[s]
  BY <1>2, <1>5, <1>7
<1>8. CASE k \in quarantined \cup dropped \cup ReservedTypes
  BY <1>2, <1>4, <1>8
<1> QED
  BY <1>3, <1>6, <1>7, <1>8

LEMMA ReadyFrame ==
    ASSUME ReadyMeansRecovered, UNCHANGED <<recovered, boundary>>, stopping => stopping',
           OnRecord \subseteq OnRecord'
    PROVE  ReadyMeansRecovered'
BY DEF ReadyMeansRecovered, OnRecord

\* What is behind the boundary at the last acknowledgement.
LEMMA ReadyAck ==
    ASSUME Inductive, CoverageKept, NEW c \in Cpus, InOrder(c), MarkersRight(c),
           \A s \in Shards : Addresses(s), DrainAck(c), recovered'[c], ~stopping
    PROVE  {<<c, q>> : q \in 1..(boundary[c] - 1)} \subseteq OnRecord
<1>0. /\ pos[c] \in Nat /\ next[c] \in Nat /\ boundary[c] \in Nat
      /\ dpc[c] = "acking"
  BY DEF Inductive, TypeInv, TypeOK, DrainTypes, DrainAck
<1>1. boundary[c] <= next[c]
  BY <1>0 DEF InOrder, CaughtUp, Marking
<1> SUFFICES ASSUME NEW q \in 1..(boundary[c] - 1) PROVE <<c, q>> \in OnRecord
  OBVIOUS
<1> DEFINE k == <<c, q>>
<1>2. k \in Passed(c) /\ k[1] = c
  <2>1. q \in 1..(next[c] - 1)
    BY <1>0, <1>1, SMTT(30)
  <2> QED
    BY <2>1 DEF Passed
<1> HIDE DEF k
<1>3. \A s \in Shards : k \notin InHand(s)
  BY <1>2, LastAck DEF NoneOf, Inductive
<1>4. CASE \E s \in Shards : k \in Held(s)
  BY <1>3, <1>4 DEF k, Held, Claimed, InHand, OnRecord, AllReceipts, AllPending
<1>5. CASE k \in coverage \cup quarantined \cup dropped \cup ReservedTypes
  BY <1>5 DEF k, CoverageKept, OnRecord
<1> QED
  BY <1>2, <1>4, <1>5 DEF Inductive, Accounted, k

LEMMA ReadyDrain ==
    ASSUME Inductive, Reading, Recovery, NEW d \in Cpus, DrainStep(d) \/ DrainFault(d)
    PROVE  ReadyMeansRecovered'
<1>0. /\ recovered \in [Cpus -> BOOLEAN] /\ boundary \in [Cpus -> Nat \ {0}]
  BY DEF Inductive, TypeInv, TypeOK, DrainTypes
<1>1. UNCHANGED <<receipts, pending, quarantined, dropped, stopping>>
  BY DrainFrame DEF storeVars, writerVars, superVars
<1>2. OnRecord' = OnRecord
  BY <1>1 DEF OnRecord, AllReceipts, AllPending
<1> SUFFICES ASSUME NEW c \in Cpus, recovered'[c], ~stopping
             PROVE  {<<c, q>> : q \in 1..(boundary'[c] - 1)} \subseteq OnRecord
  BY <1>1, <1>2 DEF ReadyMeansRecovered, OnRecord
<1>3. CASE recovered[c] /\ boundary'[c] = boundary[c]
  BY <1>3 DEF Recovery, ReadyMeansRecovered, OnRecord
<1>4. CASE c # d
  BY <1>3, <1>4, DrainElsewhere DEF Inductive
<1>5. CASE c = d /\ DrainAck(d)
  <2>1. boundary'[c] = boundary[c]
    BY <1>5 DEF DrainAck
  <2> QED
    BY <1>5, <2>1, ReadyAck DEF Recovery, Reading
<1>6. CASE c = d /\ ~DrainAck(d)
  <2>1. recovered[c]
    BY <1>6 DEF DrainStep, DrainFault, DrainStart, DrainTop, DrainScan, DrainRead, DrainSkip,
       DrainReserve, DrainCopy, DrainSettle, DrainCycleEnd, DrainSwap, DrainMark
  <2>2. dpc[c] # "attached"
    BY <2>1 DEF Recovery, MarkersRight
  <2>3. boundary'[c] = boundary[c]
    BY <1>0, <1>6, <2>1, <2>2 DEF DrainStep, DrainFault, DrainStart, DrainTop, DrainScan,
       DrainRead, DrainSkip, DrainReserve, DrainCopy, DrainSettle, DrainCycleEnd, DrainSwap, DrainMark
  <2> QED
    BY <1>3, <2>1, <2>3
<1> QED
  BY <1>4, <1>5, <1>6

\* What was covered at the start stays on record.
LEMMA CoverageStep ==
    ASSUME Inductive, CoverageKept, [Next]_vars
    PROVE  CoverageKept'
<1>1. CASE Start
  <2>1. PICK bad \in SUBSET Shards : OpenShards(bad)
    BY <1>1 DEF Start
  <2>2. ASSUME NEW k \in coverage' PROVE k \in AllReceipts'
    <3>1. PICK s \in Shards \ bad : k \in receipts[s]
      BY <2>1, <2>2 DEF OpenShards
    <3>2. receipts'[s] = receipts[s]
      BY <2>1, <3>1 DEF OpenShards
    <3> QED
      BY <3>1, <3>2 DEF AllReceipts
  <2> QED
    BY <2>2 DEF CoverageKept
<1>2. CASE Exit
  BY <1>2 DEF Exit, CoverageKept
<1>3. CASE coverage' = coverage /\ quarantined \subseteq quarantined'
  BY <1>3, ReceiptsStep DEF CoverageKept, AllReceipts
<1>4. CASE \E s \in Shards : WriterStep(s) \/ WriterFault(s)
  BY <1>3, <1>4, WriterCarries, WriterFrame DEF Carried, Inductive
<1> QED
  BY <1>1, <1>2, <1>3, <1>4, StepCases, KernelFrame, DrainFrame, SuperFrame
     DEF storeVars, superVars, vars

(***************************************************************************)
(* Together.                                                               *)
(***************************************************************************)
LEMMA RecoveryInit == Init => Recovery
<1> SUFFICES ASSUME Init PROVE Recovery
  OBVIOUS
<1>1. ASSUME NEW s \in Shards
      PROVE  /\ queue[s] = <<>> /\ batch[s] = <<>> /\ ctl[s] = NoMsg /\ replies = {}
             /\ InHand(s) = {}
  BY QueueEmpty, BatchEmpty DEF Init, InHand
<1>3. \A s \in Shards : Addresses(s)
  BY <1>1, NoMsgKind, EmptyDomain DEF Addresses, SendersRight
<1>4. \A c \in Cpus, s \in Shards : NoMarker(c, s)
  BY <1>1, NoMsgKind, EmptyDomain DEF NoMarker, Unmarked, IsMarker
<1>5. \A c \in Cpus, s \in Shards : MarkersLast(c, s)
  BY <1>4, NoMarkerLast
<1>6. \A c \in Cpus : dpc[c] = "off" /\ recovered[c] = FALSE
  BY DEF Init
<1>7. \A c \in Cpus : MarkersRight(c)
  BY <1>4, <1>5, <1>6 DEF MarkersRight
<1>8. CoverageKept /\ ReadyMeansRecovered
  BY <1>6 DEF Init, CoverageKept, ReadyMeansRecovered
<1> QED
  BY <1>3, <1>7, <1>8 DEF Recovery

LEMMA RecoveryExit ==
    ASSUME Exit
    PROVE  /\ \A c \in Cpus : MarkersRight(c)' /\ recovered'[c] = FALSE
           /\ \A s \in Shards : Addresses(s)'
<1>1. ASSUME NEW s \in Shards
      PROVE  /\ queue'[s] = <<>> /\ batch'[s] = <<>> /\ ctl'[s] = NoMsg /\ replies' = {}
             /\ InHand(s)' = {}
  BY QueueEmpty, BatchEmpty DEF Exit, InHand
<1>3. \A s \in Shards : Addresses(s)'
  BY <1>1, NoMsgKind, EmptyDomain DEF Addresses, SendersRight
<1>4. \A c \in Cpus, s \in Shards : NoMarker(c, s)'
  BY <1>1, NoMsgKind, EmptyDomain DEF NoMarker, Unmarked, IsMarker
<1>5. \A c \in Cpus, s \in Shards : MarkersLast(c, s)'
  BY <1>4, NoMarkerLast
<1>6. \A c \in Cpus : dpc'[c] = "off" /\ recovered'[c] = FALSE
  BY DEF Exit
<1>7. \A c \in Cpus : MarkersRight(c)'
  BY <1>4, <1>5, <1>6 DEF MarkersRight
<1> QED
  BY <1>3, <1>6, <1>7

\* A step that touches no queue, batch, control message or reply.
LEMMA RecoveryStill ==
    ASSUME Inductive, Recovery, UNCHANGED <<queue, batch, ctl, replies, recovered, mark>>,
           \A c \in Cpus : \/ dpc'[c] = dpc[c]
                           \/ dpc[c] = "off" /\ dpc'[c] = "attached"
    PROVE  /\ \A c \in Cpus : MarkersRight(c)'
           /\ \A s \in Shards : Addresses(s)'
<1>1. \A s \in Shards : Addresses(s)'
  BY UntouchedAddresses DEF Recovery
<1>2. \A c \in Cpus, s \in Shards : Kept(c, s)
  BY UntouchedKeeps
<1>3. ASSUME NEW c \in Cpus PROVE MarkersRight(c)'
  <2>1. MarkersRight(c)
    BY DEF Recovery
  <2>2. CASE dpc'[c] = dpc[c]
    BY <1>2, <2>1, <2>2, MarkersFrame DEF Inductive
  <2>3. CASE dpc[c] = "off" /\ dpc'[c] = "attached"
    BY <1>2, <2>1, <2>3 DEF MarkersRight, Marking, Kept
  <2> QED
    BY <2>2, <2>3
<1> QED
  BY <1>1, <1>3

LEMMA RecoveryStep ==
    ASSUME Inductive, Reading, Recovery, [Next]_vars
    PROVE  Recovery'
<1>0. TypeInv /\ ReadyMeansRecovered /\ CoverageKept'
  BY CoverageStep DEF Inductive, Recovery
<1>1. CASE Kernel \/ UNCHANGED vars
  <2>1. UNCHANGED <<storeVars, chanVars, drainVars, writerVars, superVars>>
    BY <1>1, KernelFrame DEF vars
  <2>2. OnRecord' = OnRecord
    BY <2>1, SMTT(30) DEF OnRecord, AllReceipts, AllPending, storeVars, writerVars
  <2>3. ReadyMeansRecovered'
    BY <1>0, <2>1, <2>2, ReadyFrame DEF drainVars, superVars
  <2> QED
    BY <1>0, <2>1, <2>3, RecoveryStill DEF Recovery, chanVars, drainVars, writerVars
<1>2. ASSUME NEW d \in Cpus, DrainStep(d) \/ DrainFault(d) PROVE Recovery'
  <2>1. \A s \in Shards : Puts(d, s)
    BY <1>2, DrainPuts DEF Inductive
  <2>2. \A s \in Shards : Addresses(s)'
    BY <1>0, <2>1, PutsAddress DEF Recovery
  <2>3. \A c \in Cpus : MarkersRight(c)'
    BY <1>0, <1>2, <2>1, MarkersDrain DEF Recovery
  <2>4. ReadyMeansRecovered'
    BY <1>2, ReadyDrain
  <2> QED
    BY <1>0, <2>2, <2>3, <2>4 DEF Recovery
<1>3. ASSUME NEW s \in Shards, WriterStep(s) \/ WriterFault(s) PROVE Recovery'
  <2>1. HandsOn(s) /\ Carried(s)
    BY <1>3, WriterHands, WriterCarries DEF Inductive
  <2>2. /\ UNCHANGED <<recovered, boundary, dpc, mark>>
        /\ \A t \in Shards \ {s} : /\ queue'[t] = queue[t] /\ batch'[t] = batch[t]
                                   /\ ctl'[t] = ctl[t]
    BY <1>0, <1>3, WriterFrame DEF drainVars
  <2>3. \A t \in Shards : Addresses(t)'
    <3>1. Addresses(s)'
      BY <1>0, <2>1, HandsAddress DEF Recovery
    <3>2. \A t \in Shards \ {s} : Addresses(t)'
      BY <2>2, UntouchedAddresses DEF Recovery
    <3> QED
      BY <3>1, <3>2
  <2>4. ASSUME NEW c \in Cpus PROVE MarkersRight(c)'
    <3>1. Kept(c, s)
      BY <1>0, <2>1, HandsKeep DEF Recovery
    <3>2. \A t \in Shards \ {s} : Kept(c, t)
      BY <1>0, <1>3, <2>1, HandsElsewhere
    <3>3. \A t \in Shards : Kept(c, t)
      BY <3>1, <3>2
    <3> QED
      BY <1>0, <2>2, <3>3, MarkersFrame DEF Recovery
  <2>5. stopping => stopping'
    BY <1>3 DEF WriterStep, WriterFault, SkipCancelled, PopFirst, PopMore, CloseBatch,
       GapsCommitted, RowsCommitted, BarrierReached, RetainDone, DrainQueue, WriterExit,
       GapsRefused, GapsCorrupt, GapsFatal, RowsRefused, RowsCorrupt, RowsFatal,
       RetainRefused, RetainCorrupt, RetainFatal, RequestRetain, Fail, superVars
  <2>6. OnRecord \subseteq OnRecord'
    BY <1>3, <2>1, WriterRecords DEF Inductive
  <2>7. ReadyMeansRecovered'
    BY <1>0, <2>2, <2>5, <2>6, ReadyFrame
  <2> QED
    BY <1>0, <2>3, <2>4, <2>7 DEF Recovery
<1>4. CASE SuperInside
  <2>1. \A s \in Shards : HandsOn(s)
    BY <1>0, <1>4, SuperHands
  <2>2. UNCHANGED <<storeVars, drainVars, writerVars>>
    BY <1>4, SuperFrame
  <2>3. \A s \in Shards : Addresses(s)'
    BY <1>0, <2>1, HandsAddress DEF Recovery
  <2>4. ASSUME NEW c \in Cpus PROVE MarkersRight(c)'
    <3>1. \A s \in Shards : Kept(c, s)
      BY <1>0, <2>1, HandsKeep DEF Recovery
    <3> QED
      BY <1>0, <2>2, <3>1, MarkersFrame DEF Recovery, drainVars
  <2>5. stopping => stopping'
    BY <1>4 DEF SuperInside, Ready, BeginStop, JoinDrains, FlushSend, FlushAck, CloseQueues
  <2>6. OnRecord' = OnRecord
    BY <2>2 DEF OnRecord, AllReceipts, AllPending, storeVars, writerVars
  <2>7. ReadyMeansRecovered'
    BY <1>0, <2>2, <2>5, <2>6, ReadyFrame DEF drainVars
  <2> QED
    BY <1>0, <2>3, <2>4, <2>7 DEF Recovery
<1>5. CASE Start
  <2>1. /\ UNCHANGED <<queue, batch, ctl, replies, recovered, mark>>
        /\ \A c \in Cpus : dpc[c] = "off" /\ dpc'[c] = "attached"
    BY <1>5 DEF Start, Inductive, DownIsEmpty
  <2>2. \A c \in Cpus : ~recovered'[c]
    BY <2>1 DEF Recovery, MarkersRight
  <2>3. ReadyMeansRecovered'
    BY <2>2 DEF ReadyMeansRecovered
  <2> QED
    BY <1>0, <2>1, <2>3, RecoveryStill DEF Recovery
<1>6. CASE Exit
  <2>1. ReadyMeansRecovered'
    BY <1>6, RecoveryExit DEF ReadyMeansRecovered
  <2> QED
    BY <1>0, <1>6, <2>1, RecoveryExit DEF Recovery
<1> QED
  BY <1>1, <1>2, <1>3, <1>4, <1>5, <1>6, StepCases

\* The whole invariant: no key is queued behind the marker that is to vouch for it.
THEOREM RecoveryHolds == Spec => [](Inductive /\ Reading /\ Recovery)
<1>1. Init => Recovery
  BY RecoveryInit
<1>2. Inductive /\ Reading /\ Recovery /\ [Next]_vars => Recovery'
  BY RecoveryStep
<1> QED
  BY <1>1, <1>2, ReadingHolds, PTL DEF Spec

\* Readiness tells the truth: once the markers of a drain are acknowledged, all
\* that was in its ring at startup is on record or noted as a loss (or was in a
\* database quarantined or a writer failed since, or is of a reserved type), whatever
\* lapping, replacement, refusal, corruption or stop happens meanwhile (kmes.rs
\* commit_recovery_markers, pipeline.rs run).
THEOREM ReadyIsTrue == Spec => []ReadyMeansRecovered
<1>1. Recovery => ReadyMeansRecovered
  BY DEF Recovery
<1> QED
  BY <1>1, RecoveryHolds, PTL
=============================================================================
