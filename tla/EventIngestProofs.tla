-------------------------- MODULE EventIngestProofs --------------------------
(***************************************************************************)
(* Facts about the operators that EventIngest is written in: extremal      *)
(* elements of a ring, what each queue operation does to the slots held    *)
(* and to the claims carried, and the same for a batch.                    *)
(*                                                                         *)
(* Then type correctness of EventIngest.  It needs two more facts to be    *)
(* inductive: that rings hold only assigned sequences, so that a nonempty  *)
(* ring has a newest event, and that positions in the lists of shards stay *)
(* inside them.                                                            *)
(*                                                                         *)
(* Then the conjuncts of the inductive invariant that concern one thread:  *)
(* each has a lemma that says a step preserves it.  The others, and the    *)
(* theorems, are in EventIngestSafety.                                     *)
(***************************************************************************)
EXTENDS EventIngest, WellFoundedInduction, TLAPS

\* The time each leaf may take, in seconds.
USE ZenonT(30)

(***************************************************************************)
(* Numbers.                                                                *)
(***************************************************************************)

LEMMA Intervals ==
    /\ \A h \in Nat : \A n \in 1..h : n \in Nat \ {0}
    /\ \A a \in Nat, b \in Nat : \A n \in a..(b - 1) : ~(n < a) /\ n < b
BY SMTT(30)

LEMMA Orders ==
    /\ \A a \in Nat, b \in Nat, d \in Nat : a <= b /\ b <= d => a <= d
    /\ \A a \in Nat, b \in Nat : a < b => ~(b < a)
BY SMTT(30)

\* Positions in a list of length n.
LEMMA Positions ==
    ASSUME NEW n \in Nat, NEW k \in Nat, k < n
    PROVE  /\ \A i \in Nat \ {0} : i <= n => i \in 1..n
           /\ k + 1 \in 1..n
           /\ \A i \in 1..(k + 1) : i \in 1..n
           /\ \A i \in 1..k : i \in 1..n
BY SMTT(30)

\* An interval and the number after its last.
LEMMA OneFurther ==
    ASSUME NEW a \in Nat, NEW q \in Nat, ~(q < a), NEW b, b = q + 1
    PROVE  /\ b \in Nat /\ a <= b
           /\ \A n \in a..(b - 1) : n = q \/ n \in a..(q - 1)
BY SMTT(30)

(***************************************************************************)
(* Sequences.                                                              *)
(***************************************************************************)

\* A sequence is a function on the positions up to its length, and so is one
\* made of such a function.
LEMMA SeqLen ==
    ASSUME NEW S, NEW s \in Seq(S)
    PROVE  /\ Len(s) \in Nat /\ DOMAIN s = 1..Len(s) /\ s \in [1..Len(s) -> S]
           /\ s = <<>> <=> Len(s) = 0
BY SMTT(30)

LEMMA SeqEntry ==
    ASSUME NEW S, NEW s \in Seq(S), NEW n \in 1..Len(s)
    PROVE  s[n] \in S
BY SMTT(30)

LEMMA SeqOf ==
    ASSUME NEW S, NEW n \in Nat, NEW f \in [1..n -> S]
    PROVE  f \in Seq(S) /\ Len(f) = n
BY SMTT(30)

LEMMA SeqAppend ==
    ASSUME NEW S, NEW s \in Seq(S), NEW e \in S
    PROVE  /\ Append(s, e) \in Seq(S) /\ Append(s, e) # <<>>
           /\ Len(Append(s, e)) = Len(s) + 1
           /\ \A i \in 1..Len(s) : Append(s, e)[i] = s[i]
           /\ Append(s, e)[Len(s) + 1] = e
BY SMTT(30)

LEMMA SeqTail ==
    ASSUME NEW S, NEW s \in Seq(S), s # <<>>
    PROVE  /\ Head(s) \in S /\ Head(s) = s[1]
           /\ Tail(s) \in Seq(S) /\ Len(Tail(s)) = Len(s) - 1
           /\ \A i \in 1..(Len(s) - 1) : Tail(s)[i] = s[i + 1]
BY SMTT(30)

(***************************************************************************)
(* Extremal elements.                                                      *)
(***************************************************************************)
\* A nonempty set of naturals has a least element, which MinOf returns.
LEMMA MinExists ==
    ASSUME NEW S \in SUBSET Nat, S # {}
    PROVE  MinOf(S) \in S /\ \A y \in S : MinOf(S) <= y
<1>1. PICK x \in S : \A y \in S : ~(<<y, x>> \in OpToRel(<, Nat))
  BY WFMin, NatLessThanWellFounded
<1>2. \A y \in S : ~(y < x)
  BY <1>1 DEF OpToRel
<1>3. \A y \in S : x <= y
  BY <1>2, SMTT(30)
<1> QED
  BY <1>3 DEF MinOf

\* A nonempty bounded set of naturals has a greatest, which MaxOf returns.
LEMMA MaxExists ==
    ASSUME NEW n \in Nat, NEW S \in SUBSET (0..n), S # {}
    PROVE  MaxOf(S) \in S /\ \A y \in S : y <= MaxOf(S)
<1> DEFINE T == {m \in Nat : \A y \in S : y <= m}
<1>1. T \in SUBSET Nat /\ T # {}
  <2>1. n \in T
    BY SMTT(30)
  <2> QED
    BY <2>1
<1>2. PICK m \in T : \A k \in T : m <= k
  BY <1>1, MinExists
<1>3. m \in S
  <2> SUFFICES ASSUME m \notin S PROVE FALSE
    OBVIOUS
  <2>0. PICK y \in S : TRUE
    OBVIOUS
  <2>1. m > 0
    BY <2>0, <1>2, SMTT(30)
  <2>2. m - 1 \in T
    BY <2>1, <1>2, SMTT(30)
  <2> QED
    BY <2>2, <1>2, SMTT(30)
<1> QED
  BY <1>2, <1>3 DEF MaxOf

(***************************************************************************)
(* Queues.                                                                 *)
(***************************************************************************)
Queues == Seq(Entry(Owners, Message))

\* What o holds in q it holds in r.
SameHolds(q, r, o) ==
    /\ Holds(r, o) <=> Holds(q, o)
    /\ HoldsOne(q, o) => HoldsOne(r, o)

LEMMA QueueClaimsAt ==
    ASSUME NEW q \in Queues, NEW k
    PROVE  k \in QueueClaims(q) <=> \E i \in DOMAIN q : k \in Claims(q[i].msg)
BY DEF QueueClaims

LEMMA BatchClaimsAt ==
    ASSUME NEW b \in Seq(Message), NEW k
    PROVE  /\ k \in BatchClaims(b) <=> \E i \in DOMAIN b : k \in Claims(b[i])
           /\ k \in BatchStores(b) <=> \E i \in DOMAIN b : k \in b[i].stores
           /\ k \in BatchGaps(b) <=> \E i \in DOMAIN b : k \in b[i].gaps
BY DEF BatchClaims, BatchStores, BatchGaps

\* The message a producer's slot carries before it is settled claims nothing.
LEMMA NoMsgEmpty ==
    /\ NoMsg \in Message /\ Claims(NoMsg) = {} /\ Proper(NoMsg)
    /\ \A k \in {"barrier", "retain"}, p \in Owners :
         /\ Control(k, p) \in Message
         /\ Claims(Control(k, p)) = {}
         /\ Proper(Control(k, p))
         /\ Control(k, p).kind = k
BY DEF NoMsg, Control, Message, Claims, Proper, Owners

LEMMA NoMsgKind == NoMsg.kind # "barrier" /\ NoMsg.from \notin Cpus
BY ConstantsAssumption DEF NoMsg, Control

LEMMA EmptyDomain == DOMAIN <<>> = {}
BY SMTT(30)

\* An entry appended to a queue.
LEMMA AppendEntry ==
    ASSUME NEW q \in Queues, NEW e \in Entry(Owners, Message)
    PROVE  /\ Append(q, e) \in Queues
           /\ Append(q, e) # <<>>
           /\ DOMAIN Append(q, e) = DOMAIN q \cup {Len(q) + 1}
           /\ Len(q) + 1 \notin DOMAIN q
           /\ Append(q, e)[Len(q) + 1] = e
           /\ \A i \in DOMAIN q : Append(q, e)[i] = q[i]
BY SeqAppend, SeqLen, SMTT(30) DEF Queues

\* The head taken off a queue.
LEMMA TailEntry ==
    ASSUME NEW q \in Queues, q # <<>>
    PROVE  /\ Tail(q) \in Queues
           /\ Head(q) \in Entry(Owners, Message)
           /\ 1 \in DOMAIN q /\ q[1] = Head(q)
           /\ \A i \in DOMAIN Tail(q) : i + 1 \in DOMAIN q /\ i + 1 # 1
                                        /\ Tail(q)[i] = q[i + 1]
           /\ \A i \in DOMAIN q : i = 1 \/ (i - 1 \in DOMAIN Tail(q)
                                            /\ Tail(q)[i - 1] = q[i])
BY SeqTail, SeqLen, SMTT(30) DEF Queues

\* Inner::try_reserve: the claimant holds one slot more, and no claim is made.
LEMMA ClaimEffect ==
    ASSUME NEW q \in Queues, NEW p \in Owners
    PROVE  LET r == Claim(q, p, NoMsg)
           IN  /\ r \in Queues
               /\ QueueClaims(r) = QueueClaims(q)
               /\ QueueApart(q) => QueueApart(r)
               /\ QueueProper(q) => QueueProper(r)
               /\ ~Holds(q, p) => HoldsOne(r, p)
               /\ \A o \in Owners \ {p} : SameHolds(q, r, o)
<1> DEFINE e == [owner |-> p, state |-> Reserved, msg |-> NoMsg]
           r == Append(q, e)
<1>0. e \in Entry(Owners, Message) /\ Claim(q, p, NoMsg) = r
  BY NoMsgEmpty DEF Entry, Claim
<1>1. /\ r \in Queues
      /\ DOMAIN r = DOMAIN q \cup {Len(q) + 1}
      /\ Len(q) + 1 \notin DOMAIN q
      /\ r[Len(q) + 1] = e
      /\ \A i \in DOMAIN q : r[i] = q[i]
  BY <1>0, AppendEntry
<1> DEFINE n == Len(q) + 1
<1>a. /\ DOMAIN r = DOMAIN q \cup {n} /\ n \notin DOMAIN q
      /\ r[n].owner = e.owner /\ r[n].state = e.state /\ r[n].msg = e.msg
      /\ \A i \in DOMAIN q : r[i] = q[i]
  BY <1>1
<1> HIDE DEF r, n
<1>2. QueueClaims(r) = QueueClaims(q)
  <2>1. ASSUME NEW k PROVE k \in QueueClaims(r) <=> k \in QueueClaims(q)
    BY <1>1, <1>a, QueueClaimsAt, NoMsgEmpty, SMTT(30)
  <2> QED
    BY <2>1
<1>3. QueueApart(q) => QueueApart(r)
  BY <1>a, NoMsgEmpty DEF QueueApart
<1>4. QueueProper(q) => QueueProper(r)
  BY <1>a, NoMsgEmpty DEF QueueProper
<1>5. ~Holds(q, p) => HoldsOne(r, p)
  BY <1>a DEF Holds, HoldsOne, HeldAt
<1>6. ASSUME NEW o \in Owners \ {p}
      PROVE  SameHolds(q, r, o)
  BY <1>a, SMTT(30) DEF SameHolds, Holds, HoldsOne, HeldAt
<1> QED
  BY <1>0, <1>1, <1>2, <1>3, <1>4, <1>5, <1>6

\* A message sent whole: nobody's held slots change.
LEMMA SendEffect ==
    ASSUME NEW q \in Queues, NEW p \in Owners, NEW m \in Message,
           Proper(m), Claims(m) = {}
    PROVE  LET r == Send(q, p, m)
           IN  /\ r \in Queues
               /\ QueueClaims(r) = QueueClaims(q)
               /\ QueueApart(q) => QueueApart(r)
               /\ QueueProper(q) => QueueProper(r)
               /\ \A o \in Owners : SameHolds(q, r, o)
<1> DEFINE e == [owner |-> p, state |-> Published, msg |-> m]
           r == Append(q, e)
<1>0. e \in Entry(Owners, Message) /\ Send(q, p, m) = r
  BY DEF Entry, Send
<1>1. /\ r \in Queues
      /\ DOMAIN r = DOMAIN q \cup {Len(q) + 1}
      /\ Len(q) + 1 \notin DOMAIN q
      /\ r[Len(q) + 1] = e
      /\ \A i \in DOMAIN q : r[i] = q[i]
  BY <1>0, AppendEntry
<1> DEFINE n == Len(q) + 1
<1>a. /\ DOMAIN r = DOMAIN q \cup {n} /\ n \notin DOMAIN q
      /\ r[n].owner = e.owner /\ r[n].state = e.state /\ r[n].msg = e.msg
      /\ \A i \in DOMAIN q : r[i] = q[i]
  BY <1>1
<1> HIDE DEF r, n
<1>2. QueueClaims(r) = QueueClaims(q)
  <2>1. ASSUME NEW k PROVE k \in QueueClaims(r) <=> k \in QueueClaims(q)
    BY <1>1, <1>a, QueueClaimsAt, SMTT(30)
  <2> QED
    BY <2>1
<1>3. QueueApart(q) => QueueApart(r)
  BY <1>a DEF QueueApart
<1>4. QueueProper(q) => QueueProper(r)
  BY <1>a DEF QueueProper
<1>6. ASSUME NEW o \in Owners
      PROVE  SameHolds(q, r, o)
  BY <1>a, SMTT(30) DEF SameHolds, Holds, HoldsOne, HeldAt, Reserved, Published
<1> QED
  BY <1>0, <1>1, <1>2, <1>3, <1>4, <1>6

\* Inner::pop: the claims split between the message taken and the rest.
LEMMA PopEffect ==
    ASSUME NEW q \in Queues, q # <<>>, Head(q).state # Reserved
    PROVE  LET r == Tail(q)
               m == HeadMsg(q)
           IN  /\ r \in Queues
               /\ m \in Message
               /\ QueueClaims(q) = Claims(m) \cup QueueClaims(r)
               /\ QueueApart(q) => QueueApart(r) /\ Claims(m) \cap QueueClaims(r) = {}
               /\ QueueProper(q) => /\ QueueProper(r) /\ Proper(m)
                                    /\ Head(q).state # Published => Claims(m) = {}
               /\ \A o \in Owners : SameHolds(q, r, o)
<1> DEFINE r == Tail(q)
           m == HeadMsg(q)
<1>1. /\ r \in Queues
      /\ Head(q) \in Entry(Owners, Message)
      /\ 1 \in DOMAIN q /\ q[1] = Head(q)
      /\ \A i \in DOMAIN r : i + 1 \in DOMAIN q /\ i + 1 # 1 /\ r[i] = q[i + 1]
      /\ \A i \in DOMAIN q : i = 1 \/ (i - 1 \in DOMAIN r /\ r[i - 1] = q[i])
  BY TailEntry
<1>2. m = q[1].msg /\ m \in Message
  BY <1>1 DEF HeadMsg, Entry
<1>3. DOMAIN r \subseteq Int /\ DOMAIN q \subseteq Int
  BY <1>1, SeqLen, SMTT(30) DEF Queues
<1> HIDE DEF r, m
<1>4. QueueClaims(q) = Claims(m) \cup QueueClaims(r)
  <2>1. ASSUME NEW k
        PROVE  k \in QueueClaims(q) <=> k \in Claims(m) \/ k \in QueueClaims(r)
    BY <1>1, <1>2, QueueClaimsAt, SMTT(30)
  <2> QED
    BY <2>1
<1>5. QueueApart(q) => QueueApart(r) /\ Claims(m) \cap QueueClaims(r) = {}
  <2> SUFFICES ASSUME QueueApart(q)
               PROVE  QueueApart(r) /\ Claims(m) \cap QueueClaims(r) = {}
    OBVIOUS
  <2>1. ASSUME NEW i \in DOMAIN r, NEW j \in DOMAIN r, i # j
        PROVE  Claims(r[i].msg) \cap Claims(r[j].msg) = {}
    <3>1. i + 1 \in DOMAIN q /\ j + 1 \in DOMAIN q /\ i + 1 # j + 1
      BY <1>1, <1>3, <2>1, SMTT(30)
    <3> QED
      BY <3>1, <1>1 DEF QueueApart
  <2>2. ASSUME NEW i \in DOMAIN r
        PROVE  Claims(m) \cap Claims(r[i].msg) = {}
    BY <1>1, <1>2 DEF QueueApart
  <2> QED
    BY <2>1, <2>2, <1>1, QueueClaimsAt DEF QueueApart
<1>6. QueueProper(q) => /\ QueueProper(r) /\ Proper(m)
                        /\ Head(q).state # Published => Claims(m) = {}
  <2> SUFFICES ASSUME QueueProper(q)
               PROVE  /\ QueueProper(r) /\ Proper(m)
                      /\ Head(q).state # Published => Claims(m) = {}
    OBVIOUS
  <2>1. QueueProper(r)
    BY <1>1 DEF QueueProper
  <2>2. Proper(m) /\ (Head(q).state # Published => Claims(m) = {})
    BY <1>1, <1>2 DEF QueueProper
  <2> QED
    BY <2>1, <2>2
<1>7. ASSUME NEW o \in Owners
      PROVE  SameHolds(q, r, o)
  <2>1. \A i \in DOMAIN q : HeldAt(q, o, i) => i # 1
    BY <1>1 DEF HeldAt
  <2>2. \A i \in DOMAIN r : i + 1 \in DOMAIN q /\ (HeldAt(r, o, i) <=> HeldAt(q, o, i + 1))
    BY <1>1 DEF HeldAt
  <2>3. \A i \in DOMAIN q :
          i # 1 => i - 1 \in DOMAIN r /\ (HeldAt(r, o, i - 1) <=> HeldAt(q, o, i))
    BY <1>1 DEF HeldAt
  <2>4. Holds(r, o) <=> Holds(q, o)
    BY <2>1, <2>2, <2>3 DEF Holds
  <2>5. HoldsOne(q, o) => HoldsOne(r, o)
    BY <2>1, <2>2, <2>3, <1>3, SMTT(30) DEF HoldsOne
  <2> QED
    BY <2>4, <2>5 DEF SameHolds
<1> QED
  BY <1>1, <1>2, <1>4, <1>5, <1>6, <1>7 DEF r, m

LEMMA SettleType ==
    ASSUME NEW q \in Queues, NEW p \in Owners, NEW m \in Message,
           NEW st \in {Published, Cancelled}
    PROVE  Settle(q, p, st, m) \in Queues
<1>1. q \in [1..Len(q) -> Entry(Owners, Message)] /\ Len(q) \in Nat
  BY SeqLen DEF Queues
<1>2. Settle(q, p, st, m) \in [1..Len(q) -> Entry(Owners, Message)]
  BY <1>1 DEF Settle, Entry
<1> QED
  BY <1>1, <1>2, SeqOf DEF Queues

\* Permit::publish and Permit::drop: the slot is no longer held, and the claims
\* of the message it is settled with are added.
LEMMA SettleEffect ==
    ASSUME NEW q \in Queues, NEW p \in Owners, NEW m \in Message,
           NEW st \in {Published, Cancelled}, st # Published => Claims(m) = {},
           HoldsOne(q, p), QueueProper(q), Proper(m)
    PROVE  LET r == Settle(q, p, st, m)
           IN  /\ r \in Queues
               /\ QueueClaims(r) = QueueClaims(q) \cup Claims(m)
               /\ QueueApart(q) /\ Claims(m) \cap QueueClaims(q) = {} => QueueApart(r)
               /\ QueueProper(r)
               /\ ~Holds(r, p)
               /\ \A o \in Owners \ {p} : SameHolds(q, r, o)
<1> DEFINE e == [owner |-> p, state |-> st, msg |-> m]
           r == Settle(q, p, st, m)
<1>0. e \in Entry(Owners, Message)
  BY DEF Entry
<1>1. PICK h \in DOMAIN q : HeldAt(q, p, h) /\ \A j \in DOMAIN q : HeldAt(q, p, j) => j = h
  BY DEF HoldsOne
<1>2. r = [i \in DOMAIN q |-> IF i = h THEN e ELSE q[i]]
  BY <1>1 DEF Settle
<1>3. DOMAIN q = 1..Len(q) /\ Len(q) \in Nat /\ q \in [1..Len(q) -> Entry(Owners, Message)]
  BY SeqLen DEF Queues
<1>4. r \in [1..Len(q) -> Entry(Owners, Message)]
  BY <1>0, <1>2, <1>3
<1>5. r \in Queues
  BY <1>3, <1>4, SeqOf DEF Queues
<1>6. /\ DOMAIN r = DOMAIN q
      /\ r[h].owner = p /\ r[h].state = st /\ r[h].msg = m
      /\ \A i \in DOMAIN q : i # h => r[i] = q[i]
  BY <1>2, SMTT(30)
<1>7. Claims(q[h].msg) = {}
  BY <1>1 DEF QueueProper, HeldAt, Reserved, Published
<1> HIDE DEF r
<1>8. QueueClaims(r) = QueueClaims(q) \cup Claims(m)
  <2>1. ASSUME NEW k
        PROVE  k \in QueueClaims(r) <=> k \in QueueClaims(q) \/ k \in Claims(m)
    BY <1>5, <1>6, <1>7, QueueClaimsAt
  <2> QED
    BY <2>1
<1>9. ASSUME QueueApart(q), Claims(m) \cap QueueClaims(q) = {}
      PROVE  QueueApart(r)
  <2>1. \A i \in DOMAIN q : Claims(q[i].msg) \cap Claims(m) = {}
    BY <1>9, QueueClaimsAt
  <2> QED
    BY <2>1, <1>6, <1>9 DEF QueueApart
<1>10. QueueProper(r)
  BY <1>6, SMTT(30) DEF QueueProper
<1>11. ~Holds(r, p)
  BY <1>1, <1>6 DEF Holds, HeldAt, Published, Cancelled, Reserved
<1>12. ASSUME NEW o \in Owners \ {p} PROVE SameHolds(q, r, o)
  <2>1. \A i \in DOMAIN q : HeldAt(r, o, i) <=> HeldAt(q, o, i)
    BY <1>1, <1>6 DEF HeldAt
  <2> QED
    BY <2>1, <1>6 DEF SameHolds, Holds, HoldsOne
<1> QED
  BY <1>5, <1>8, <1>9, <1>10, <1>11, <1>12 DEF r

\* The same, for the claims alone.
LEMMA SettleClaims ==
    ASSUME NEW q \in Queues, NEW p \in Owners, NEW m \in Message,
           NEW st \in {Published, Cancelled}, st # Published => Claims(m) = {},
           HoldsOne(q, p), QueueProper(q), Proper(m)
    PROVE  QueueClaims(Settle(q, p, st, m)) = QueueClaims(q) \cup Claims(m)
BY SettleEffect, SMTT(30)

(***************************************************************************)
(* Batches.                                                                *)
(***************************************************************************)
LEMMA BatchAppend ==
    ASSUME NEW b \in Seq(Message), NEW m \in Message
    PROVE  /\ Append(b, m) \in Seq(Message)
           /\ BatchClaims(Append(b, m)) = BatchClaims(b) \cup Claims(m)
           /\ BatchApart(b) /\ Claims(m) \cap BatchClaims(b) = {}
                => BatchApart(Append(b, m))
           /\ BatchProper(b) /\ Proper(m) => BatchProper(Append(b, m))
<1> DEFINE r == Append(b, m)
           n == Len(b) + 1
<1>1. /\ r \in Seq(Message)
      /\ DOMAIN r = DOMAIN b \cup {n} /\ n \notin DOMAIN b
      /\ r[n] = m
      /\ \A i \in DOMAIN b : r[i] = b[i]
  BY SeqAppend, SeqLen, SMTT(30)
<1> HIDE DEF r, n
<1>2. BatchClaims(r) = BatchClaims(b) \cup Claims(m)
  <2>1. ASSUME NEW k
        PROVE  k \in BatchClaims(r) <=> k \in BatchClaims(b) \/ k \in Claims(m)
    BY <1>1, BatchClaimsAt
  <2> QED
    BY <2>1
<1>3. ASSUME BatchApart(b), Claims(m) \cap BatchClaims(b) = {}
      PROVE  BatchApart(r)
  <2>1. \A i \in DOMAIN b : Claims(b[i]) \cap Claims(m) = {}
    BY <1>3, BatchClaimsAt
  <2> QED
    BY <1>1, <1>3, <2>1 DEF BatchApart
<1>4. BatchProper(b) /\ Proper(m) => BatchProper(r)
  BY <1>1 DEF BatchProper
<1> QED
  BY <1>1, <1>2, <1>3, <1>4 DEF r

LEMMA NothingBefore == \A c : {<<c, q>> : q \in 1..(1 - 1)} = {}
<1>1. 1..(1 - 1) = {}
  BY SMT
<1> QED
  BY <1>1

LEMMA QueueEmpty == QueueClaims(<<>>) = {} /\ QueueApart(<<>>)
BY SMTT(30) DEF QueueClaims, QueueApart

LEMMA BatchEmpty ==
    /\ <<>> \in Seq(Message) /\ BatchClaims(<<>>) = {}
    /\ BatchApart(<<>>) /\ BatchProper(<<>>)
BY SMTT(30) DEF BatchClaims, BatchApart, BatchProper

\* The first message of a batch.
LEMMA BatchOne ==
    ASSUME NEW m \in Message
    PROVE  /\ <<m>> \in Seq(Message)
           /\ BatchClaims(<<m>>) = Claims(m)
           /\ BatchApart(<<m>>)
           /\ Proper(m) => BatchProper(<<m>>)
BY SMTT(30) DEF BatchClaims, BatchApart, BatchProper

\* What a batch stores and what it reports lost.
LEMMA BatchSplit ==
    ASSUME NEW b \in Seq(Message)
    PROVE  /\ BatchClaims(b) \subseteq Key
           /\ BatchClaims(b) = BatchStores(b) \cup BatchGaps(b)
           /\ BatchApart(b) /\ BatchProper(b) => BatchStores(b) \cap BatchGaps(b) = {}
<1>1. \A i \in DOMAIN b : b[i] \in Message
  BY SeqEntry, SeqLen
<1>2. BatchClaims(b) = BatchStores(b) \cup BatchGaps(b)
  <2>1. ASSUME NEW k
        PROVE  k \in BatchClaims(b) <=> k \in BatchStores(b) \/ k \in BatchGaps(b)
    BY BatchClaimsAt DEF Claims
  <2> QED
    BY <2>1
<1>3. BatchClaims(b) \subseteq Key
  BY <1>1, BatchClaimsAt DEF Claims, Message
<1>4. ASSUME BatchApart(b), BatchProper(b), NEW k \in BatchStores(b) \cap BatchGaps(b)
      PROVE  FALSE
  <2>1. PICK i \in DOMAIN b : k \in b[i].stores
    BY BatchClaimsAt
  <2>2. PICK j \in DOMAIN b : k \in b[j].gaps
    BY BatchClaimsAt
  <2>3. k \in Claims(b[i]) \cap Claims(b[j])
    BY <2>1, <2>2 DEF Claims
  <2>4. i = j
    BY <2>3, <1>4 DEF BatchApart
  <2> QED
    BY <2>1, <2>2, <2>4, <1>4 DEF BatchProper, Proper
<1> QED
  BY <1>2, <1>3, <1>4

(***************************************************************************)
(* Types.                                                                  *)
(***************************************************************************)
\* The positions of a mapped ring are positions.
LEMMA RingPositions ==
    ASSUME TypeInv, NEW c \in Cpus
    PROVE  /\ Mapped(c) \subseteq 1..head[c]
           /\ Mapped(c) \in SUBSET Nat
           /\ TailPos(c) \in Nat \ {0}
           /\ WritePos(c) \in Nat \ {0}
<1>1. head[c] \in Nat /\ Mapped(c) \subseteq 1..head[c]
  BY DEF TypeInv, TypeOK, KernelTypes, RingsBounded, Mapped
<1>2. Mapped(c) \in SUBSET Nat /\ Mapped(c) \in SUBSET (0..head[c])
  BY <1>1, SMTT(30)
<1>3. Mapped(c) # {} => /\ MinOf(Mapped(c)) \in Mapped(c)
                        /\ MaxOf(Mapped(c)) \in Mapped(c)
  BY <1>1, <1>2, MinExists, MaxExists
<1> QED
  BY <1>1, <1>2, <1>3, SMTT(30) DEF TailPos, WritePos

\* The lists of shards are not empty.
LEMMA ListsNotEmpty ==
    /\ \A c \in Cpus : ShardOrder[c] \in Seq(Shards) /\ Len(ShardOrder[c]) \in Nat \ {0}
    /\ ShardSeq \in Seq(Shards) /\ Len(ShardSeq) \in Nat \ {0}
BY RoutingAssumption, ShardSeqAssumption, SeqLen, SMTT(30)

\* The shards that a drain and the supervisor address.
LEMMA Addressed ==
    ASSUME TypeInv
    PROVE  /\ \A c \in Cpus : /\ CurrentShard(c) \in Shards
                              /\ ShardOrder[c][mark[c] + 1] \in Shards
           /\ ShardSeq[smark + 1] \in Shards
<1>1. ASSUME NEW c \in Cpus
      PROVE  /\ CurrentShard(c) \in Shards
             /\ ShardOrder[c][mark[c] + 1] \in Shards
  <2>1. ShardOrder[c] \in Seq(Shards) /\ Len(ShardOrder[c]) \in Nat \ {0}
    BY ListsNotEmpty
  <2>2. router[c] \in [index : Nat \ {0}, sent : Nat] /\ mark[c] \in Nat
    BY DEF TypeInv, TypeOK, DrainTypes
  <2>3. router[c].index \in 1..Len(ShardOrder[c])
    BY <2>1, <2>2, SMTT(30) DEF TypeInv, InRange
  <2>4. mark[c] + 1 \in 1..Len(ShardOrder[c])
    BY <2>1, <2>2, SMTT(30) DEF TypeInv, InRange
  <2> QED
    BY <2>1, <2>3, <2>4, SeqEntry DEF CurrentShard
<1>3. smark + 1 \in 1..Len(ShardSeq)
  BY ListsNotEmpty, SMTT(30) DEF TypeInv, TypeOK, SuperTypes, InRange
<1> QED
  BY <1>1, <1>3, ListsNotEmpty, SeqEntry

\* Variables that do not change keep their types.
LEMMA Frame ==
    ASSUME TypeInv
    PROVE  /\ UNCHANGED kernelVars => KernelTypes' /\ RingsBounded'
           /\ UNCHANGED storeVars => StoreTypes'
           /\ UNCHANGED chanVars => ChanTypes'
           /\ UNCHANGED drainVars => DrainTypes'
           /\ UNCHANGED writerVars => WriterTypes'
           /\ UNCHANGED superVars => SuperTypes'
           /\ UNCHANGED <<router, mark, smark>> => InRange'
           /\ UNCHANGED budget => budget' \in [Faults -> Nat]
           /\ \A f : Spend(f) => budget' \in [Faults -> Nat]
<1>1. UNCHANGED kernelVars => KernelTypes' /\ RingsBounded'
  BY DEF TypeInv, TypeOK, kernelVars, KernelTypes, RingsBounded
<1>2. UNCHANGED storeVars => StoreTypes'
  BY DEF TypeInv, TypeOK, storeVars, StoreTypes
<1>3. UNCHANGED chanVars => ChanTypes'
  BY DEF TypeInv, TypeOK, chanVars, ChanTypes
<1>4. UNCHANGED drainVars => DrainTypes'
  BY DEF TypeInv, TypeOK, drainVars, DrainTypes
<1>5. UNCHANGED writerVars => WriterTypes'
  BY DEF TypeInv, TypeOK, writerVars, WriterTypes
<1>6. UNCHANGED superVars => SuperTypes'
  BY DEF TypeInv, TypeOK, superVars, SuperTypes
<1>7. UNCHANGED <<router, mark, smark>> => InRange'
  BY DEF TypeInv, InRange
<1>8. UNCHANGED budget => budget' \in [Faults -> Nat]
  BY DEF TypeInv, TypeOK
<1>9. ASSUME NEW f, Spend(f) PROVE budget' \in [Faults -> Nat]
  BY <1>9, SMTT(30) DEF TypeInv, TypeOK, Spend
<1> QED
  BY <1>1, <1>2, <1>3, <1>4, <1>5, <1>6, <1>7, <1>8, <1>9

\* What a drain starts with has its type.
LEMMA FreshDrain ==
    NoEvent \in Verdict /\ NewRouter \in [index : Nat \ {0}, sent : Nat]
BY SMTT(30) DEF NoEvent, Verdict, NewRouter

LEMMA TypeInit == Init => TypeInv
<1> SUFFICES ASSUME Init PROVE TypeInv
  OBVIOUS
<1>1. KernelTypes /\ StoreTypes /\ SuperTypes /\ RingsBounded
  BY DEF Init, KernelTypes, StoreTypes, SuperTypes, Phases, RingsBounded
<1>2. ChanTypes /\ WriterTypes
  BY NoMsgEmpty, SMTT(30) DEF Init, ChanTypes, WriterTypes, WriterLabels
<1>3. DrainTypes
  <2>1. /\ dpc \in [Cpus -> DrainLabels] /\ pos \in [Cpus -> Nat \ {0}]
        /\ next \in [Cpus -> Nat \ {0}] /\ last \in [Cpus -> Nat]
    BY SMTT(30) DEF Init, DrainLabels
  <2>2. /\ cur \in [Cpus -> Verdict]
        /\ router \in [Cpus -> [index : Nat \ {0}, sent : Nat]]
    BY FreshDrain DEF Init
  <2>3. /\ recovered \in [Cpus -> BOOLEAN] /\ final \in [Cpus -> Nat]
        /\ boundary \in [Cpus -> Nat \ {0}] /\ base \in [Cpus -> BOOLEAN]
    BY SMTT(30) DEF Init
  <2>4. mark \in [Cpus -> Nat] /\ note \in [Cpus -> {"none", "recovered", "failed"}]
    BY DEF Init
  <2> QED
    BY <2>1, <2>2, <2>3, <2>4 DEF DrainTypes
<1>4. InRange
  BY ListsNotEmpty, SMTT(30) DEF Init, InRange, NewRouter
<1>5. budget \in [Faults -> Nat]
  BY ConstantsAssumption DEF Init
<1> QED
  BY <1>1, <1>2, <1>3, <1>4, <1>5 DEF TypeInv, TypeOK

(***************************************************************************)
(* The kernel.                                                             *)
(***************************************************************************)
LEMMA TypeKernel == TypeInv /\ Kernel => TypeInv'
<1> SUFFICES ASSUME TypeInv, NEW c \in Cpus,
                    Emit(c) \/ StructuralDrop(c) \/ Resize(c)
             PROVE  TypeInv'
  BY DEF Kernel
<1> USE DEF TypeInv, TypeOK
<1>1. /\ UNCHANGED <<storeVars, chanVars, drainVars, writerVars, superVars>>
      /\ budget' \in [Faults -> Nat]
  BY Frame DEF Emit, StructuralDrop, Resize
<1>2. InRange'
  BY <1>1, Frame DEF drainVars, superVars
<1>3. KernelTypes' /\ RingsBounded'
  <2>1. CASE Emit(c)
    BY <2>1, SMTT(30) DEF Emit, KernelTypes, RingsBounded
  <2>2. CASE StructuralDrop(c)
    BY <2>2, SMTT(30) DEF StructuralDrop, KernelTypes, RingsBounded
  <2>3. CASE Resize(c)
    <3>1. PICK k : ring' = [ring EXCEPT ![c] = {n \in ring[c] : k <= n}]
      BY <2>3 DEF Resize
    <3>2. /\ ring' \in [Cpus -> SUBSET (Nat \ {0})]
          /\ \A d \in Cpus : ring'[d] \subseteq ring[d]
      BY <3>1 DEF KernelTypes
    <3>3. /\ head' = head
          /\ stale' \in [Cpus -> BOOLEAN] /\ frozen' \in [Cpus -> SUBSET (Nat \ {0})]
          /\ \A d \in Cpus : frozen'[d] = frozen[d] \/ frozen'[d] = ring[d]
      BY <2>3 DEF Resize, KernelTypes
    <3> QED
      BY <3>2, <3>3 DEF KernelTypes, RingsBounded
  <2> QED
    BY <2>1, <2>2, <2>3
<1> QED
  BY <1>1, <1>2, <1>3, Frame

\* The kernel assigns one sequence at a time, and what a drain has mapped gains
\* that sequence at most.
LEMMA KernelAssigns ==
    ASSUME KernelTypes, Kernel, NEW c \in Cpus, phase # "down"
    PROVE  /\ head'[c] \in Nat /\ head'[c] >= head[c]
           /\ Mapped(c)' \subseteq Mapped(c) \cup {head[c] + 1}
<1>0. /\ head \in [Cpus -> Nat] /\ stale \in [Cpus -> BOOLEAN]
      /\ ring \in [Cpus -> SUBSET (Nat \ {0})] /\ frozen \in [Cpus -> SUBSET (Nat \ {0})]
  BY DEF KernelTypes
<1>1. PICK d \in Cpus : Emit(d) \/ StructuralDrop(d) \/ Resize(d)
  BY DEF Kernel
<1>2. CASE Emit(d)
  BY <1>0, <1>2, SMTT(30) DEF Emit, Mapped
<1>3. CASE StructuralDrop(d)
  BY <1>0, <1>3, SMTT(30) DEF StructuralDrop, Mapped
<1>4. CASE Resize(d)
  BY <1>0, <1>4, SMTT(30) DEF Resize, Mapped
<1> QED
  BY <1>1, <1>2, <1>3, <1>4

\* In any phase the heads only grow.
LEMMA KernelHeads ==
    ASSUME KernelTypes, Kernel, NEW c \in Cpus
    PROVE  head'[c] \in Nat /\ head'[c] >= head[c]
<1>0. head \in [Cpus -> Nat]
  BY DEF KernelTypes
<1>1. PICK d \in Cpus : head' = head \/ head' = [head EXCEPT ![d] = @ + 1]
  BY DEF Kernel, Emit, StructuralDrop, Resize
<1> QED
  BY <1>0, <1>1, SMTT(30)

(***************************************************************************)
(* The drain threads.                                                      *)
(***************************************************************************)
\* An observation is a verdict, and moving past it keeps positions positive.
LEMMA ObserveType ==
    ASSUME TypeInv, NEW c \in Cpus, NEW q \in Nat \ {0}
    PROVE  Observe(c, q) \in Verdict /\ NextAfter(c, q) \in Nat \ {0}
<1>1. next[c] \in Nat \ {0}
  BY DEF TypeInv, TypeOK, DrainTypes
<1>2. UncoveredGaps(c, q) \in SUBSET Key
  <2>1. \A n \in next[c]..(q - 1) : n \in Nat \ {0}
    BY <1>1, SMTT(30)
  <2> QED
    BY <2>1, SMTT(30) DEF UncoveredGaps, Key
<1>3. NextAfter(c, q) \in Nat \ {0}
  BY <1>1, SMTT(30) DEF NextAfter
<1>4. Covered(c, q) \in BOOLEAN
  BY SMTT(30) DEF Covered
<1>5. Observe(c, q) \in Verdict
  <2>1. \A gaps \in SUBSET Key, store \in BOOLEAN :
          [seq |-> q, gaps |-> gaps, store |-> store, torn |-> FALSE] \in Verdict
    BY DEF Verdict
  <2> QED
    BY <1>2, <1>4, <2>1 DEF Observe
<1> QED
  BY <1>3, <1>5

LEMMA RouterType ==
    ASSUME NEW r \in [index : Nat \ {0}, sent : Nat], NEW n \in Nat \ {0}, r.index <= n
    PROVE  /\ Advance(r, n) \in [index : Nat \ {0}, sent : Nat]
           /\ Advance(r, n).index <= n
<1>1. (r.index % n) \in 0..(n - 1)
  BY SMTT(30)
<1>2. r.index = n => r.index % n = 0
  BY SMTT(30)
<1> QED
  BY <1>1, <1>2, SMTT(30) DEF Advance

LEMMA TypeDrain ==
    ASSUME TypeInv, NEW c \in Cpus, DrainStep(c) \/ DrainFault(c)
    PROVE  TypeInv'
<1> USE DEF TypeInv, TypeOK
<1>0. /\ Mapped(c) \in SUBSET Nat /\ Mapped(c) \subseteq 1..head[c]
      /\ TailPos(c) \in Nat \ {0} /\ WritePos(c) \in Nat \ {0}
  BY RingPositions
<1>1. CASE DrainStart(c)
  <2>1. DrainTypes'
    BY <1>0, <1>1 DEF DrainStart, Goto, DrainTypes, DrainLabels, KernelTypes
  <2> QED
    BY <1>1, <2>1, Frame DEF DrainStart, superVars
<1>2. CASE DrainTop(c)
  <2>1. DrainTypes'
    BY <1>0, <1>2, SMTT(30) DEF DrainTop, Goto, DrainTypes, DrainLabels
  <2> QED
    BY <1>2, <2>1, Frame DEF DrainTop, superVars
<1>3. CASE DrainScan(c)
  <2>1. Unread(c) \in SUBSET Nat /\ Unread(c) \subseteq 1..head[c]
    BY <1>0 DEF Unread
  <2>2. ASSUME Unread(c) # {}
        PROVE  MinOf(Unread(c)) \in Nat \ {0}
    <3>1. MinOf(Unread(c)) \in Unread(c)
      BY <2>1, <2>2, MinExists
    <3> QED
      BY <2>1, <3>1, SMTT(30)
  <2>3. pos' \in [Cpus -> Nat \ {0}]
    BY <1>0, <1>3, <2>2, SMTT(30) DEF DrainScan, DrainTypes
  <2>4. dpc' \in [Cpus -> DrainLabels]
    BY <1>3, SMTT(30) DEF DrainScan, Goto, DrainTypes, DrainLabels
  <2>5. DrainTypes'
    BY <1>3, <2>3, <2>4 DEF DrainScan, DrainTypes
  <2> QED
    BY <1>3, <2>5, Frame DEF DrainScan, superVars
<1>r. CASE DrainRead(c)
  <2>1. PICK q \in IF Lapped(c, pos[c]) THEN Stray(c) ELSE {pos[c]} :
          \/ Goto(c, "failed") /\ UNCHANGED cur
          \/ cur' = [cur EXCEPT ![c] = Observe(c, q)] /\ Goto(c, "observed")
    BY <1>r DEF DrainRead
  <2>2. q \in Nat \ {0}
    BY <2>1, SMTT(30) DEF Stray, DrainTypes
  <2>3. Observe(c, q) \in Verdict
    BY <2>2, ObserveType
  <2>4. cur' \in [Cpus -> Verdict]
    BY <2>1, <2>3 DEF DrainTypes
  <2>5. dpc' \in [Cpus -> DrainLabels]
    BY <2>1 DEF Goto, DrainTypes, DrainLabels
  <2>6. DrainTypes'
    BY <1>r, <2>4, <2>5 DEF DrainRead, DrainTypes
  <2> QED
    BY <1>r, <2>6, Frame DEF DrainRead, superVars
<1>m. ASSUME MovePast(c, cur[c].seq)
      PROVE  /\ pos' \in [Cpus -> Nat \ {0}]
             /\ last' \in [Cpus -> Nat]
             /\ next' \in [Cpus -> Nat \ {0}]
  <2>1. cur[c].seq \in Nat /\ next[c] \in Nat \ {0}
    BY DEF DrainTypes, Verdict
  <2> QED
    BY <1>m, <2>1, SMTT(30) DEF MovePast, NextAfter, DrainTypes
<1>n. NoEvent \in Verdict
  BY DEF NoEvent, Verdict
<1>4. CASE DrainSkip(c)
  <2>1. /\ pos' \in [Cpus -> Nat \ {0}]
        /\ last' \in [Cpus -> Nat]
        /\ next' \in [Cpus -> Nat \ {0}]
    BY <1>4, <1>m DEF DrainSkip, DrainTypes
  <2>2. cur' \in [Cpus -> Verdict] /\ dpc' \in [Cpus -> DrainLabels]
    BY <1>4, <1>n DEF DrainSkip, Goto, DrainTypes, DrainLabels
  <2>3. DrainTypes'
    BY <1>4, <2>1, <2>2 DEF DrainSkip, DrainTypes
  <2> QED
    BY <1>4, <2>3, Frame DEF DrainSkip, superVars
<1>5. CASE DrainReserve(c)
  <2>1. DrainTypes'
    BY <1>5 DEF DrainReserve, Goto, DrainTypes, DrainLabels
  <2>2. CurrentShard(c) \in Shards /\ c \in Owners
    BY Addressed DEF Owners
  <2>3. queue[CurrentShard(c)] \in Queues
    BY <2>2 DEF ChanTypes, Queues
  <2>4. Claim(queue[CurrentShard(c)], c, NoMsg) \in Queues
    BY <2>2, <2>3, ClaimEffect
  <2>5. ChanTypes'
    BY <1>5, <2>4 DEF DrainReserve, ChanTypes, Queues
  <2> QED
    BY <1>5, <2>1, <2>5, Frame DEF DrainReserve, superVars
<1>6. CASE DrainCopy(c)
  <2>1. cur' \in [Cpus -> Verdict]
    <3>1. cur[c] \in Verdict /\ Lapped(c, pos[c]) \in BOOLEAN
      BY DEF DrainTypes, Lapped
    <3>2. [cur[c] EXCEPT !.torn = Lapped(c, pos[c])] \in Verdict
      BY <3>1 DEF Verdict
    <3>3. cur' = [cur EXCEPT ![c] = [cur[c] EXCEPT !.torn = Lapped(c, pos[c])]]
      BY <1>6 DEF DrainCopy
    <3> QED
      BY <3>2, <3>3 DEF DrainTypes
  <2>2. DrainTypes'
    BY <1>6, <2>1 DEF DrainCopy, Goto, DrainTypes, DrainLabels
  <2> QED
    BY <1>6, <2>2, Frame DEF DrainCopy, superVars
<1>7. CASE DrainSettle(c)
  <2> DEFINE s == CurrentShard(c)
             r == Advance(router[c], Len(ShardOrder[c]))
  <2>1. router[c] \in [index : Nat \ {0}, sent : Nat] /\ router[c].index <= Len(ShardOrder[c])
    BY DEF DrainTypes, InRange
  <2>2. r \in [index : Nat \ {0}, sent : Nat] /\ r.index <= Len(ShardOrder[c])
    BY <2>1, ListsNotEmpty, RouterType
  <2>3. router' = router \/ router' = [router EXCEPT ![c] = r]
    BY <1>7 DEF DrainSettle
  <2> HIDE DEF r
  <2>4. router' \in [Cpus -> [index : Nat \ {0}, sent : Nat]]
    BY <2>2, <2>3 DEF DrainTypes
  <2>5. /\ pos' \in [Cpus -> Nat \ {0}]
        /\ last' \in [Cpus -> Nat]
        /\ next' \in [Cpus -> Nat \ {0}]
    BY <1>7, <1>m DEF DrainSettle, DrainTypes
  <2>6. cur' \in [Cpus -> Verdict] /\ dpc' \in [Cpus -> DrainLabels]
    BY <1>7, <1>n DEF DrainSettle, Goto, DrainTypes, DrainLabels
  <2>7. DrainTypes'
    BY <1>7, <2>4, <2>5, <2>6 DEF DrainSettle, DrainTypes
  <2>8. InRange'
    BY <1>7, <2>2, <2>3 DEF DrainSettle, InRange, DrainTypes, superVars
  <2>9. s \in Shards /\ c \in Owners
    BY Addressed DEF Owners
  <2>10. Handoff(c) \in Message
    <3>1. cur[c] \in Verdict
      BY DEF DrainTypes
    <3>2. cur[c].store => <<c, cur[c].seq>> \in Key
      BY <3>1 DEF Verdict, Key
    <3> QED
      BY <2>9, <3>1, <3>2 DEF Handoff, EventMsg, Message, Verdict
  <2>11. ChanTypes'
    <3>1. queue[s] \in Queues
      BY <2>9 DEF ChanTypes, Queues
    <3>2. /\ Cancel(queue[s], c, NoMsg) \in Queues
          /\ Publish(queue[s], c, Handoff(c)) \in Queues
      BY <2>9, <2>10, <3>1, SettleType, NoMsgEmpty DEF Cancel, Publish
    <3> QED
      BY <1>7, <2>9, <3>2 DEF DrainSettle, ChanTypes, Queues
  <2> QED
    BY <1>7, <2>7, <2>8, <2>11, Frame DEF DrainSettle
<1>8. CASE DrainCycleEnd(c)
  <2>1. DrainTypes'
    BY <1>8 DEF DrainCycleEnd, AfterRecovery, Goto, DrainTypes, DrainLabels
  <2>2. KernelTypes' /\ RingsBounded'
    BY <1>8 DEF DrainCycleEnd, KernelTypes, RingsBounded
  <2> QED
    BY <1>8, <2>1, <2>2, Frame DEF DrainCycleEnd, superVars
<1>9. CASE DrainSwap(c)
  <2> DEFINE newer == {q \in Mapped(c) : q > last[c]}
  <2>1. newer # {} => MinOf(newer) \in Nat \ {0}
    <3>1. newer \in SUBSET Nat /\ newer \subseteq 1..head[c]
      BY <1>0
    <3> QED
      BY <3>1, MinExists, SMTT(30)
  <2>2. pos' \in [Cpus -> Nat \ {0}]
    BY <1>0, <1>9, <2>1 DEF DrainSwap, ResumeAt, DrainTypes
  <2>3. DrainTypes'
    BY <1>0, <1>9, <2>2 DEF DrainSwap, Goto, DrainTypes, DrainLabels, KernelTypes
  <2> QED
    BY <1>9, <2>3, Frame DEF DrainSwap, superVars
<1>10. CASE DrainMark(c)
  <2> DEFINE s == ShardOrder[c][mark[c] + 1]
  <2>1. dpc' \in [Cpus -> DrainLabels]
    BY <1>10 DEF DrainMark, Goto, DrainTypes, DrainLabels
  <2>2. note' \in [Cpus -> {"none", "recovered", "failed"}]
    BY <1>10 DEF DrainMark, Notify, DrainTypes
  <2>3. /\ mark' \in [Cpus -> Nat]
        /\ \A d \in Cpus : mark'[d] < Len(ShardOrder[d])
    <3>1. mark[c] \in Nat /\ Len(ShardOrder[c]) \in Nat \ {0} /\ mark[c] < Len(ShardOrder[c])
      BY ListsNotEmpty DEF DrainTypes, InRange
    <3>2. mark' = mark \/ \E n \in 0..(Len(ShardOrder[c]) - 1) : mark' = [mark EXCEPT ![c] = n]
      <4> DEFINE n == IF mark[c] + 1 = Len(ShardOrder[c]) THEN 0 ELSE mark[c] + 1
      <4>1. mark' = mark \/ mark' = [mark EXCEPT ![c] = n]
        BY <1>10 DEF DrainMark
      <4>2. n \in 0..(Len(ShardOrder[c]) - 1)
        BY <3>1, SMTT(30)
      <4> QED
        BY <4>1, <4>2
    <3>3. mark \in [Cpus -> Nat] /\ \A d \in Cpus : mark[d] < Len(ShardOrder[d])
      BY DEF DrainTypes, InRange
    <3> QED
      BY <3>1, <3>2, <3>3, SMTT(30)
  <2>4. DrainTypes'
    BY <1>10, <2>1, <2>2, <2>3 DEF DrainMark, DrainTypes
  <2>5. InRange'
    BY <1>10, <2>3 DEF DrainMark, InRange, superVars
  <2>6. s \in Shards /\ c \in Owners
    BY Addressed DEF Owners
  <2>7. ChanTypes'
    <3>1. queue[s] \in Queues
      BY <2>6 DEF ChanTypes, Queues
    <3>2. Send(queue[s], c, Control("barrier", c)) \in Queues
      BY <2>6, <3>1, SendEffect, NoMsgEmpty
    <3> QED
      BY <1>10, <2>6, <3>2 DEF DrainMark, ChanTypes, Queues
  <2> QED
    BY <1>10, <2>4, <2>5, <2>7, Frame DEF DrainMark
<1>11. CASE DrainAck(c)
  <2>1. dpc' \in [Cpus -> DrainLabels]
    BY <1>11 DEF DrainAck, AfterRecovery, Goto, DrainTypes, DrainLabels
  <2>2. note' \in [Cpus -> {"none", "recovered", "failed"}]
    BY <1>11 DEF DrainAck, Notify, DrainTypes
  <2>3. /\ mark' \in [Cpus -> Nat]
        /\ \A d \in Cpus : mark'[d] < Len(ShardOrder[d])
    <3>1. mark[c] \in Nat /\ Len(ShardOrder[c]) \in Nat \ {0} /\ mark[c] < Len(ShardOrder[c])
      BY ListsNotEmpty DEF DrainTypes, InRange
    <3>2. mark' = mark \/ \E n \in 0..(Len(ShardOrder[c]) - 1) : mark' = [mark EXCEPT ![c] = n]
      <4> DEFINE n == IF mark[c] + 1 = Len(ShardOrder[c]) THEN 0 ELSE mark[c] + 1
      <4>1. mark' = mark \/ mark' = [mark EXCEPT ![c] = n]
        BY <1>11 DEF DrainAck
      <4>2. n \in 0..(Len(ShardOrder[c]) - 1)
        BY <3>1, SMTT(30)
      <4> QED
        BY <4>1, <4>2
    <3>3. mark \in [Cpus -> Nat] /\ \A d \in Cpus : mark[d] < Len(ShardOrder[d])
      BY DEF DrainTypes, InRange
    <3> QED
      BY <3>1, <3>2, <3>3, SMTT(30)
  <2>4. recovered' \in [Cpus -> BOOLEAN]
    BY <1>11 DEF DrainAck, DrainTypes
  <2>5. DrainTypes'
    BY <1>11, <2>1, <2>2, <2>3, <2>4 DEF DrainAck, DrainTypes
  <2>6. InRange'
    BY <1>11, <2>3 DEF DrainAck, InRange, superVars
  <2>7. ChanTypes'
    BY <1>11 DEF DrainAck, ChanTypes
  <2> QED
    BY <1>11, <2>5, <2>6, <2>7, Frame DEF DrainAck
<1>12. CASE DrainFault(c)
  <2>1. DrainTypes'
    BY <1>12 DEF DrainFault, Goto, DrainTypes, DrainLabels
  <2> QED
    BY <1>12, <2>1, Frame DEF DrainFault, superVars
<1> QED
  BY <1>1, <1>2, <1>3, <1>r, <1>4, <1>5, <1>6, <1>7, <1>8, <1>9, <1>10, <1>11, <1>12
     DEF DrainStep
(***************************************************************************)
(* The writers.                                                            *)
(***************************************************************************)
LEMMA StoreEffects ==
    ASSUME StoreTypes, NEW s \in Shards, NEW st \in SUBSET Key, NEW gs \in SUBSET Key
    PROVE  /\ Record(s, st, gs) => StoreTypes'
           /\ Quarantine(s, st) => StoreTypes'
           /\ AfterFatal(s, st, gs) => StoreTypes'
<1>1. ASSUME NEW a \in SUBSET Key, NEW b \in SUBSET Key, Record(s, a, b) PROVE StoreTypes'
  BY <1>1 DEF Record, StoreTypes
<1>2. ASSUME NEW a \in SUBSET Key, Quarantine(s, a) PROVE StoreTypes'
  BY <1>2 DEF Quarantine, StoreTypes
<1> QED
  BY <1>1, <1>2 DEF AfterFatal

LEMMA RetainTypes ==
    ASSUME StoreTypes, NEW s \in Shards, RetainRows(s)
    PROVE  StoreTypes'
<1>1. PICK old \in SUBSET (rows[s] \cup lost[s]) : DeleteEvents(s, old)
  BY DEF RetainRows
<1>2. old \in SUBSET Key
  BY <1>1 DEF StoreTypes
<1> QED
  BY <1>1, <1>2 DEF DeleteEvents, StoreTypes

LEMMA HandledTypes ==
    ASSUME ChanTypes, WriterTypes, NEW s \in Shards, NEW ok \in BOOLEAN, Handled(s, ok),
           UNCHANGED <<queue, closed, batch, pending, dropped>>
    PROVE  ChanTypes' /\ WriterTypes'
<1>1. ctl[s] \in Message /\ ctl[s].from \in Owners
  BY DEF WriterTypes, Message
<1>2. ChanTypes'
  BY <1>1, SMTT(30) DEF Handled, Reply, ChanTypes
<1>3. WriterTypes'
  BY NoMsgEmpty DEF Handled, Enter, WriterTypes, WriterLabels
<1> QED
  BY <1>2, <1>3

LEMMA FailTypes ==
    ASSUME ChanTypes, WriterTypes, SuperTypes, NEW s \in Shards, Fail(s),
           UNCHANGED <<queue, phase, coverage, smark>>
    PROVE  ChanTypes' /\ WriterTypes' /\ SuperTypes'
<1>1. /\ ctl[s] \in Message /\ ctl[s].from \in Owners
      /\ batch[s] \in Seq(Message) /\ BatchClaims(batch[s]) \in SUBSET Key
  BY BatchSplit DEF WriterTypes, Message
<1>2. ChanTypes'
  <2>1. <<ctl[s].from, s, FALSE>> \in Owners \X Shards \X BOOLEAN
    BY <1>1
  <2>2. replies' \in SUBSET (Owners \X Shards \X BOOLEAN)
    BY <2>1 DEF Fail, Reply, ChanTypes
  <2> QED
    BY <2>2 DEF Fail, ChanTypes
<1>3. WriterTypes'
  BY <1>1, NoMsgEmpty, BatchEmpty DEF Fail, Enter, WriterTypes, WriterLabels
<1>4. SuperTypes'
  BY DEF Fail, SuperTypes
<1> QED
  BY <1>2, <1>3, <1>4

LEMMA TypeWriter ==
    ASSUME TypeInv, NEW s \in Shards, WriterStep(s) \/ WriterFault(s)
    PROVE  TypeInv'
<1> USE DEF TypeInv, TypeOK
<1>a. UNCHANGED drainVars /\ UNCHANGED superVars => InRange'
  BY Frame DEF drainVars, superVars
<1>b. UNCHANGED drainVars /\ UNCHANGED smark => InRange'
  BY Frame DEF drainVars
<1>c. /\ queue[s] \in Queues /\ batch[s] \in Seq(Message) /\ ctl[s] \in Message
      /\ BatchClaims(batch[s]) \in SUBSET Key
      /\ BatchStores(batch[s]) \in SUBSET Key
      /\ BatchGaps(batch[s]) \in SUBSET Key
      /\ pending[s] \in SUBSET Key
  <2>1. queue[s] \in Queues /\ batch[s] \in Seq(Message) /\ ctl[s] \in Message
        /\ pending[s] \in SUBSET Key
    BY DEF ChanTypes, WriterTypes, Queues
  <2>2. BatchClaims(batch[s]) = BatchStores(batch[s]) \cup BatchGaps(batch[s])
        /\ BatchClaims(batch[s]) \subseteq Key
    BY <2>1, BatchSplit
  <2> QED
    BY <2>1, <2>2
<1>d. ASSUME Pop(s), queue[s] # <<>>
      PROVE  /\ queue' \in [Shards -> Seq(Entry(Owners, Message))]
             /\ HeadMsg(queue[s]) \in Message
             /\ HeadMsg(queue[s]).from \in Owners
             /\ Claims(HeadMsg(queue[s])) \in SUBSET Key
  <2>1. Tail(queue[s]) \in Queues /\ Head(queue[s]) \in Entry(Owners, Message)
    BY <1>c, <1>d, TailEntry
  <2>2. HeadMsg(queue[s]) \in Message
    BY <2>1 DEF HeadMsg, Entry
  <2>3. queue' \in [Shards -> Seq(Entry(Owners, Message))]
    BY <1>d, <2>1 DEF Pop, ChanTypes, Queues
  <2> QED
    BY <2>2, <2>3 DEF Message, Claims
<1>1. CASE SkipCancelled(s)
  <2>1. ChanTypes'
    BY <1>1, <1>d DEF SkipCancelled, HeadIs, ChanTypes
  <2> QED
    BY <1>1, <1>a, <2>1, Frame DEF SkipCancelled
<1>2. CASE PopFirst(s)
  <2>1. ChanTypes'
    BY <1>2, <1>d DEF PopFirst, HeadIs, ChanTypes
  <2>2. WriterTypes'
    BY <1>2, <1>d, BatchOne DEF PopFirst, HeadIs, Enter, WriterTypes, WriterLabels
  <2> QED
    BY <1>2, <1>a, <2>1, <2>2, Frame DEF PopFirst
<1>3. CASE PopMore(s)
  <2>1. ChanTypes'
    BY <1>3, <1>d DEF PopMore, HeadIs, ChanTypes
  <2>2. WriterTypes'
    BY <1>3, <1>c, <1>d, BatchAppend DEF PopMore, HeadIs, Commit, Enter, WriterTypes,
            WriterLabels
  <2> QED
    BY <1>3, <1>a, <2>1, <2>2, Frame DEF PopMore
<1>4. CASE CloseBatch(s)
  <2>1. WriterTypes'
    BY <1>4 DEF CloseBatch, Commit, Enter, WriterTypes, WriterLabels
  <2> QED
    BY <1>4, <1>a, <2>1, Frame DEF CloseBatch
<1>5. CASE GapsCommitted(s)
  <2>1. StoreTypes'
    BY <1>5, <1>c, StoreEffects DEF GapsCommitted
  <2>2. WriterTypes'
    BY <1>5 DEF GapsCommitted, Enter, WriterTypes, WriterLabels
  <2> QED
    BY <1>5, <1>a, <2>1, <2>2, Frame DEF GapsCommitted
<1>r. ASSUME RecordLost(s), Enter(s, AfterBatch(s)), UNCHANGED <<ctl, dropped>>
      PROVE  WriterTypes'
  BY <1>r, <1>c, BatchEmpty DEF RecordLost, AfterBatch, Enter, WriterTypes, WriterLabels
<1>6. CASE GapsRefused(s)
  <2>1. WriterTypes'
    BY <1>6, <1>r DEF GapsRefused
  <2> QED
    BY <1>6, <1>a, <2>1, Frame DEF GapsRefused
<1>7. CASE GapsCorrupt(s)
  <2>1. StoreTypes'
    BY <1>7, <1>c, StoreEffects DEF GapsCorrupt
  <2>2. WriterTypes'
    BY <1>7 DEF GapsCorrupt, Enter, WriterTypes, WriterLabels
  <2> QED
    BY <1>7, <1>a, <2>1, <2>2, Frame DEF GapsCorrupt
<1>8. CASE GapsFatal(s)
  <2>1. StoreTypes'
    BY <1>8, <1>c, StoreEffects DEF GapsFatal
  <2>2. ChanTypes' /\ WriterTypes' /\ SuperTypes'
    BY <1>8, FailTypes DEF GapsFatal
  <2> QED
    BY <1>8, <1>b, <2>1, <2>2, Frame DEF GapsFatal
<1>9. CASE RowsCommitted(s)
  <2>1. StoreTypes'
    BY <1>9, <1>c, StoreEffects DEF RowsCommitted
  <2>2. WriterTypes'
    BY <1>9, BatchEmpty DEF RowsCommitted, AfterBatch, Enter, WriterTypes, WriterLabels
  <2> QED
    BY <1>9, <1>a, <2>1, <2>2, Frame DEF RowsCommitted
<1>10. CASE RowsRefused(s)
  <2>1. WriterTypes'
    BY <1>10, <1>r DEF RowsRefused
  <2> QED
    BY <1>10, <1>a, <2>1, Frame DEF RowsRefused
<1>11. CASE RowsCorrupt(s)
  <2>1. StoreTypes'
    BY <1>11, <1>c, StoreEffects DEF RowsCorrupt
  <2>2. WriterTypes'
    BY <1>11, <1>r DEF RowsCorrupt
  <2> QED
    BY <1>11, <1>a, <2>1, <2>2, Frame DEF RowsCorrupt
<1>12. CASE RowsFatal(s)
  <2>1. StoreTypes'
    BY <1>12, <1>c, StoreEffects DEF RowsFatal
  <2>2. ChanTypes' /\ WriterTypes' /\ SuperTypes'
    BY <1>12, FailTypes DEF RowsFatal
  <2> QED
    BY <1>12, <1>b, <2>1, <2>2, Frame DEF RowsFatal
<1>13. CASE BarrierReached(s)
  <2>1. ChanTypes' /\ WriterTypes'
    BY <1>13, HandledTypes DEF BarrierReached
  <2> QED
    BY <1>13, <1>a, <2>1, Frame DEF BarrierReached
<1>14. CASE RetainDone(s)
  <2>1. ChanTypes' /\ WriterTypes'
    BY <1>14, HandledTypes DEF RetainDone
  <2>2. StoreTypes'
    BY <1>14, RetainTypes DEF RetainDone
  <2> QED
    BY <1>14, <1>a, <2>1, <2>2, Frame DEF RetainDone
<1>15. CASE RetainRefused(s)
  <2>1. ChanTypes' /\ WriterTypes'
    BY <1>15, HandledTypes DEF RetainRefused
  <2>2. StoreTypes'
    BY <1>15, RetainTypes DEF RetainRefused
  <2> QED
    BY <1>15, <1>a, <2>1, <2>2, Frame DEF RetainRefused
<1>16. CASE RetainCorrupt(s)
  <2>1. ChanTypes' /\ WriterTypes'
    BY <1>16, HandledTypes DEF RetainCorrupt
  <2>2. StoreTypes'
    BY <1>16, StoreEffects DEF RetainCorrupt
  <2> QED
    BY <1>16, <1>a, <2>1, <2>2, Frame DEF RetainCorrupt
<1>17. CASE RetainFatal(s)
  <2>1. ChanTypes' /\ WriterTypes' /\ SuperTypes'
    BY <1>17, FailTypes DEF RetainFatal
  <2>2. StoreTypes'
    BY <1>17, RetainTypes, StoreEffects DEF RetainFatal
  <2> QED
    BY <1>17, <1>b, <2>1, <2>2, Frame DEF RetainFatal
<1>18. CASE DrainQueue(s)
  <2>0. <<HeadMsg(queue[s]).from, s, FALSE>> \in Owners \X Shards \X BOOLEAN
    BY <1>18, <1>d DEF DrainQueue, HeadIs
  <2>1. ChanTypes'
    <3>1. replies' \in SUBSET (Owners \X Shards \X BOOLEAN)
      BY <1>18, <2>0 DEF DrainQueue, Reply, ChanTypes
    <3> QED
      BY <1>18, <1>d, <3>1 DEF DrainQueue, HeadIs, ChanTypes
  <2>2. WriterTypes'
    BY <1>18, <1>d DEF DrainQueue, HeadIs, WriterTypes
  <2> QED
    BY <1>18, <1>a, <2>1, <2>2, Frame DEF DrainQueue
<1>19. CASE WriterExit(s)
  <2>1. WriterTypes'
    BY <1>19, <1>c DEF WriterExit, Enter, WriterTypes, WriterLabels
  <2> QED
    BY <1>19, <1>a, <2>1, Frame DEF WriterExit
<1>20. CASE RequestRetain(s)
  <2>1. Send(queue[s], Retention, Control("retain", Retention)) \in Queues
    BY <1>c, SendEffect, NoMsgEmpty DEF Owners
  <2>2. ChanTypes'
    BY <1>20, <2>1 DEF RequestRetain, ChanTypes, Queues
  <2> QED
    BY <1>20, <1>a, <2>2, Frame DEF RequestRetain
<1> QED
  BY <1>1, <1>2, <1>3, <1>4, <1>5, <1>6, <1>7, <1>8, <1>9, <1>10, <1>11, <1>12, <1>13,
     <1>14, <1>15, <1>16, <1>17, <1>18, <1>19, <1>20 DEF WriterStep, WriterFault
(***************************************************************************)
(* The supervisor.                                                         *)
(***************************************************************************)
LEMMA TypeExit == TypeInv /\ Exit /\ budget' \in [Faults -> Nat] => TypeInv'
<1> SUFFICES ASSUME TypeInv, Exit, budget' \in [Faults -> Nat] PROVE TypeInv'
  OBVIOUS
<1> USE DEF TypeInv, TypeOK
<1>1. KernelTypes' /\ RingsBounded'
  BY DEF Exit, KernelTypes, RingsBounded
<1>2. ChanTypes'
  BY SMTT(30) DEF Exit, ChanTypes
<1>6. SuperTypes'
  BY DEF Exit, SuperTypes, Phases
<1>3. DrainTypes'
  <2>2. /\ dpc' \in [Cpus -> DrainLabels] /\ pos' \in [Cpus -> Nat \ {0}]
        /\ next' \in [Cpus -> Nat \ {0}] /\ last' \in [Cpus -> Nat]
    BY SMTT(30) DEF Exit, DrainLabels
  <2>3. /\ cur' \in [Cpus -> Verdict]
        /\ router' \in [Cpus -> [index : Nat \ {0}, sent : Nat]]
    BY FreshDrain DEF Exit
  <2>4. /\ recovered' \in [Cpus -> BOOLEAN] /\ final' \in [Cpus -> Nat]
        /\ boundary' \in [Cpus -> Nat \ {0}] /\ base' \in [Cpus -> BOOLEAN]
    BY SMTT(30) DEF Exit
  <2>5. mark' \in [Cpus -> Nat] /\ note' \in [Cpus -> {"none", "recovered", "failed"}]
    BY DEF Exit
  <2> QED
    BY <2>2, <2>3, <2>4, <2>5 DEF DrainTypes
<1>4. WriterTypes'
  BY NoMsgEmpty, SMTT(30) DEF Exit, WriterTypes, WriterLabels
<1>5. InRange'
  <2>1. \A c \in Cpus : router'[c].index = 1 /\ mark'[c] = 0
    BY DEF Exit, NewRouter
  <2>2. smark' = 0
    BY DEF Exit
  <2> QED
    BY <2>1, <2>2, ListsNotEmpty, SMTT(30) DEF InRange
<1> QED
  BY <1>1, <1>2, <1>3, <1>4, <1>5, <1>6, Frame DEF Exit

LEMMA TypeStart == TypeInv /\ Start => TypeInv'
<1> SUFFICES ASSUME TypeInv, Start PROVE TypeInv'
  OBVIOUS
<1> USE DEF TypeInv, TypeOK
<1>1. StoreTypes' /\ coverage' \in SUBSET Key
  <2>1. PICK bad \in SUBSET Shards : OpenShards(bad)
    BY DEF Start
  <2>2. \A s \in Shards : /\ rows[s] \in SUBSET Key /\ lost[s] \in SUBSET Key
                          /\ receipts[s] \in SUBSET Key /\ retired[s] \in SUBSET Key
    BY DEF StoreTypes
  <2>3. /\ rows' \in [Shards -> SUBSET Key] /\ lost' \in [Shards -> SUBSET Key]
        /\ receipts' \in [Shards -> SUBSET Key] /\ retired' \in [Shards -> SUBSET Key]
    BY <2>1, <2>2 DEF OpenShards
  <2>4. quarantined' \in SUBSET Key /\ coverage' \in SUBSET Key
    BY <2>1, <2>2 DEF OpenShards, StoreTypes
  <2> QED
    BY <2>3, <2>4 DEF StoreTypes
<1>2. SuperTypes'
  BY <1>1 DEF Start, SuperTypes, Phases
<1>3. ChanTypes' /\ WriterTypes' /\ DrainTypes'
  BY DEF Start, ChanTypes, WriterTypes, WriterLabels, DrainTypes, DrainLabels
<1>4. budget' \in [Faults -> Nat]
  BY Frame, SMTT(30) DEF Start
<1>5. InRange'
  BY Frame DEF Start
<1> QED
  BY <1>1, <1>2, <1>3, <1>4, <1>5, Frame DEF Start

LEMMA TypeSuper ==
    TypeInv /\ (SuperStep \/ SignalStop \/ Start \/ Crash \/ Ended) => TypeInv'
<1> SUFFICES ASSUME TypeInv, SuperStep \/ SignalStop \/ Start \/ Crash \/ Ended
             PROVE  TypeInv'
  OBVIOUS
<1> USE DEF TypeInv, TypeOK
<1>1. CASE Ready
  <2>1. SuperTypes' /\ InRange'
    BY <1>1, Frame DEF Ready, SuperTypes, Phases, drainVars
  <2> QED
    BY <1>1, <2>1, Frame DEF Ready
<1>2. CASE StartupFails
  BY <1>2, TypeExit DEF StartupFails
<1>3. CASE BeginStop
  <2>1. SuperTypes' /\ InRange'
    BY <1>3, Frame DEF BeginStop, SuperTypes, Phases, drainVars
  <2> QED
    BY <1>3, <2>1, Frame DEF BeginStop
<1>4. CASE JoinDrains
  <2>1. SuperTypes' /\ InRange'
    BY <1>4, Frame DEF JoinDrains, SuperTypes, Phases, drainVars
  <2> QED
    BY <1>4, <2>1, Frame DEF JoinDrains
<1>5. CASE FlushSend
  <2> DEFINE s == ShardSeq[smark + 1]
  <2>1. s \in Shards /\ Supervisor \in Owners /\ queue[s] \in Queues
    BY Addressed DEF Owners, ChanTypes, Queues
  <2>2. Send(queue[s], Supervisor, Control("barrier", Supervisor)) \in Queues
    BY <2>1, SendEffect, NoMsgEmpty
  <2>3. ChanTypes'
    BY <1>5, <2>2 DEF FlushSend, ChanTypes, Queues
  <2>4. SuperTypes' /\ InRange'
    <3>1. smark \in Nat /\ smark < Len(ShardSeq) /\ Len(ShardSeq) \in Nat \ {0}
      BY ListsNotEmpty DEF SuperTypes, InRange
    <3>2. smark' = 0 \/ (smark' = smark + 1 /\ smark + 1 # Len(ShardSeq))
      BY <1>5 DEF FlushSend
    <3>3. smark' \in Nat /\ smark' < Len(ShardSeq)
      BY <3>1, <3>2, SMTT(30)
    <3>4. phase' \in Phases /\ UNCHANGED <<stopping, coverage, router, mark>>
      BY <1>5 DEF FlushSend, Phases, drainVars
    <3> QED
      BY <3>3, <3>4 DEF SuperTypes, InRange
  <2> QED
    BY <1>5, <2>3, <2>4, Frame DEF FlushSend
<1>6. CASE FlushAck
  <2>1. ChanTypes'
    BY <1>6 DEF FlushAck, ChanTypes
  <2>2. SuperTypes' /\ InRange'
    <3>1. smark \in Nat /\ smark < Len(ShardSeq) /\ Len(ShardSeq) \in Nat \ {0}
      BY ListsNotEmpty DEF SuperTypes, InRange
    <3>2. smark' = 0 \/ (smark' = smark + 1 /\ smark + 1 # Len(ShardSeq))
      BY <1>6 DEF FlushAck
    <3>3. smark' \in Nat /\ smark' < Len(ShardSeq)
      BY <3>1, <3>2, SMTT(30)
    <3>4. phase' \in Phases /\ UNCHANGED <<stopping, coverage, router, mark>>
      BY <1>6 DEF FlushAck, Phases, drainVars, SuperTypes
    <3> QED
      BY <3>3, <3>4 DEF SuperTypes, InRange
  <2> QED
    BY <1>6, <2>1, <2>2, Frame DEF FlushAck
<1>7. CASE CloseQueues
  <2>1. ChanTypes' /\ SuperTypes' /\ InRange'
    BY <1>7, Frame DEF CloseQueues, ChanTypes, SuperTypes, Phases, drainVars
  <2> QED
    BY <1>7, <2>1, Frame DEF CloseQueues
<1>8. CASE JoinWriters
  BY <1>8, TypeExit DEF JoinWriters
<1>9. CASE Crash
  BY <1>9, TypeExit, Frame DEF Crash
<1>10. CASE Ended
  BY <1>10, Frame DEF Ended, vars, drainVars, superVars
<1> QED
  BY <1>1, <1>2, <1>3, <1>4, <1>5, <1>6, <1>7, <1>8, <1>9, <1>10, TypeStart DEF SuperStep, SignalStop, WorkerReturned

LEMMA TypeNext == TypeInv /\ [Next]_vars => TypeInv'
<1> SUFFICES ASSUME TypeInv, [Next]_vars PROVE TypeInv'
  OBVIOUS
<1>1. CASE UNCHANGED vars
  BY <1>1, Frame DEF vars, drainVars, superVars, TypeInv, TypeOK
<1> QED
  BY <1>1, TypeKernel, TypeDrain, TypeWriter, TypeSuper DEF Next

\* Type correctness: whatever the threads, the kernel and the faults do, every
\* variable keeps its type; in particular queues hold only well-formed entries
\* and no thread ever addresses a shard that does not exist.
THEOREM TypeCorrect == Spec => [](TypeOK /\ RingsBounded /\ InRange)
<1>1. Init => TypeInv
  BY TypeInit
<1>2. TypeInv /\ [Next]_vars => TypeInv'
  BY TypeNext
<1>3. TypeInv => TypeOK /\ RingsBounded /\ InRange
  BY DEF TypeInv
<1> QED
  BY <1>1, <1>2, <1>3, PTL DEF Spec

(***************************************************************************)
(* What the steps of each kind leave alone.                                *)
(***************************************************************************)
LEMMA KernelFrame ==
    ASSUME Kernel
    PROVE  UNCHANGED <<storeVars, chanVars, drainVars, writerVars, superVars>>
BY DEF Kernel, Emit, StructuralDrop, Resize

LEMMA DrainFrame ==
    ASSUME NEW c \in Cpus, DrainStep(c) \/ DrainFault(c)
    PROVE  /\ phase # "down"
           /\ UNCHANGED <<storeVars, writerVars, superVars, head, ring, closed>>
BY DEF DrainStep, DrainFault, DrainStart, DrainTop, DrainScan, DrainRead, DrainSkip,
       DrainReserve, DrainCopy, DrainSettle, DrainCycleEnd, DrainSwap, DrainMark, DrainAck, Alive,
       kernelVars, chanVars

LEMMA WriterFrame ==
    ASSUME TypeInv, NEW s \in Shards, WriterStep(s) \/ WriterFault(s)
    PROVE  /\ phase # "down"
           /\ UNCHANGED <<kernelVars, drainVars, phase, coverage, smark>>
           /\ \A t \in Shards \ {s} :
                /\ queue'[t] = queue[t] /\ wpc'[t] = wpc[t]
                /\ batch'[t] = batch[t] /\ pending'[t] = pending[t] /\ ctl'[t] = ctl[t]
                /\ receipts'[t] = receipts[t] /\ retired'[t] = retired[t]
                /\ rows'[t] = rows[t] /\ lost'[t] = lost[t]
<1>1. /\ phase # "down"
      /\ UNCHANGED <<kernelVars, drainVars, phase, coverage, smark>>
  BY DEF WriterStep, WriterFault, SkipCancelled, PopFirst, PopMore, CloseBatch,
         GapsCommitted, RowsCommitted, BarrierReached, RetainDone, DrainQueue, WriterExit,
         GapsRefused, GapsCorrupt, GapsFatal, RowsRefused, RowsCorrupt, RowsFatal,
         RetainRefused, RetainCorrupt, RetainFatal, RequestRetain, Running, superVars
<1>2. ASSUME NEW t \in Shards \ {s}
      PROVE  /\ queue'[t] = queue[t] /\ wpc'[t] = wpc[t]
             /\ batch'[t] = batch[t] /\ pending'[t] = pending[t] /\ ctl'[t] = ctl[t]
  BY DEF WriterStep, WriterFault, SkipCancelled, PopFirst, PopMore, CloseBatch,
         GapsCommitted, RowsCommitted, BarrierReached, RetainDone, DrainQueue, WriterExit,
         GapsRefused, GapsCorrupt, GapsFatal, RowsRefused, RowsCorrupt, RowsFatal,
         RetainRefused, RetainCorrupt, RetainFatal, RequestRetain, superVars, chanVars,
         writerVars, Pop, Enter, Commit, RecordLost, Fail, Handled,
         TypeInv, TypeOK, ChanTypes, WriterTypes
<1>3. ASSUME NEW t \in Shards \ {s}
      PROVE  /\ receipts'[t] = receipts[t] /\ retired'[t] = retired[t]
             /\ rows'[t] = rows[t] /\ lost'[t] = lost[t]
  BY DEF WriterStep, WriterFault, SkipCancelled, PopFirst, PopMore, CloseBatch,
         GapsCommitted, RowsCommitted, BarrierReached, RetainDone, DrainQueue, WriterExit,
         GapsRefused, GapsCorrupt, GapsFatal, RowsRefused, RowsCorrupt, RowsFatal,
         RetainRefused, RetainCorrupt, RetainFatal, RequestRetain, storeVars,
         Record, Quarantine, AfterFatal, RetainRows, DeleteEvents, TypeInv, TypeOK, StoreTypes
<1> QED
  BY <1>1, <1>2, <1>3

\* The supervisor's own steps, which neither start nor end the process.
SuperInside == Ready \/ BeginStop \/ JoinDrains \/ FlushSend \/ FlushAck \/ CloseQueues

LEMMA SuperCases ==
    ASSUME SuperStep \/ SignalStop \/ Start \/ Crash \/ Ended
    PROVE  SuperInside \/ Start \/ Exit \/ UNCHANGED vars
BY DEF SuperStep, SignalStop, WorkerReturned, SuperInside, StartupFails, JoinWriters,
       Crash, Ended

LEMMA SuperFrame ==
    ASSUME SuperInside
    PROVE  /\ phase # "down" /\ phase' # "down"
           /\ UNCHANGED <<kernelVars, storeVars, drainVars, writerVars, coverage>>
BY DEF SuperInside, Ready, BeginStop, JoinDrains, FlushSend, FlushAck, CloseQueues,
       superVars

LEMMA StepCases ==
    ASSUME [Next]_vars
    PROVE  \/ Kernel
           \/ \E c \in Cpus : DrainStep(c) \/ DrainFault(c)
           \/ \E s \in Shards : WriterStep(s) \/ WriterFault(s)
           \/ SuperInside \/ Start \/ Exit \/ UNCHANGED vars
BY SuperCases DEF Next

(***************************************************************************)
(* Nothing survives the process but its databases.                         *)
(***************************************************************************)
LEMMA DownStep ==
    ASSUME TypeInv, DownIsEmpty, [Next]_vars
    PROVE  DownIsEmpty'
<1>1. CASE Kernel
  BY <1>1, KernelFrame DEF DownIsEmpty, chanVars, drainVars, writerVars, superVars
<1>2. CASE \E c \in Cpus : DrainStep(c) \/ DrainFault(c)
  BY <1>2, DrainFrame DEF DownIsEmpty, superVars
<1>3. CASE \E s \in Shards : WriterStep(s) \/ WriterFault(s)
  BY <1>3, WriterFrame DEF DownIsEmpty
<1>4. CASE SuperInside
  BY <1>4, SuperFrame DEF DownIsEmpty
<1>5. CASE Start
  BY <1>5 DEF Start, DownIsEmpty
<1>6. CASE Exit
  BY <1>6 DEF Exit, DownIsEmpty
<1>7. CASE UNCHANGED vars
  BY <1>7 DEF DownIsEmpty, vars, chanVars, drainVars, writerVars, superVars
<1> QED
  BY <1>1, <1>2, <1>3, <1>4, <1>5, <1>6, <1>7, StepCases

(***************************************************************************)
(* What a writer holds, by where it is.                                    *)
(***************************************************************************)
LEMMA WriterHoldsStep ==
    ASSUME TypeInv, DownIsEmpty, WriterHolds, [Next]_vars
    PROVE  WriterHolds'
<1>1. CASE Kernel
  BY <1>1, KernelFrame DEF WriterHolds, writerVars
<1>2. CASE \E c \in Cpus : DrainStep(c) \/ DrainFault(c)
  BY <1>2, DrainFrame DEF WriterHolds, writerVars
<1>3. ASSUME NEW s \in Shards, WriterStep(s) \/ WriterFault(s)
      PROVE  WriterHolds'
  <2>1. ASSUME NEW t \in Shards \ {s}
        PROVE  /\ wpc'[t] \notin {"batch", "gaps", "regaps", "rows"} => batch'[t] = <<>>
               /\ wpc'[t] = "rows" => pending'[t] = {}
    BY <1>3, <2>1, WriterFrame DEF WriterHolds
  <2>2. /\ wpc'[s] \notin {"batch", "gaps", "regaps", "rows"} => batch'[s] = <<>>
        /\ wpc'[s] = "rows" => pending'[s] = {}
    <3>1. /\ wpc \in [Shards -> WriterLabels] /\ batch \in [Shards -> Seq(Message)]
          /\ pending \in [Shards -> SUBSET Key]
      BY DEF TypeInv, TypeOK, WriterTypes
    <3>2. CASE SkipCancelled(s) \/ DrainQueue(s) \/ RequestRetain(s)
      BY <3>2 DEF SkipCancelled, DrainQueue, RequestRetain, writerVars, WriterHolds
    <3>3. CASE PopFirst(s) \/ PopMore(s) \/ CloseBatch(s)
      BY <3>1, <3>3 DEF PopFirst, PopMore, CloseBatch, Commit, Enter, WriterHolds
    <3>4. CASE GapsCommitted(s) \/ GapsRefused(s) \/ GapsCorrupt(s)
      BY <3>1, <3>4 DEF GapsCommitted, GapsRefused, GapsCorrupt, RecordLost, Enter,
              AfterBatch, WriterHolds
    <3>5. CASE RowsCommitted(s) \/ RowsRefused(s) \/ RowsCorrupt(s)
      BY <3>1, <3>5 DEF RowsCommitted, RowsRefused, RowsCorrupt, RecordLost, Enter,
              AfterBatch, WriterHolds
    <3>6. CASE GapsFatal(s) \/ RowsFatal(s) \/ RetainFatal(s)
      BY <3>1, <3>6 DEF GapsFatal, RowsFatal, RetainFatal, Fail, Enter
    <3>7. CASE \/ BarrierReached(s) \/ RetainDone(s) \/ RetainRefused(s)
               \/ RetainCorrupt(s)
      BY <3>1, <3>7 DEF BarrierReached, RetainDone, RetainRefused, RetainCorrupt, Handled,
              Enter, WriterHolds
    <3>8. CASE WriterExit(s)
      BY <3>1, <3>8 DEF WriterExit, Enter, WriterHolds
    <3> QED
      BY <1>3, <3>2, <3>3, <3>4, <3>5, <3>6, <3>7, <3>8 DEF WriterStep, WriterFault
  <2> QED
    BY <2>1, <2>2 DEF WriterHolds
<1>4. CASE SuperInside
  BY <1>4, SuperFrame DEF WriterHolds, writerVars
<1>5. CASE Start
  BY <1>5 DEF Start, DownIsEmpty, WriterHolds
<1>6. CASE Exit
  BY <1>6 DEF Exit, WriterHolds
<1>7. CASE UNCHANGED vars
  BY <1>7 DEF WriterHolds, vars, writerVars
<1> QED
  BY <1>1, <1>2, <1>3, <1>4, <1>5, <1>6, <1>7, StepCases
(***************************************************************************)
(* The drains.                                                             *)
(***************************************************************************)
LEMMA DrainOthers ==
    ASSUME TypeInv, NEW c \in Cpus, DrainStep(c) \/ DrainFault(c), NEW d \in Cpus \ {c}
    PROVE  /\ dpc'[d] = dpc[d] /\ cur'[d] = cur[d] /\ next'[d] = next[d]
           /\ router'[d] = router[d] /\ stale'[d] = stale[d] /\ frozen'[d] = frozen[d]
           /\ pos'[d] = pos[d]
<1> USE DEF TypeInv, TypeOK, DrainTypes, KernelTypes, kernelVars, Goto, MovePast
<1>1. CASE DrainStart(c) \/ DrainTop(c) \/ DrainScan(c) \/ DrainRead(c) \/ DrainSkip(c)
  <2>1. CASE DrainStart(c)
    BY <2>1 DEF DrainStart
  <2>2. CASE DrainTop(c)
    BY <2>2 DEF DrainTop
  <2>3. CASE DrainScan(c)
    BY <2>3 DEF DrainScan
  <2>4. CASE DrainRead(c)
    BY <2>4 DEF DrainRead
  <2>5. CASE DrainSkip(c)
    BY <2>5 DEF DrainSkip
  <2> QED
    BY <1>1, <2>1, <2>2, <2>3, <2>4, <2>5
<1>2. CASE DrainReserve(c) \/ DrainCopy(c) \/ DrainSettle(c)
  BY <1>2, SMTT(30) DEF DrainReserve, DrainCopy, DrainSettle
<1>3. CASE DrainCycleEnd(c) \/ DrainSwap(c) \/ DrainMark(c)
  BY <1>3 DEF DrainCycleEnd, DrainSwap, DrainMark
<1>4. CASE DrainAck(c) \/ DrainFault(c)
  BY <1>4 DEF DrainAck, DrainFault
<1> QED
  BY <1>1, <1>2, <1>3, <1>4 DEF DrainStep

\* The reconciler of c changes only by moving past the event in hand, and only
\* while it is in the ring.
LEMMA NextStep ==
    ASSUME TypeInv, NEW c \in Cpus, DrainStep(c) \/ DrainFault(c)
    PROVE  \/ next'[c] = next[c]
           \/ /\ dpc[c] \in Handling /\ ~Lapped(c, pos[c])
              /\ next'[c] = NextAfter(c, cur[c].seq)
<1>1. CASE DrainSkip(c)
  BY <1>1 DEF DrainSkip, Overwritten, MovePast, Handling, TypeInv, TypeOK, DrainTypes
<1>2. CASE DrainSettle(c)
  BY <1>2 DEF DrainSettle, Overwritten, MovePast, Handling, TypeInv, TypeOK, DrainTypes
<1>3. CASE UNCHANGED next
  BY <1>3
<1> QED
  BY <1>1, <1>2, <1>3 DEF DrainStep, DrainFault, DrainStart, DrainTop, DrainScan,
         DrainRead, DrainReserve, DrainCopy, DrainCycleEnd, DrainSwap, DrainMark, DrainAck

LEMMA PassedAssignedStep ==
    ASSUME TypeInv, PassedAssigned, VerdictStands, [Next]_vars
    PROVE  PassedAssigned'
<1>0. head \in [Cpus -> Nat] /\ next \in [Cpus -> Nat \ {0}]
  BY DEF TypeInv, TypeOK, KernelTypes, DrainTypes
<1>1. CASE Kernel
  <2>1. \A c \in Cpus : head'[c] \in Nat /\ head'[c] >= head[c]
    BY <1>1, KernelHeads DEF TypeInv, TypeOK
  <2> QED
    BY <1>0, <1>1, <2>1, KernelFrame, SMTT(30) DEF PassedAssigned, drainVars
<1>2. ASSUME NEW c \in Cpus, DrainStep(c) \/ DrainFault(c)
      PROVE  PassedAssigned'
  <2>1. \A d \in Cpus \ {c} : next'[d] = next[d]
    BY <1>2, DrainOthers
  <2>2. next'[c] <= head[c] + 1
    <3>1. head[c] \in Nat /\ next[c] \in Nat /\ next[c] <= head[c] + 1
      BY <1>0 DEF PassedAssigned
    <3>2. CASE next'[c] = next[c]
      BY <3>1, <3>2
    <3>3. CASE dpc[c] \in Handling /\ ~Lapped(c, pos[c]) /\ next'[c] = NextAfter(c, cur[c].seq)
      <4>1. cur[c].seq \in 1..head[c]
        BY <3>3 DEF VerdictStands, Upheld, Stands
      <4> QED
        BY <3>1, <3>3, <4>1, SMTT(30) DEF NextAfter
    <3> QED
      BY <1>2, <3>2, <3>3, NextStep
  <2> QED
    BY <1>2, <2>1, <2>2, DrainFrame DEF PassedAssigned
<1>3. CASE \E s \in Shards : WriterStep(s) \/ WriterFault(s)
  BY <1>3, WriterFrame DEF PassedAssigned, kernelVars, drainVars
<1>4. CASE SuperInside
  BY <1>4, SuperFrame DEF PassedAssigned, kernelVars, drainVars
<1>5. CASE Start
  BY <1>5 DEF Start, PassedAssigned, kernelVars
<1>6. CASE Exit
  BY <1>0, <1>6, SMTT(30) DEF Exit, PassedAssigned
<1>7. CASE UNCHANGED vars
  BY <1>7 DEF PassedAssigned, vars, kernelVars, drainVars
<1> QED
  BY <1>1, <1>2, <1>3, <1>4, <1>5, <1>6, <1>7, StepCases

\* A verdict is not disturbed by steps that leave its drain's state alone.
LEMMA UpheldFrame ==
    ASSUME NEW c \in Cpus, Upheld(c), head'[c] = head[c], Mapped(c)' = Mapped(c),
           cur'[c] = cur[c], next'[c] = next[c], dpc'[c] = dpc[c], pos'[c] = pos[c],
           coverage' = coverage
    PROVE  Upheld(c)'
<1>1. Lapped(c, pos[c])' <=> Lapped(c, pos[c])
  BY DEF Lapped
<1>2. Stands(c) => Stands(c)'
  BY DEF Stands, Regression, Observe, UncoveredGaps, Covered
<1> QED
  BY <1>1, <1>2 DEF Upheld

LEMMA VerdictKernel ==
    ASSUME TypeInv, DownIsEmpty, VerdictStands, Kernel, NEW c \in Cpus
    PROVE  Upheld(c)'
<1>0. head[c] \in Nat
  BY DEF TypeInv, TypeOK, KernelTypes
<1>1. UNCHANGED <<dpc, cur, next, pos, coverage, phase>> /\ Upheld(c)
  BY KernelFrame DEF drainVars, superVars, VerdictStands
<1> SUFFICES ASSUME dpc[c] \in Handling \cup {"reading"}
             PROVE  Upheld(c)'
  BY <1>1 DEF Upheld
<1>2. phase # "down"
  BY DEF DownIsEmpty, Handling
<1>3. /\ Mapped(c)' \subseteq Mapped(c) \cup {head[c] + 1}
      /\ head'[c] \in Nat /\ head'[c] >= head[c]
  BY <1>2, KernelAssigns DEF TypeInv, TypeOK
<1>4. pos[c] \in 1..head[c]
  BY <1>1 DEF Upheld
<1>5. pos'[c] \in 1..head'[c] /\ (Lapped(c, pos[c]) => Lapped(c, pos[c])')
  BY <1>0, <1>1, <1>3, <1>4, SMTT(30) DEF Lapped
<1>6. Stands(c) => Stands(c)'
  BY <1>1 DEF Stands, Regression, Observe, UncoveredGaps, Covered
<1> QED
  BY <1>1, <1>5, <1>6 DEF Upheld

LEMMA VerdictDrain ==
    ASSUME TypeInv, VerdictStands, NEW c \in Cpus, DrainStep(c) \/ DrainFault(c)
    PROVE  Upheld(c)'
<1>0. /\ dpc \in [Cpus -> DrainLabels] /\ cur \in [Cpus -> Verdict]
      /\ pos \in [Cpus -> Nat \ {0}]
  BY DEF TypeInv, TypeOK, DrainTypes
<1>1. Upheld(c)
  BY DEF VerdictStands
<1>2. CASE DrainScan(c)
  <2>1. CASE Unread(c) = {}
    BY <1>0, <1>2, <2>1 DEF DrainScan, Goto, Upheld, Handling
  <2>2. CASE Unread(c) # {}
    <3>1. PICK q : q = MinOf(Unread(c))
      OBVIOUS
    <3>2. pos'[c] = q /\ dpc'[c] = "reading" /\ head' = head
      BY <1>0, <1>2, <2>2, <3>1 DEF DrainScan, Goto, kernelVars
    <3>3. Mapped(c) \subseteq 1..head[c] /\ Mapped(c) \in SUBSET Nat
      BY RingPositions
    <3>4. Unread(c) \subseteq Mapped(c) /\ Unread(c) \in SUBSET Nat
      BY <3>3 DEF Unread
    <3>5. q \in 1..head[c]
      BY <2>2, <3>1, <3>3, <3>4, MinExists
    <3> QED
      BY <3>2, <3>5 DEF Upheld, Handling
  <2> QED
    BY <2>1, <2>2
<1>3. CASE DrainRead(c)
  <2>1. /\ dpc[c] = "reading" /\ UNCHANGED <<head, ring, stale, frozen, next, pos, coverage>>
    BY <1>3 DEF DrainRead, kernelVars, superVars
  <2>2. /\ pos[c] \in 1..head[c] /\ pos'[c] \in 1..head'[c]
        /\ Lapped(c, pos[c])' <=> Lapped(c, pos[c])
    BY <1>1, <2>1 DEF Upheld, Lapped, Mapped
  <2>3. PICK q \in IF Lapped(c, pos[c]) THEN Stray(c) ELSE {pos[c]} :
          IF Regression(c, q)
          THEN Goto(c, "failed") /\ UNCHANGED cur
          ELSE cur' = [cur EXCEPT ![c] = Observe(c, q)] /\ Goto(c, "observed")
    BY <1>3 DEF DrainRead
  <2>4. CASE Regression(c, q)
    BY <1>0, <2>3, <2>4 DEF Goto, Upheld, Handling
  <2>5. CASE ~Regression(c, q)
    <3>1. cur'[c] = Observe(c, q) /\ dpc'[c] = "observed"
      BY <1>0, <2>3, <2>5 DEF Goto
    <3>2. CASE Lapped(c, pos[c])
      BY <2>2, <3>1, <3>2 DEF Upheld
    <3>3. CASE ~Lapped(c, pos[c])
      <4>0. q = pos[c]
        BY <2>3, <3>3
      <4>1. q = pos[c] /\ cur'[c].seq = q
        BY <3>1, <4>0, SMTT(30) DEF Observe
      <4>2. Observe(c, q)' = Observe(c, q) /\ ~Regression(c, q)'
        BY <2>1, <2>5 DEF Regression, Observe, UncoveredGaps, Covered
      <4>3. Stands(c)'
        BY <2>1, <3>1, <4>1, <4>2 DEF Stands
      <4> QED
        BY <2>2, <4>3 DEF Upheld
    <3> QED
      BY <3>2, <3>3
  <2> QED
    BY <2>4, <2>5
<1>4. CASE DrainReserve(c) \/ DrainCopy(c)
  <2>1. /\ dpc[c] \in Handling
        /\ UNCHANGED <<head, ring, stale, frozen, next, pos, coverage>>
        /\ dpc'[c] \in {"failed", "held", "copied"}
    BY <1>0, <1>4 DEF DrainReserve, DrainCopy, Goto, kernelVars, superVars, Handling
  <2>2. /\ pos'[c] \in 1..head'[c]
        /\ Lapped(c, pos[c])' <=> Lapped(c, pos[c])
    BY <1>1, <2>1 DEF Upheld, Lapped, Mapped
  <2>3. /\ cur'[c].seq = cur[c].seq /\ cur'[c].gaps = cur[c].gaps
        /\ cur'[c].store = cur[c].store
        /\ dpc'[c] = "copied" => cur'[c].torn = Lapped(c, pos[c])
    BY <1>0, <1>4 DEF DrainReserve, DrainCopy, Goto, Verdict
  <2>4. ~Lapped(c, pos[c]) /\ Stands(c) => Stands(c)'
    BY <2>1, <2>3 DEF Stands, Regression, Observe, UncoveredGaps, Covered
  <2> QED
    BY <1>1, <2>1, <2>2, <2>4 DEF Upheld
<1>5. CASE \/ DrainStart(c) \/ DrainTop(c) \/ DrainSkip(c) \/ DrainSettle(c)
           \/ DrainCycleEnd(c) \/ DrainSwap(c) \/ DrainMark(c) \/ DrainAck(c)
           \/ DrainFault(c)
  <2>1. dpc'[c] \notin Handling \cup {"reading"}
    BY <1>0, <1>5 DEF DrainStart, DrainTop, DrainSkip, DrainSettle, DrainCycleEnd,
            DrainSwap, DrainMark, DrainAck, DrainFault, Goto, AfterRecovery, Handling
  <2> QED
    BY <2>1 DEF Upheld
<1> QED
  BY <1>2, <1>3, <1>4, <1>5 DEF DrainStep

LEMMA VerdictStep ==
    ASSUME TypeInv, DownIsEmpty, VerdictStands, [Next]_vars
    PROVE  VerdictStands'
<1>1. CASE Kernel
  BY <1>1, VerdictKernel DEF VerdictStands
<1>2. ASSUME NEW c \in Cpus, DrainStep(c) \/ DrainFault(c)
      PROVE  VerdictStands'
  <2>1. ASSUME NEW d \in Cpus \ {c}
        PROVE  Upheld(d)'
    <3>1. UNCHANGED <<head, ring, coverage>>
      BY <1>2, DrainFrame DEF superVars
    <3>2. /\ dpc'[d] = dpc[d] /\ cur'[d] = cur[d] /\ next'[d] = next[d]
          /\ stale'[d] = stale[d] /\ frozen'[d] = frozen[d] /\ pos'[d] = pos[d]
      BY <1>2, DrainOthers
    <3>3. Mapped(d)' = Mapped(d)
      BY <3>1, <3>2 DEF Mapped
    <3> QED
      BY <3>1, <3>2, <3>3, UpheldFrame DEF VerdictStands
  <2> QED
    BY <1>2, <2>1, VerdictDrain DEF VerdictStands
<1>3. CASE \E s \in Shards : WriterStep(s) \/ WriterFault(s)
  BY <1>3, WriterFrame, UpheldFrame DEF VerdictStands, kernelVars, drainVars, Mapped
<1>4. CASE SuperInside
  BY <1>4, SuperFrame, UpheldFrame DEF VerdictStands, kernelVars, drainVars, Mapped
<1>5. CASE Start
  BY <1>5 DEF Start, VerdictStands, Upheld, Handling
<1>6. CASE Exit
  BY <1>6 DEF Exit, VerdictStands, Upheld, Handling
<1>7. CASE UNCHANGED vars
  BY <1>7, UpheldFrame DEF VerdictStands, vars, kernelVars, drainVars, superVars, Mapped
<1> QED
  BY <1>1, <1>2, <1>3, <1>4, <1>5, <1>6, <1>7, StepCases
=============================================================================
