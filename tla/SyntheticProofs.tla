--------------------------- MODULE SyntheticProofs ---------------------------
(***************************************************************************)
(* Events about the daemon, proved for any number of shards and reports:   *)
(* each is stored once or counted as lost, and nobody waits for a reply    *)
(* that cannot come.                                                       *)
(***************************************************************************)
EXTENDS SyntheticReport, FiniteSetTheorems, TLAPS

\* The time each leaf may take, in seconds.
USE ZenonT(30)

-----------------------------------------------------------------------------
(* Queues. *)

\* The first message leaves a queue.
LEMMA TailSet ==
    ASSUME NEW S, NEW q \in Seq(S), q # <<>>, IsInjective(q)
    PROVE  /\ Head(q) \in S /\ Tail(q) \in Seq(S)
           /\ Head(q) \in ToSet(q) /\ ToSet(Tail(q)) = ToSet(q) \ {Head(q)}
           /\ IsInjective(Tail(q))
<1>1. /\ Head(q) \in S /\ Tail(q) \in Seq(S) /\ 1 \in DOMAIN q /\ q[1] = Head(q)
      /\ \A i \in DOMAIN Tail(q) : i \in Int /\ i + 1 \in DOMAIN q /\ Tail(q)[i] = q[i + 1]
      /\ \A i \in DOMAIN q : i \in Int /\ (i # 1 => i - 1 \in DOMAIN Tail(q))
  BY SMTT(30)
<1>2. \A i, j \in Int : (i + 1 = j + 1 => i = j) /\ (i - 1) + 1 = i
  BY SMTT(30)
<1>3. \A i \in DOMAIN Tail(q) : i + 1 # 1
  BY SMTT(30)
<1>4. IsInjective(Tail(q))
  <2> SUFFICES ASSUME NEW i \in DOMAIN Tail(q), NEW j \in DOMAIN Tail(q),
                      Tail(q)[i] = Tail(q)[j]
               PROVE  i = j
    BY DEF IsInjective
  <2>1. q[i + 1] = q[j + 1] /\ i + 1 \in DOMAIN q /\ j + 1 \in DOMAIN q
    BY <1>1
  <2>2. i + 1 = j + 1
    BY <2>1 DEF IsInjective
  <2> QED
    BY <1>1, <1>2, <2>2
<1>5. Head(q) \in ToSet(q)
  BY <1>1 DEF ToSet
<1>6. ASSUME NEW x \in ToSet(Tail(q)) PROVE x \in ToSet(q) /\ x # Head(q)
  <2>1. PICK i \in DOMAIN Tail(q) : x = Tail(q)[i]
    BY DEF ToSet
  <2>2. x = q[i + 1] /\ i + 1 \in DOMAIN q /\ i + 1 # 1
    BY <1>1, <1>3, <2>1
  <2> QED
    BY <1>1, <2>2 DEF ToSet, IsInjective
<1>7. ASSUME NEW x \in ToSet(q), x # Head(q) PROVE x \in ToSet(Tail(q))
  <2>1. PICK i \in DOMAIN q : x = q[i]
    BY DEF ToSet
  <2>2. i - 1 \in DOMAIN Tail(q) /\ i \in Int
    BY <1>1, <1>7, <2>1
  <2>3. Tail(q)[i - 1] = q[(i - 1) + 1] /\ (i - 1) + 1 = i
    BY <1>1, <1>2, <2>2
  <2> QED
    BY <2>1, <2>2, <2>3 DEF ToSet
<1> QED
  BY <1>1, <1>4, <1>5, <1>6, <1>7

\* A message joins a queue.
LEMMA AppendSet ==
    ASSUME NEW S, NEW q \in Seq(S), NEW x \in S
    PROVE  /\ Append(q, x) \in Seq(S) /\ Append(q, x) # <<>>
           /\ ToSet(Append(q, x)) = ToSet(q) \union {x}
           /\ IsInjective(q) /\ x \notin ToSet(q) => IsInjective(Append(q, x))
<1> DEFINE n == Len(q) + 1
           a == Append(q, x)
<1>1. /\ a \in Seq(S) /\ a # <<>>
      /\ DOMAIN a = DOMAIN q \union {n} /\ n \notin DOMAIN q /\ a[n] = x
      /\ \A i \in DOMAIN q : a[i] = q[i]
  BY SMTT(30)
<1> HIDE DEF n, a
<1>2. ToSet(a) = ToSet(q) \union {x}
  BY <1>1 DEF ToSet
<1>3. IsInjective(q) /\ x \notin ToSet(q) => IsInjective(a)
  BY <1>1 DEF ToSet, IsInjective
<1> QED
  BY <1>1, <1>2, <1>3 DEF a

LEMMA EmptyQueue == ToSet(<<>>) = {} /\ IsInjective(<<>>) /\ \A S : <<>> \in Seq(S)
<1>1. DOMAIN <<>> = {} /\ \A S : <<>> \in Seq(S)
  BY SMTT(30)
<1> QED
  BY <1>1 DEF ToSet, IsInjective

-----------------------------------------------------------------------------

-----------------------------------------------------------------------------
(* Where an event is stored. *)

LEMMA KeptAt ==
    ASSUME NEW r, NEW d, NEW e, NEW s \in Shards, <<e, s>> \notin d,
           NEW i \in DOMAIN r[s], r[s][i] = e
    PROVE  <<s, i>> \in Kept(r, d, e)
<1>1. <<s, i>> \in {s} \X {j \in DOMAIN r[s] : r[s][j] = e}
  BY SMTT(30)
<1>2. s \in {t \in Shards : <<e, t>> \notin d}
  OBVIOUS
<1> QED
  BY <1>1, <1>2 DEF Kept

\* The place p is a row of e that was not denied.
Row(r, d, e, p) ==
    \E s \in Shards : \E i \in DOMAIN r[s] : <<e, s>> \notin d /\ p = <<s, i>> /\ r[s][i] = e

LEMMA KeptPicks ==
    ASSUME NEW r, NEW d, NEW e, NEW p, p \in Kept(r, d, e)
    PROVE  Row(r, d, e, p)
<1>1. PICK s \in {t \in Shards : <<e, t>> \notin d} : p \in {s} \X {i \in DOMAIN r[s] : r[s][i] = e}
  BY DEF Kept
<1>2. PICK t \in {s}, i \in {j \in DOMAIN r[s] : r[s][j] = e} : p = <<t, i>>
  BY <1>1, SMTT(30)
<1>3. s \in Shards /\ <<e, s>> \notin d
  BY <1>1
<1> QED
  BY <1>2, <1>3 DEF Row

LEMMA KeptFinite ==
    ASSUME NEW r \in [Shards -> Seq(Events)], NEW d, NEW e
    PROVE  IsFiniteSet(Kept(r, d, e))
<1> DEFINE In(s) == {s} \X {i \in DOMAIN r[s] : r[s][i] = e}
           U == {t \in Shards : <<e, t>> \notin d}
           T == {In(s) : s \in U}
           f == [s \in U |-> In(s)]
<1>1. ASSUME NEW s \in U PROVE IsFiniteSet(In(s))
  <2>1. r[s] \in Seq(Events)
    OBVIOUS
  <2>2. DOMAIN r[s] = 1..Len(r[s]) /\ Len(r[s]) \in Nat
    BY <2>1, SMTT(30)
  <2>3. IsFiniteSet(DOMAIN r[s])
    BY <2>2, FS_Interval, SMTT(30)
  <2>4. IsFiniteSet({i \in DOMAIN r[s] : r[s][i] = e}) /\ IsFiniteSet({s})
    BY <2>3, FS_Subset, FS_Singleton
  <2> QED
    BY <2>4, FS_Product
<1>2. IsFiniteSet(Shards)
  BY CountsAssumption, FS_Interval, SMTT(30) DEF Shards
<1>3. IsFiniteSet(U)
  BY <1>2, FS_Subset
<1>4. Kept(r, d, e) = UNION T
  BY DEF Kept
<1> HIDE DEF In, U
<1>5. f \in Surjection(U, T)
  BY DEF Surjection
<1>6. IsFiniteSet(T)
  BY <1>3, <1>5, FS_Surjection
<1>7. \A W \in T : IsFiniteSet(W)
  BY <1>1
<1> QED
  BY <1>4, <1>6, <1>7, FS_UNION

\* Where q has the event f, r has it.
Sub(q, r, f) == \A i \in DOMAIN q : q[i] = f => i \in DOMAIN r /\ r[i] = f

LEMMA KeptSub ==
    ASSUME NEW r, NEW d, NEW q, NEW c, NEW f, \A s \in Shards : Sub(q[s], r[s], f),
           \A s \in Shards : <<f, s>> \in d => <<f, s>> \in c
    PROVE  Kept(q, c, f) \subseteq Kept(r, d, f)
<1> SUFFICES ASSUME NEW p \in Kept(q, c, f) PROVE p \in Kept(r, d, f)
  OBVIOUS
<1>0. Row(q, c, f, p)
  BY KeptPicks
<1>1. PICK s \in Shards : \E i \in DOMAIN q[s] : <<f, s>> \notin c /\ p = <<s, i>> /\ q[s][i] = f
  BY <1>0 DEF Row
<1>2. PICK i \in DOMAIN q[s] : <<f, s>> \notin c /\ p = <<s, i>> /\ q[s][i] = f
  BY <1>1
<1>3. <<f, s>> \notin d /\ i \in DOMAIN r[s] /\ r[s][i] = f
  BY <1>2 DEF Sub
<1>4. <<s, i>> \in Kept(r, d, f)
  BY <1>3, KeptAt
<1> QED
  BY <1>2, <1>4

\* What a step leaves of the rows of f: all, or its shard was replaced.
Worn(f) ==
    /\ Kept(rows', denied', f) \subseteq Kept(rows, denied, f)
    /\ Kept(rows', denied', f) = Kept(rows, denied, f) \/ f \in lost'
    /\ f \in lost => f \in lost'

LEMMA OldRows ==
    ASSUME rows \in [Shards -> Seq(Events)], NEW s \in Shards, NEW replaced \in BOOLEAN
    PROVE  /\ Old(s, replaced) \in Seq(Events)
           /\ \A f : Sub(Old(s, replaced), rows[s], f)
           /\ ~replaced => Old(s, replaced) = rows[s]
<1>1. CASE replaced
  <2>1. Old(s, replaced) = <<>> /\ DOMAIN <<>> = {} /\ <<>> \in Seq(Events)
    BY <1>1, SMTT(30) DEF Old
  <2> QED
    BY <1>1, <2>1 DEF Sub
<1>2. CASE ~replaced
  <2>1. Old(s, replaced) = rows[s] /\ rows[s] \in Seq(Events)
    BY <1>2 DEF Old
  <2> QED
    BY <2>1 DEF Sub
<1> QED
  BY <1>1, <1>2

\* The rows of a commit: those that were left, and the event or not.
Commits(s, replaced, q, e) ==
    /\ Leave(s, replaced, q)
    /\ q = Old(s, replaced) \/ q = Append(Old(s, replaced), e)

\* Another event's rows are worn at most, and so are the event's own, if it is
\* not stored.
LEMMA CommitsWear ==
    ASSUME rows \in [Shards -> Seq(Events)], NEW s \in Shards, NEW e \in Events,
           NEW replaced \in BOOLEAN, NEW q, Commits(s, replaced, q, e),
           denied' = denied \/ denied' = denied \union {<<e, s>>},
           NEW f, f # e \/ (q = Old(s, replaced) /\ denied' = denied)
    PROVE  rows' \in [Shards -> Seq(Events)] /\ Worn(f)
<1> DEFINE old == Old(s, replaced)
<1>1. /\ old \in Seq(Events) /\ Sub(old, rows[s], f)
      /\ ~replaced => old = rows[s]
  BY OldRows
<1>2. /\ Append(old, e) \in Seq(Events)
      /\ \A i \in DOMAIN Append(old, e) :
            (i \in DOMAIN old /\ Append(old, e)[i] = old[i]) \/ Append(old, e)[i] = e
      /\ \A i \in DOMAIN old : i \in DOMAIN Append(old, e) /\ Append(old, e)[i] = old[i]
  BY <1>1, SMTT(30)
<1> HIDE DEF old
<1>3. /\ q \in Seq(Events)
      /\ \A i \in DOMAIN q : (i \in DOMAIN old /\ q[i] = old[i]) \/ (q[i] = e /\ q # old)
      /\ \A i \in DOMAIN old : i \in DOMAIN q /\ q[i] = old[i]
  <2>1. CASE q = old
    BY <1>1, <2>1
  <2>2. CASE q # old /\ q = Append(old, e)
    BY <1>2, <2>2
  <2> QED
    BY <2>1, <2>2 DEF Commits, old
<1>4. /\ rows'[s] = q /\ \A t \in Shards : t # s => rows'[t] = rows[t]
      /\ rows' \in [Shards -> Seq(Events)]
      /\ lost' = IF replaced THEN lost \union ToSet(rows[s]) ELSE lost
  BY <1>3 DEF Commits, Leave
<1>5. \A t \in Shards : <<f, t>> \in denied <=> <<f, t>> \in denied'
  BY SMTT(30)
<1>6. Sub(q, old, f)
  BY <1>3 DEF Sub, old
<1>7. ASSUME NEW t \in Shards PROVE Sub(rows'[t], rows[t], f)
  BY <1>1, <1>4, <1>6 DEF Sub
<1>8. Kept(rows', denied', f) \subseteq Kept(rows, denied, f)
  BY <1>5, <1>7, KeptSub
<1>9. ASSUME f \notin lost' PROVE Kept(rows, denied, f) \subseteq Kept(rows', denied', f)
  <2>1. Sub(rows[s], q, f)
    <3>1. CASE replaced
      BY <1>4, <1>9, <3>1 DEF Sub, ToSet
    <3>2. CASE ~replaced
      BY <1>1, <1>3, <3>2 DEF Sub
    <3> QED
      BY <3>1, <3>2
  <2>2. ASSUME NEW t \in Shards PROVE Sub(rows[t], rows'[t], f)
    BY <1>4, <2>1 DEF Sub
  <2> QED
    BY <1>5, <2>2, KeptSub
<1>10. f \in lost => f \in lost'
  BY <1>4
<1> QED
  BY <1>4, <1>8, <1>9, <1>10 DEF Worn

\* A commit that is not denied adds the one place there is.
LEMMA CommitsOnce ==
    ASSUME rows \in [Shards -> Seq(Events)], NEW s \in Shards, NEW e \in Events,
           NEW replaced \in BOOLEAN, Leave(s, replaced, Append(Old(s, replaced), e)),
           denied' = denied, <<e, s>> \notin denied, Kept(rows, denied, e) = {}
    PROVE  \E p : Kept(rows', denied', e) = {p}
<1> DEFINE old == Old(s, replaced)
           n == Len(old) + 1
<1>1. old \in Seq(Events) /\ Sub(old, rows[s], e)
  BY OldRows
<1>2. /\ n \in DOMAIN Append(old, e) /\ Append(old, e)[n] = e
      /\ \A i \in DOMAIN Append(old, e) :
            i # n => i \in DOMAIN old /\ Append(old, e)[i] = old[i]
  BY <1>1, SMTT(30)
<1>3. rows'[s] = Append(old, e) /\ \A t \in Shards : t # s => rows'[t] = rows[t]
  BY DEF Leave
<1> HIDE DEF old, n
<1>4. <<s, n>> \in Kept(rows', denied', e)
  BY <1>2, <1>3, KeptAt
<1>5. ASSUME NEW p \in Kept(rows', denied', e) PROVE p = <<s, n>>
  <2>0. Row(rows', denied', e, p)
    BY KeptPicks
  <2>1. PICK t \in Shards : \E i \in DOMAIN rows'[t] :
            <<e, t>> \notin denied' /\ p = <<t, i>> /\ rows'[t][i] = e
    BY <2>0 DEF Row
  <2>2. PICK i \in DOMAIN rows'[t] :
            <<e, t>> \notin denied' /\ p = <<t, i>> /\ rows'[t][i] = e
    BY <2>1
  <2>3. ASSUME ~(t = s /\ i = n) PROVE FALSE
    <3>1. i \in DOMAIN rows[t] /\ rows[t][i] = e
      BY <1>1, <1>2, <1>3, <2>1, <2>2, <2>3 DEF Sub
    <3>2. <<t, i>> \in Kept(rows, denied, e)
      BY <2>1, <2>2, <3>1, KeptAt
    <3> QED
      BY <3>2
  <2> QED
    BY <2>2, <2>3
<1>6. Kept(rows', denied', e) = {<<s, n>>}
  BY <1>4, <1>5
<1> QED
  BY <1>6

\* One that is denied adds none.
LEMMA CommitsDenied ==
    ASSUME rows \in [Shards -> Seq(Events)], NEW s \in Shards, NEW e \in Events,
           NEW q, rows' = [rows EXCEPT ![s] = q],
           denied' = denied \union {<<e, s>>}, Kept(rows, denied, e) = {}
    PROVE  Kept(rows', denied', e) = {}
<1> SUFFICES ASSUME NEW p \in Kept(rows', denied', e) PROVE FALSE
  OBVIOUS
<1>0. Row(rows', denied', e, p)
  BY KeptPicks
<1>1. PICK t \in Shards : \E i \in DOMAIN rows'[t] :
          <<e, t>> \notin denied' /\ p = <<t, i>> /\ rows'[t][i] = e
  BY <1>0 DEF Row
<1>2. PICK i \in DOMAIN rows'[t] : <<e, t>> \notin denied' /\ p = <<t, i>> /\ rows'[t][i] = e
  BY <1>1
<1>3. t # s /\ <<e, t>> \notin denied /\ rows'[t] = rows[t]
  BY <1>2
<1>4. <<t, i>> \in Kept(rows, denied, e)
  BY <1>2, <1>3, KeptAt
<1> QED
  BY <1>4

-----------------------------------------------------------------------------
(* Senders. *)

LEMMA EventNumbers ==
    /\ Main \in Events /\ -1 \notin Events
    /\ \A n \in 0..Reports : Main \notin 1..n /\ 1..n \subseteq Events /\ ~(Main > n)
    /\ \A n \in 0..Reports : \A e \in 1..n : ~(e > n)
    /\ Idle.event = -1 /\ Idle.shard = 0 /\ Idle.reply = "none"
    /\ "supervisor" \in Senders /\ "worker" \in Senders
    /\ \A x \in Senders : x # "supervisor" <=> x = "worker"
BY CountsAssumption, SMTT(30) DEF Main, Events, Idle, Senders

\* What a sender offers is in no one else's hands.
LEMMA OfferOwned ==
    ASSUME SyntheticTypes, OffersOwn, NEW x \in Senders, offer[x].reply # "none"
    PROVE  /\ offer[x].event \in Events /\ fate[offer[x].event] = "none"
           /\ x = "worker" => offer[x].event \in 1..reported
           /\ x # "worker" => offer[x].event = Main
           /\ ~(offer[x].event > reported)
           /\ \A y \in Senders : y # x => offer[y].event # offer[x].event
<1>1. reported \in 0..Reports
  BY DEF SyntheticTypes
<1>2. \A y \in Senders : offer[y] # Idle =>
          /\ offer[y].event \in IF y = "supervisor" THEN {Main} ELSE 1..reported
          /\ fate[offer[y].event] = "none"
  BY DEF OffersOwn
<1>3. offer[x] # Idle
  BY EventNumbers
<1>4. \A y \in Senders : /\ y = "worker" => offer[y].event = -1 \/ offer[y].event \in 1..reported
                         /\ y # "worker" => offer[y].event = -1 \/ offer[y].event = Main
  BY <1>2, EventNumbers
<1>5. x = "worker" => offer[x].event \in 1..reported
  BY <1>2, <1>3, EventNumbers
<1>6. x # "worker" => offer[x].event = Main
  BY <1>2, <1>3, EventNumbers
<1>7. offer[x].event \in Events /\ ~(offer[x].event > reported)
  BY <1>1, <1>5, <1>6, EventNumbers
<1>8. ASSUME NEW y \in Senders, y # x PROVE offer[y].event # offer[x].event
  <2>1. -1 \notin Events /\ Main \notin 1..reported
    BY <1>1, EventNumbers
  <2>2. CASE x = "worker"
    <3>1. offer[y].event \in {-1, Main}
      BY <1>4, <1>8, <2>2
    <3> QED
      BY <1>5, <1>7, <2>1, <2>2, <3>1
  <2>3. CASE x # "worker"
    <3>1. y = "worker"
      BY <1>8, <2>3, EventNumbers
    <3>2. offer[y].event = -1 \/ offer[y].event \in 1..reported
      BY <1>4, <3>1
    <3> QED
      BY <1>6, <1>7, <2>1, <2>3, <3>2
  <2> QED
    BY <2>2, <2>3
<1> QED
  BY <1>2, <1>3, <1>5, <1>6, <1>7, <1>8

\* The offer of x goes on, with the same event.
Turned(x) ==
    /\ offer[x].reply # "none" /\ offer'[x].reply # "none"
    /\ offer'[x].event = offer[x].event
    /\ offer'[x].reply \in InSlot => offer'[x].shard \in Shards
    /\ \A y \in Senders : y # x => offer'[y] = offer[y]
    /\ UNCHANGED <<backlog, worker, owner, reported, fate>>

LEMMA TurnedKeeps ==
    ASSUME SyntheticTypes, OffersOwn, ReportsKept, NEW x \in Senders, Turned(x)
    PROVE  OffersOwn' /\ ReportsKept'
<1>1. offer[x] # Idle
  BY EventNumbers DEF Turned
<1>2. OffersOwn'
  BY <1>1 DEF OffersOwn, Turned
<1>3. offer'["worker"].event = offer["worker"].event
  BY EventNumbers DEF Turned
<1>4. offer["worker"] = Idle => offer'["worker"] = Idle
  BY <1>1, EventNumbers DEF Turned
<1>5. ReportsKept'
  BY <1>3, <1>4 DEF ReportsKept, Turned
<1> QED
  BY <1>2, <1>5

\* It has had the answers it had, and a denial is one of them.
LEMMA TurnedDenied ==
    ASSUME SyntheticTypes, OffersOwn, DeniedTried, NEW x \in Senders, Turned(x),
           Tried(offer[x]) \subseteq Tried(offer'[x]),
           \A e \in Events, s \in Shards : <<e, s>> \in denied' =>
               <<e, s>> \in denied \/ (e = offer[x].event /\ s \in Tried(offer'[x]))
    PROVE  DeniedTried'
<1> SUFFICES ASSUME NEW e \in Events, NEW s \in Shards, <<e, s>> \in denied', fate'[e] = "none"
             PROVE  \E y \in Senders : offer'[y].event = e /\ s \in Tried(offer'[y])
  BY DEF DeniedTried, Tried
<1>1. offer'[x].event = offer[x].event /\ fate' = fate
  BY DEF Turned
<1>2. CASE <<e, s>> \in denied
  <2>1. PICK y \in Senders : offer[y].event = e /\ s \in Tried(offer[y])
    BY <1>1, <1>2 DEF DeniedTried
  <2>2. CASE y = x
    BY <1>1, <2>1, <2>2
  <2>3. CASE y # x
    <3>1. offer'[y] = offer[y]
      BY <2>3 DEF Turned
    <3> QED
      BY <2>1, <3>1
  <2> QED
    BY <2>2, <2>3
<1>3. CASE e = offer[x].event /\ s \in Tried(offer'[x])
  BY <1>1, <1>3
<1> QED
  BY <1>2, <1>3

\* What it does to the rows wears those of other events at most, and the reply is
\* true.
ReplyTrue(e, reply) ==
    /\ \A f \in Events : f # e => Worn(f)
    /\ \A p, q \in Kept(rows', denied', e) : p = q
    /\ reply # "ok" => Kept(rows', denied', e) = {}
    /\ reply = "ok" => Kept(rows', denied', e) # {}

\* The rows of one event, before and after it is worn.
RowsOf(r, d, l, f, verdict, unoffered) ==
    /\ \A p, q \in Kept(r, d, f) : p = q
    /\ verdict = "stored" => Kept(r, d, f) # {} \/ f \in l
    /\ verdict = "logged" => Kept(r, d, f) = {}
    /\ verdict = "none" /\ unoffered => Kept(r, d, f) = {}

LEMMA WornRows ==
    ASSUME NEW f, Worn(f), NEW v, NEW u, RowsOf(rows, denied, lost, f, v, u)
    PROVE  RowsOf(rows', denied', lost', f, v, u)
<1> DEFINE K == Kept(rows, denied, f)
           L == Kept(rows', denied', f)
<1>1. L \subseteq K /\ (L = K \/ f \in lost') /\ (f \in lost => f \in lost')
  BY DEF Worn
<1>2. /\ \A p, q \in K : p = q
      /\ v = "stored" => K # {} \/ f \in lost
      /\ v = "logged" => K = {}
      /\ v = "none" /\ u => K = {}
  BY DEF RowsOf
<1> HIDE DEF K, L
<1>3. /\ \A p, q \in L : p = q
      /\ v = "stored" => L # {} \/ f \in lost'
      /\ v = "logged" => L = {}
      /\ v = "none" /\ u => L = {}
  BY <1>1, <1>2
<1> QED
  BY <1>3 DEF RowsOf, L

\* The rows of what a sender offers.
RowsFor(r, d, l, o) ==
    /\ o.reply \in {"refused"} \union InSlot => Kept(r, d, o.event) = {}
    /\ o.reply = "ok" => Kept(r, d, o.event) # {} \/ o.event \in l

LEMMA WornOffer ==
    ASSUME NEW o, Worn(o.event), RowsFor(rows, denied, lost, o)
    PROVE  RowsFor(rows', denied', lost', o)
BY DEF RowsFor, Worn

LEMMA RowsTrueIs ==
    RowsTrue <=>
        /\ \A f \in Events :
              RowsOf(rows, denied, lost, f, fate[f], \A x \in Senders : offer[x].event # f)
        /\ \A x \in Senders : RowsFor(rows, denied, lost, offer[x])
BY DEF RowsTrue, RowsOf, RowsFor

LEMMA RowsSaid ==
    ASSUME UNCHANGED <<rows, denied, lost>>,
           \A f \in Events :
              RowsOf(rows, denied, lost, f, fate'[f], \A x \in Senders : offer'[x].event # f),
           \A x \in Senders : RowsFor(rows, denied, lost, offer'[x])
    PROVE  RowsTrue'
<1>1. rows' = rows /\ denied' = denied /\ lost' = lost
  OBVIOUS
<1>2. \A f \in Events :
          RowsOf(rows', denied', lost', f, fate'[f], \A x \in Senders : offer'[x].event # f)
  BY <1>1
<1>3. \A x \in Senders : RowsFor(rows', denied', lost', offer'[x])
  BY <1>1
<1> QED
  BY <1>2, <1>3 DEF RowsTrue, RowsOf, RowsFor

LEMMA RowsSame ==
    ASSUME RowsTrue, UNCHANGED <<rows, denied, lost, fate, offer>>
    PROVE  RowsTrue'
BY DEF RowsTrue

LEMMA DeniedSame ==
    ASSUME DeniedTried, UNCHANGED <<denied, fate, offer>>
    PROVE  DeniedTried'
BY DEF DeniedTried

\* Rows that are worn, whatever the event.
LEMMA WornKeeps ==
    ASSUME SyntheticTypes, OffersOwn, RowsTrue, UNCHANGED <<offer, fate>>,
           \A f \in Events : Worn(f)
    PROVE  RowsTrue'
<1>1. ASSUME NEW f \in Events
      PROVE  RowsOf(rows', denied', lost', f, fate[f], \A x \in Senders : offer[x].event # f)
  <2>1. PICK u \in BOOLEAN : u = \A x \in Senders : offer[x].event # f
    OBVIOUS
  <2>2. RowsOf(rows, denied, lost, f, fate[f], u) /\ Worn(f)
    BY <2>1, RowsTrueIs
  <2> QED
    BY <2>1, <2>2, WornRows
<1>2. ASSUME NEW x \in Senders PROVE RowsFor(rows', denied', lost', offer[x])
  <2>1. RowsFor(rows, denied, lost, offer[x])
    BY RowsTrueIs
  <2>2. CASE offer[x].reply = "none"
    BY <2>2 DEF RowsFor, InSlot
  <2>3. CASE offer[x].reply # "none"
    <3>1. Worn(offer[x].event)
      BY <2>3, OfferOwned
    <3> QED
      BY <2>1, <3>1, WornOffer
  <2> QED
    BY <2>2, <2>3
<1> QED
  BY <1>1, <1>2 DEF RowsTrue, RowsOf, RowsFor

LEMMA TurnedRows ==
    ASSUME SyntheticTypes, OffersOwn, RowsTrue, NEW x \in Senders, Turned(x),
           NEW e, e = offer[x].event, ReplyTrue(e, offer'[x].reply)
    PROVE  RowsTrue'
<1>0. /\ \A f \in Events : f # e => Worn(f)
      /\ \A p, q \in Kept(rows', denied', e) : p = q
      /\ offer'[x].reply # "ok" => Kept(rows', denied', e) = {}
      /\ offer'[x].reply = "ok" => Kept(rows', denied', e) # {}
  BY DEF ReplyTrue
<1>1. /\ e \in Events /\ fate[e] = "none" /\ fate' = fate /\ offer'[x].event = e
      /\ \A y \in Senders : y # x => offer[y].event # e /\ offer'[y] = offer[y]
  BY OfferOwned DEF Turned
<1>2. ASSUME NEW f \in Events
      PROVE  RowsOf(rows', denied', lost', f, fate'[f], \A y \in Senders : offer'[y].event # f)
  <2>1. CASE f = e
    <3>1. fate'[f] = "none" /\ offer'[x].event = f
      BY <1>1, <2>1
    <3> QED
      BY <1>0, <2>1, <3>1 DEF RowsOf
  <2>2. CASE f # e
    <3>1. PICK u \in BOOLEAN : u = \A y \in Senders : offer[y].event # f
      OBVIOUS
    <3>2. RowsOf(rows, denied, lost, f, fate[f], u) /\ Worn(f)
      BY <1>0, <2>2, <3>1, RowsTrueIs
    <3>3. RowsOf(rows', denied', lost', f, fate[f], u)
      BY <3>2, WornRows
    <3>4. (\A y \in Senders : offer'[y].event # f) => u
      BY <1>1, <2>2, <3>1
    <3> QED
      BY <1>1, <3>3, <3>4 DEF RowsOf
  <2> QED
    BY <2>1, <2>2
<1>3. ASSUME NEW y \in Senders PROVE RowsFor(rows', denied', lost', offer'[y])
  <2>1. CASE y = x
    BY <1>0, <1>1, <2>1 DEF RowsFor, InSlot
  <2>2. CASE y # x
    <3>1. offer'[y] = offer[y] /\ offer[y].event # e /\ RowsFor(rows, denied, lost, offer[y])
      BY <1>1, <2>2, RowsTrueIs
    <3>2. CASE offer[y].reply = "none"
      BY <3>1, <3>2 DEF RowsFor, InSlot
    <3>3. CASE offer[y].reply # "none"
      <4>1. Worn(offer[y].event)
        BY <1>0, <3>1, <3>3, OfferOwned
      <4> QED
        BY <3>1, <4>1, WornOffer
    <3> QED
      BY <3>2, <3>3
  <2> QED
    BY <2>1, <2>2
<1> QED
  BY <1>2, <1>3 DEF RowsTrue, RowsOf, RowsFor

\* An offer that leaves the rows alone.
LEMMA RowsLeft ==
    ASSUME SyntheticTypes, OffersOwn, RowsTrue, NEW x \in Senders, Turned(x),
           offer[x].reply # "ok", offer'[x].reply # "ok", UNCHANGED <<rows, denied, lost>>
    PROVE  RowsTrue'
<1> DEFINE e == offer[x].event
<1>1. offer[x].reply \in {"refused"} \union InSlot
  BY SMTT(30) DEF SyntheticTypes, Offers, Turned, InSlot
<1>2. Kept(rows, denied, e) = {}
  BY <1>1 DEF RowsTrue
<1>3. \A f : Worn(f)
  BY DEF Worn
<1> HIDE DEF e
<1>4. e = offer[x].event
  BY DEF e
<1>5. ReplyTrue(e, offer'[x].reply)
  BY <1>2, <1>3 DEF ReplyTrue
<1> QED
  BY <1>4, <1>5, TurnedRows

-----------------------------------------------------------------------------
(* The steps of a sender. *)

LEMMA MembersOf ==
    ASSUME NEW S, NEW q \in Seq(S)
    PROVE  ToSet(q) \subseteq S
<1>1. \A i \in DOMAIN q : q[i] \in S
  BY SMTT(30)
<1> QED
  BY <1>1 DEF ToSet

\* A queue, and who waits for what is in it.
LEMMA MailFacts ==
    ASSUME SyntheticTypes, MailWaitedFor, NEW s \in Shards
    PROVE  /\ mailbox \in [Shards -> Seq(Senders)]
           /\ mailbox[s] \in Seq(Senders) /\ ToSet(mailbox[s]) \subseteq Senders
           /\ mailbox[s] # <<>> => writer[s] # "gone"
           /\ IsInjective(mailbox[s])
           /\ \A y \in ToSet(mailbox[s]) : offer[y].reply \in InSlot /\ offer[y].shard = s
<1>1. mailbox \in [Shards -> Seq(Senders)]
  BY DEF SyntheticTypes
<1>2. mailbox[s] \in Seq(Senders)
  BY <1>1
<1>3. ToSet(mailbox[s]) \subseteq Senders
  BY <1>2, MembersOf
<1> QED
  BY <1>1, <1>2, <1>3 DEF MailWaitedFor

LEMMA WaitsAt ==
    ASSUME OffersOwn, MailWaitedFor, NEW y \in Senders
    PROVE  /\ offer[y].reply \in InSlot => offer[y].shard \in Shards
           /\ Due(offer[y]) => /\ offer[y].reply \in InSlot
                               /\ y \in ToSet(mailbox[offer[y].shard])
<1>1. offer[y].reply \in InSlot => offer[y] # Idle
  BY EventNumbers DEF InSlot
<1> QED
  BY <1>1 DEF OffersOwn, MailWaitedFor, Due, InSlot

\* A step on one queue and on the offer of one sender, who is in no other queue.
LEMMA MailKeeps ==
    ASSUME SyntheticTypes, OffersOwn, MailWaitedFor, NEW x \in Senders, NEW n \in Shards,
           \A y \in Senders : y # x => offer'[y] = offer[y],
           \A s \in Shards : s # n => mailbox'[s] = mailbox[s] /\ writer'[s] = writer[s],
           \A s \in Shards : s # n => x \notin ToSet(mailbox[s]),
           offer'[x].reply \in InSlot => offer'[x].shard = n,
           mailbox'[n] # <<>> => writer'[n] # "gone",
           IsInjective(mailbox'[n]),
           \A y \in ToSet(mailbox'[n]) : offer'[y].reply \in InSlot /\ offer'[y].shard = n,
           \A y \in Senders : Due(offer[y])' /\ offer'[y].shard = n => y \in ToSet(mailbox'[n])
    PROVE  MailWaitedFor'
<1>1. ASSUME NEW s \in Shards
      PROVE  /\ mailbox'[s] # <<>> => writer'[s] # "gone"
             /\ IsInjective(mailbox'[s])
             /\ \A y \in ToSet(mailbox'[s]) : offer'[y].reply \in InSlot /\ offer'[y].shard = s
  <2>1. CASE s = n
    BY <2>1
  <2>2. CASE s # n
    <3>1. mailbox'[s] = mailbox[s] /\ writer'[s] = writer[s] /\ x \notin ToSet(mailbox[s])
      BY <2>2
    <3>2. /\ mailbox[s] # <<>> => writer[s] # "gone"
          /\ IsInjective(mailbox[s]) /\ ToSet(mailbox[s]) \subseteq Senders
          /\ \A y \in ToSet(mailbox[s]) : offer[y].reply \in InSlot /\ offer[y].shard = s
      BY MailFacts
    <3>3. ASSUME NEW y \in ToSet(mailbox[s]) PROVE offer'[y] = offer[y]
      <4>1. y \in Senders /\ y # x
        BY <3>1, <3>2
      <4> QED
        BY <4>1
    <3>4. mailbox'[s] # <<>> => writer'[s] # "gone"
      BY <3>1, <3>2
    <3>5. IsInjective(mailbox'[s])
      BY <3>1, <3>2
    <3>6. ASSUME NEW y \in ToSet(mailbox'[s])
          PROVE  offer'[y].reply \in InSlot /\ offer'[y].shard = s
      <4>1. y \in ToSet(mailbox[s])
        BY <3>1
      <4> QED
        BY <3>2, <3>3, <4>1
    <3> QED
      BY <3>4, <3>5, <3>6
  <2> QED
    BY <2>1, <2>2
<1>2. ASSUME NEW y \in Senders, Due(offer[y])'
      PROVE  y \in ToSet(mailbox'[offer'[y].shard])
  <2>1. CASE offer'[y].shard = n
    BY <1>2, <2>1
  <2>2. CASE offer'[y].shard # n
    <3>1. offer'[y].reply \in InSlot
      BY <1>2 DEF Due, InSlot
    <3>2. offer'[y] = offer[y]
      BY <2>2, <3>1
    <3>3. PICK s \in Shards : s = offer[y].shard
      BY <3>1, <3>2, WaitsAt
    <3>4. mailbox'[s] = mailbox[s] /\ writer'[s] = writer[s]
      BY <2>2, <3>2, <3>3
    <3>5. Due(offer[y])
      BY <1>2, <3>2, <3>3, <3>4 DEF Due
    <3>6. y \in ToSet(mailbox[s])
      BY <3>3, <3>5, WaitsAt
    <3> QED
      BY <3>2, <3>3, <3>4, <3>6
  <2> QED
    BY <2>1, <2>2
<1> QED
  BY <1>1, <1>2 DEF MailWaitedFor

\* A step of a sender who waits neither before nor after it.
LEMMA MailStill ==
    ASSUME SyntheticTypes, MailWaitedFor, NEW x \in Senders,
           \A y \in Senders : y # x => offer'[y] = offer[y],
           \A s \in Shards : x \notin ToSet(mailbox[s]),
           offer'[x].reply \notin InSlot, UNCHANGED <<mailbox, writer>>
    PROVE  MailWaitedFor'
<1>1. ASSUME NEW s \in Shards
      PROVE  /\ mailbox[s] # <<>> => writer[s] # "gone"
             /\ IsInjective(mailbox[s])
             /\ \A y \in ToSet(mailbox[s]) : offer'[y].reply \in InSlot /\ offer'[y].shard = s
  <2>1. /\ mailbox[s] # <<>> => writer[s] # "gone"
        /\ IsInjective(mailbox[s]) /\ ToSet(mailbox[s]) \subseteq Senders
        /\ \A y \in ToSet(mailbox[s]) : offer[y].reply \in InSlot /\ offer[y].shard = s
    BY MailFacts
  <2>2. \A y \in ToSet(mailbox[s]) : offer'[y] = offer[y]
    BY <2>1
  <2> QED
    BY <2>1, <2>2
<1>2. ASSUME NEW y \in Senders, Due(offer[y])'
      PROVE  y \in ToSet(mailbox[offer'[y].shard])
  <2>1. offer'[y].reply \in InSlot
    BY <1>2 DEF Due, InSlot
  <2>2. offer'[y] = offer[y]
    BY <2>1
  <2> QED
    BY <1>2, <2>2 DEF MailWaitedFor, Due
<1> QED
  BY <1>1, <1>2 DEF MailWaitedFor

LEMMA NotInMail ==
    ASSUME MailWaitedFor, NEW x, offer[x].reply \notin InSlot, NEW s \in Shards
    PROVE  x \notin ToSet(mailbox[s])
BY DEF MailWaitedFor

LEMMA OfferRecords ==
    ASSUME SyntheticTypes, NEW x \in Senders
    PROVE  /\ DOMAIN offer[x] = {"event", "shard", "reply"}
           /\ offer[x].event \in Events \union {-1} /\ offer[x].shard \in 0..Writers
           /\ offer[x].reply \in {"none", "refused", "held", "waiting", "ok"}
BY SMTT(30) DEF SyntheticTypes, Offers

LEMMA ShardNumbers ==
    \A n \in 0..Writers : /\ n + 1 > Writers \/ n + 1 \in Shards
                          /\ Shards \subseteq 0..Writers /\ 0 \in 0..Writers
BY CountsAssumption, SMTT(30) DEF Shards

LEMMA TriedNumbers ==
    ASSUME NEW n \in 0..Writers
    PROVE  /\ 1..n \subseteq 1..(n + 1) /\ 1..n = 1..((n + 1) - 1)
           /\ 1..(n - 1) \subseteq 1..n /\ n \notin 1..(n - 1) /\ (n \in Shards => n \in 1..n)
           /\ 0 \notin Shards /\ \A s \in Shards : s \notin 1..0
BY CountsAssumption, SMTT(30) DEF Shards

\* The offer of x is now o.
Turns(x, o) ==
    /\ offer' = [offer EXCEPT ![x] = o] /\ o \in Offers /\ o.event = offer[x].event
    /\ offer[x].reply \notin {"none", "ok"} /\ o.reply \notin {"none", "ok"}
    /\ o.reply \in InSlot => o.shard \in Shards
    /\ Tried(offer[x]) \subseteq Tried(o)
    /\ UNCHANGED <<writer, fate, rows, denied, lost, backlog, worker, owner, reported>>

LEMMA TurnsKeeps ==
    ASSUME SyntheticInv, NEW x \in Senders, NEW o, Turns(x, o),
           mailbox' \in [Shards -> Seq(Senders)]
    PROVE  /\ SyntheticTypes' /\ OffersOwn' /\ RowsTrue' /\ DeniedTried' /\ ReportsKept'
           /\ offer'[x] = o /\ \A y \in Senders : y # x => offer'[y] = offer[y]
<1>1. SyntheticTypes /\ OffersOwn /\ RowsTrue /\ DeniedTried /\ ReportsKept
  BY DEF SyntheticInv
<1>2. offer'[x] = o /\ \A y \in Senders : y # x => offer'[y] = offer[y]
  BY <1>1 DEF SyntheticTypes, Turns
<1>3. Turned(x)
  BY <1>2 DEF Turned, Turns
<1>4. SyntheticTypes'
  BY <1>1 DEF SyntheticTypes, Turns
<1>5. RowsTrue'
  BY <1>1, <1>2, <1>3, RowsLeft DEF Turns
<1>6. DeniedTried'
  <2>1. Tried(offer[x]) \subseteq Tried(offer'[x]) /\ denied' = denied
    BY <1>2 DEF Turns
  <2> QED
    BY <1>1, <1>3, <2>1, TurnedDenied
<1> QED
  BY <1>1, <1>2, <1>3, <1>4, <1>5, <1>6, TurnedKeeps

\* The next shard is tried.
LEMMA OfferNextKeeps ==
    ASSUME SyntheticInv, NEW x \in Senders, OfferNext(x), ~(offer[x].shard + 1 > Writers)
    PROVE  SyntheticInv'
<1> DEFINE n == offer[x].shard + 1
           reply == IF Open(n) THEN "held" ELSE "refused"
           o == [offer[x] EXCEPT !.shard = n, !.reply = reply]
<1>1. SyntheticTypes /\ OffersOwn /\ MailWaitedFor
  BY DEF SyntheticInv
<1>2. n \in Shards /\ n \in 0..Writers
  BY <1>1, OfferRecords, ShardNumbers
<1>3. /\ offer[x].reply = "refused" /\ offer' = [offer EXCEPT ![x] = o]
      /\ mailbox' = IF Open(n) THEN [mailbox EXCEPT ![n] = Append(@, x)] ELSE mailbox
      /\ UNCHANGED <<writer, fate, rows, denied, lost, backlog, worker, owner, reported>>
  <2>1. DOMAIN offer = Senders /\ DOMAIN offer[x] = {"event", "shard", "reply"}
    BY <1>1, OfferRecords DEF SyntheticTypes
  <2>2. offer' = [offer EXCEPT ![x].shard = n, ![x].reply = reply]
    BY DEF OfferNext
  <2> QED
    BY <2>1, <2>2 DEF OfferNext, shardVars, reporterVars
<1>4. o.event = offer[x].event /\ o.shard = n /\ o.reply = reply /\ o \in Offers
  <2>1. /\ DOMAIN offer[x] = {"event", "shard", "reply"}
        /\ offer[x].event \in Events \union {-1}
    BY <1>1, OfferRecords
  <2>2. reply \in {"none", "refused", "held", "waiting", "ok"}
    OBVIOUS
  <2> HIDE DEF n, reply
  <2> QED
    BY <1>2, <2>1, <2>2 DEF Offers
<1>5. reply = IF Open(n) THEN "held" ELSE "refused"
  OBVIOUS
<1>6. Tried(offer[x]) \subseteq Tried(o)
  <2>1. 1..offer[x].shard \subseteq 1..n /\ 1..offer[x].shard = 1..(n - 1)
    BY <1>1, OfferRecords, TriedNumbers
  <2> HIDE DEF n, reply, o
  <2> QED
    BY <1>3, <1>4, <1>5, <2>1 DEF Tried
<1> HIDE DEF n, o, reply
<1>7. Turns(x, o)
  BY <1>2, <1>3, <1>4, <1>5, <1>6 DEF Turns
<1>8. \A s \in Shards : x \notin ToSet(mailbox[s])
  BY <1>1, <1>3, NotInMail DEF InSlot
<1>9. CASE Open(n)
  <2>1. mailbox[n] \in Seq(Senders) /\ mailbox \in [Shards -> Seq(Senders)]
        /\ IsInjective(mailbox[n])
    BY <1>1, <1>2, MailFacts
  <2>2. /\ Append(mailbox[n], x) \in Seq(Senders)
        /\ ToSet(Append(mailbox[n], x)) = ToSet(mailbox[n]) \union {x}
        /\ IsInjective(Append(mailbox[n], x))
    <3>1. PICK q \in Seq(Senders) : q = mailbox[n]
      BY <2>1
    <3>2. IsInjective(q) /\ x \notin ToSet(q)
      BY <1>2, <1>8, <2>1, <3>1
    <3>3. Append(q, x) \in Seq(Senders)
      BY AppendSet
    <3>4. ToSet(Append(q, x)) = ToSet(q) \union {x}
      BY AppendSet, SMTT(30)
    <3>5. IsInjective(Append(q, x))
      BY <3>2, AppendSet
    <3> QED
      BY <3>1, <3>3, <3>4, <3>5
  <2>3. /\ mailbox'[n] = Append(mailbox[n], x)
        /\ \A s \in Shards : s # n => mailbox'[s] = mailbox[s]
        /\ mailbox' \in [Shards -> Seq(Senders)]
    BY <1>2, <1>3, <1>9, <2>1, <2>2
  <2>4. /\ SyntheticTypes' /\ OffersOwn' /\ RowsTrue' /\ DeniedTried' /\ ReportsKept'
        /\ offer'[x] = o /\ \A y \in Senders : y # x => offer'[y] = offer[y]
    BY <1>7, <2>3, TurnsKeeps
  <2>5. ToSet(mailbox'[n]) = ToSet(mailbox[n]) \union {x} /\ IsInjective(mailbox'[n])
    BY <2>2, <2>3
  <2>6. offer'[x].reply \in InSlot /\ offer'[x].shard = n
    BY <1>4, <1>5, <1>9, <2>4 DEF InSlot
  <2>7. \A y \in ToSet(mailbox'[n]) : offer'[y].reply \in InSlot /\ offer'[y].shard = n
    <3>1. ToSet(mailbox[n]) \subseteq Senders
          /\ \A y \in ToSet(mailbox[n]) : offer[y].reply \in InSlot /\ offer[y].shard = n
      BY <1>1, <1>2, MailFacts
    <3>2. \A y \in ToSet(mailbox[n]) : y # x
      BY <1>2, <1>8
    <3> QED
      BY <2>4, <2>5, <2>6, <3>1, <3>2
  <2>8. ASSUME NEW y \in Senders, Due(offer[y])', offer'[y].shard = n
        PROVE  y \in ToSet(mailbox'[n])
    <3>1. CASE y = x
      BY <2>5, <3>1
    <3>2. CASE y # x
      <4>1. Due(offer[y]) /\ offer[y].shard = n
        BY <1>3, <2>4, <2>8, <3>2 DEF Due
      <4> QED
        BY <1>1, <2>5, <4>1, WaitsAt
    <3> QED
      BY <3>1, <3>2
  <2>9. MailWaitedFor'
    <3>1. \A s \in Shards : s # n => mailbox'[s] = mailbox[s] /\ writer'[s] = writer[s]
      BY <1>3, <2>3
    <3>2. writer'[n] # "gone"
      BY <1>3, <1>9 DEF Open
    <3> QED
      BY <1>1, <1>2, <1>8, <2>4, <2>5, <2>6, <2>7, <2>8, <3>1, <3>2, MailKeeps
  <2> QED
    BY <2>4, <2>9 DEF SyntheticInv
<1>10. CASE ~Open(n)
  <2>1. mailbox' = mailbox /\ mailbox' \in [Shards -> Seq(Senders)]
    BY <1>1, <1>3, <1>10 DEF SyntheticTypes
  <2>2. /\ SyntheticTypes' /\ OffersOwn' /\ RowsTrue' /\ DeniedTried' /\ ReportsKept'
        /\ offer'[x] = o /\ \A y \in Senders : y # x => offer'[y] = offer[y]
    BY <1>7, <2>1, TurnsKeeps
  <2>3. offer'[x].reply \notin InSlot
    BY <1>4, <1>5, <1>10, <2>2 DEF InSlot
  <2>4. MailWaitedFor'
    BY <1>1, <1>3, <1>8, <2>1, <2>2, <2>3, MailStill
  <2> QED
    BY <2>2, <2>4 DEF SyntheticInv
<1> QED
  BY <1>9, <1>10

\* Another reply for x, and nothing else.
LEMMA ReplyTurns ==
    ASSUME SyntheticInv, NEW x \in Senders, offer[x].reply \in InSlot,
           NEW reply \in {"waiting", "refused"}, offer' = [offer EXCEPT ![x].reply = reply],
           UNCHANGED <<mailbox, writer, fate, rows, denied, lost, backlog, worker, owner, reported>>
    PROVE  /\ SyntheticTypes' /\ OffersOwn' /\ RowsTrue' /\ DeniedTried' /\ ReportsKept'
           /\ offer'[x].reply = reply /\ offer'[x].shard = offer[x].shard
           /\ \A y \in Senders : y # x => offer'[y] = offer[y]
<1> DEFINE o == [offer[x] EXCEPT !.reply = reply]
<1>1. SyntheticTypes /\ OffersOwn /\ MailWaitedFor
  BY DEF SyntheticInv
<1>2. DOMAIN offer = Senders /\ DOMAIN offer[x] = {"event", "shard", "reply"}
  BY <1>1, OfferRecords DEF SyntheticTypes
<1>3. offer' = [offer EXCEPT ![x] = o]
  BY <1>2
<1>4. o.event = offer[x].event /\ o.reply = reply /\ o.shard = offer[x].shard /\ o \in Offers
  BY <1>1, OfferRecords, SMTT(30) DEF Offers
<1> HIDE DEF o
<1>5. offer[x].shard \in Shards /\ offer[x].shard \in 0..Writers
  BY <1>1, OfferRecords, WaitsAt
<1>6. Tried(offer[x]) \subseteq Tried(o)
  <2>1. 1..(offer[x].shard - 1) \subseteq 1..offer[x].shard
    BY <1>5, TriedNumbers
  <2> QED
    BY <1>4, <2>1 DEF Tried, InSlot
<1>7. Turns(x, o)
  BY <1>3, <1>4, <1>5, <1>6 DEF Turns, InSlot
<1>8. mailbox' \in [Shards -> Seq(Senders)]
  BY <1>1 DEF SyntheticTypes
<1> QED
  BY <1>4, <1>7, <1>8, TurnsKeeps

\* The message is published.
LEMMA PublishKeeps ==
    ASSUME SyntheticInv, NEW x \in Senders, PublishSynthetic(x)
    PROVE  SyntheticInv'
<1>1. SyntheticTypes /\ OffersOwn /\ MailWaitedFor
  BY DEF SyntheticInv
<1>2. /\ offer[x].reply = "held" /\ offer' = [offer EXCEPT ![x].reply = "waiting"]
      /\ UNCHANGED <<mailbox, writer, fate, rows, denied, lost, backlog, worker, owner, reported>>
  BY DEF PublishSynthetic, shardVars, reporterVars
<1>3. offer[x].reply \in InSlot /\ Due(offer[x])
  BY <1>2 DEF InSlot, Due
<1>4. /\ SyntheticTypes' /\ OffersOwn' /\ RowsTrue' /\ DeniedTried' /\ ReportsKept'
      /\ offer'[x].reply = "waiting" /\ offer'[x].shard = offer[x].shard
      /\ \A y \in Senders : y # x => offer'[y] = offer[y]
  BY <1>2, <1>3, ReplyTurns
<1>5. PICK n \in Shards : n = offer[x].shard
  BY <1>1, <1>3, WaitsAt
<1>6. x \in ToSet(mailbox[n])
  BY <1>1, <1>3, <1>5, WaitsAt
<1>7. /\ mailbox[n] # <<>> => writer[n] # "gone"
      /\ IsInjective(mailbox[n]) /\ ToSet(mailbox[n]) \subseteq Senders
      /\ \A y \in ToSet(mailbox[n]) : offer[y].reply \in InSlot /\ offer[y].shard = n
  BY <1>1, MailFacts
<1>8. ASSUME NEW s \in Shards, s # n PROVE x \notin ToSet(mailbox[s])
  BY <1>1, <1>5, <1>8, MailFacts
<1>9. \A y \in ToSet(mailbox[n]) : offer'[y].reply \in InSlot /\ offer'[y].shard = n
  BY <1>4, <1>5, <1>7 DEF InSlot
<1>10. ASSUME NEW y \in Senders, Due(offer[y])', offer'[y].shard = n
       PROVE  y \in ToSet(mailbox[n])
  <2>1. CASE y = x
    BY <1>6, <2>1
  <2>2. CASE y # x
    <3>1. Due(offer[y]) /\ offer[y].shard = n
      BY <1>2, <1>4, <1>10, <2>2 DEF Due
    <3> QED
      BY <1>1, <3>1, WaitsAt
  <2> QED
    BY <2>1, <2>2
<1>11. MailWaitedFor'
  <2>1. /\ \A s \in Shards : s # n => mailbox'[s] = mailbox[s] /\ writer'[s] = writer[s]
        /\ mailbox'[n] = mailbox[n] /\ writer'[n] = writer[n] /\ offer'[x].shard = n
    BY <1>2, <1>4, <1>5
  <2> QED
    BY <1>1, <1>4, <1>7, <1>8, <1>9, <1>10, <2>1, MailKeeps
<1> QED
  BY <1>4, <1>11 DEF SyntheticInv

\* The reply channel is closed.
LEMMA DisconnectedKeeps ==
    ASSUME SyntheticInv, NEW x \in Senders, Disconnected(x)
    PROVE  SyntheticInv'
<1>1. SyntheticTypes /\ OffersOwn /\ MailWaitedFor
  BY DEF SyntheticInv
<1>2. /\ offer[x].reply = "waiting" /\ x \notin ToSet(mailbox[offer[x].shard])
      /\ offer' = [offer EXCEPT ![x].reply = "refused"]
      /\ UNCHANGED <<mailbox, writer, fate, rows, denied, lost, backlog, worker, owner, reported>>
  BY DEF Disconnected, shardVars, reporterVars
<1>3. /\ SyntheticTypes' /\ OffersOwn' /\ RowsTrue' /\ DeniedTried' /\ ReportsKept'
      /\ offer'[x].reply = "refused" /\ \A y \in Senders : y # x => offer'[y] = offer[y]
  BY <1>2, ReplyTurns DEF InSlot
<1>4. ASSUME NEW s \in Shards PROVE x \notin ToSet(mailbox[s])
  BY <1>1, <1>2, MailFacts
<1>5. MailWaitedFor'
  BY <1>1, <1>2, <1>3, <1>4, MailStill DEF InSlot
<1> QED
  BY <1>3, <1>5 DEF SyntheticInv

\* An offer comes to its end, and the event has its fate.
LEMMA OfferEnds ==
    ASSUME SyntheticInv, NEW x \in Senders, NEW result,
           \/ offer[x].reply = "ok" /\ result = "stored"
           \/ offer[x].reply = "refused" /\ result = "logged",
           fate' = [fate EXCEPT ![offer[x].event] = result],
           offer' = [offer EXCEPT ![x] = Idle],
           UNCHANGED <<mailbox, writer, rows, denied, lost, backlog, worker, owner, reported>>
    PROVE  SyntheticInv'
<1> DEFINE e == offer[x].event
<1>1. SyntheticTypes /\ OffersOwn /\ MailWaitedFor /\ RowsTrue /\ DeniedTried /\ ReportsKept
  BY DEF SyntheticInv
<1>2. /\ e \in Events /\ fate[e] = "none"
      /\ x = "worker" => e \in 1..reported
      /\ x # "worker" => e = Main
      /\ ~(e > reported)
      /\ \A y \in Senders : y # x => offer[y].event # e
  BY <1>1, OfferOwned
<1>3. /\ offer'[x] = Idle /\ \A y \in Senders : y # x => offer'[y] = offer[y]
      /\ fate'[e] = result /\ \A f \in Events : f # e => fate'[f] = fate[f]
  BY <1>1, <1>2 DEF SyntheticTypes
<1>4. /\ result = "stored" => Kept(rows, denied, e) # {} \/ e \in lost
      /\ result = "logged" => Kept(rows, denied, e) = {}
      /\ result \in {"stored", "logged"}
  BY <1>1 DEF RowsTrue
<1>5. SyntheticTypes'
  <2>1. Idle \in Offers
    BY CountsAssumption, SMTT(30) DEF Idle, Offers
  <2> QED
    BY <1>1, <1>4, <2>1 DEF SyntheticTypes
<1> HIDE DEF e
<1>6. OffersOwn'
  <2>1. ASSUME NEW y \in Senders, offer'[y] # Idle
        PROVE  /\ offer'[y].reply # "none"
               /\ offer'[y].event \in IF y = "supervisor" THEN {Main} ELSE 1..reported
               /\ fate'[offer'[y].event] = "none"
               /\ offer'[y].reply \in InSlot => offer'[y].shard \in Shards
    <3>1. y # x /\ offer'[y] = offer[y] /\ offer[y] # Idle
      BY <1>3, <2>1
    <3>2. /\ offer[y].reply # "none"
          /\ offer[y].event \in IF y = "supervisor" THEN {Main} ELSE 1..reported
          /\ fate[offer[y].event] = "none"
          /\ offer[y].reply \in InSlot => offer[y].shard \in Shards
      BY <1>1, <3>1 DEF OffersOwn
    <3>3. offer[y].event \in Events /\ offer[y].event # e
      BY <1>1, <1>2, <3>1, <3>2, OfferOwned
    <3> QED
      BY <1>3, <3>1, <3>2, <3>3
  <2> QED
    BY <2>1 DEF OffersOwn
<1>7. MailWaitedFor'
  <2>1. offer[x].reply \notin InSlot /\ offer'[x].reply \notin InSlot
    BY <1>3, EventNumbers DEF InSlot
  <2>2. \A s \in Shards : x \notin ToSet(mailbox[s])
    BY <1>1, <2>1, NotInMail
  <2> QED
    BY <1>1, <1>3, <2>1, <2>2, MailStill
<1>8. RowsTrue'
  <2>1. ASSUME NEW f \in Events
        PROVE  RowsOf(rows, denied, lost, f, fate'[f], \A y \in Senders : offer'[y].event # f)
    <3>1. RowsOf(rows, denied, lost, f, fate[f], \A y \in Senders : offer[y].event # f)
      BY <1>1, RowsTrueIs
    <3>2. CASE f = e
      BY <1>3, <1>4, <3>1, <3>2 DEF RowsOf
    <3>3. CASE f # e
      <4>1. (\A y \in Senders : offer'[y].event # f) => \A y \in Senders : offer[y].event # f
        BY <1>3, <3>3 DEF e
      <4> QED
        BY <1>3, <3>1, <3>3, <4>1 DEF RowsOf
    <3> QED
      BY <3>2, <3>3
  <2>2. ASSUME NEW y \in Senders PROVE RowsFor(rows, denied, lost, offer'[y])
    <3>1. CASE y = x
      BY <1>3, <3>1, EventNumbers DEF RowsFor, InSlot
    <3>2. CASE y # x
      BY <1>1, <1>3, <3>2, RowsTrueIs
    <3> QED
      BY <3>1, <3>2
  <2> QED
    BY <2>1, <2>2, RowsSaid
<1>10. DeniedTried'
  <2> SUFFICES ASSUME NEW f \in Events, NEW s \in Shards, <<f, s>> \in denied, fate'[f] = "none"
               PROVE  \E y \in Senders : offer'[y].event = f /\ s \in Tried(offer'[y])
    BY DEF DeniedTried, Tried
  <2>1. f # e
    BY <1>3, <1>4
  <2>2. PICK y \in Senders : offer[y].event = f /\ s \in Tried(offer[y])
    BY <1>1, <1>3, <2>1 DEF DeniedTried
  <2>3. offer'[y] = offer[y]
    BY <1>3, <2>1, <2>2 DEF e
  <2> QED
    BY <2>2, <2>3
<1>9. ReportsKept'
  <2>1. /\ IsInjective(backlog)
        /\ \A f \in ToSet(backlog) :
              f \in 1..reported /\ fate[f] = "none" /\ offer["worker"].event # f
        /\ \A f \in 1..reported :
              fate[f] = "none" => offer["worker"].event = f \/ f \in ToSet(backlog)
        /\ \A f \in Events : f > reported => fate[f] = "none"
        /\ worker # "running" => backlog = <<>> /\ offer["worker"] = Idle
        /\ owner = "gone" <=> worker = "joined"
    BY <1>1 DEF ReportsKept
  <2>2. reported \in 0..Reports /\ 1..reported \subseteq Events /\ Main \notin 1..reported
        /\ -1 \notin Events
    BY <1>1, EventNumbers DEF SyntheticTypes
  <2>3. ASSUME NEW f \in ToSet(backlog)
        PROVE  f \in 1..reported /\ fate'[f] = "none" /\ offer'["worker"].event # f
    <3>1. f \in 1..reported /\ fate[f] = "none" /\ offer["worker"].event # f
      BY <2>1
    <3>2. f # e
      BY <1>2, <2>2, <3>1 DEF e
    <3>3. offer'["worker"].event # f
      BY <1>3, <2>2, <3>1, EventNumbers
    <3> QED
      BY <1>3, <2>2, <3>1, <3>2, <3>3
  <2>4. ASSUME NEW f \in 1..reported, fate'[f] = "none"
        PROVE  offer'["worker"].event = f \/ f \in ToSet(backlog)
    <3>1. f # e
      BY <1>3, <1>4, <2>4
    <3>2. offer["worker"].event = f \/ f \in ToSet(backlog)
      BY <1>3, <2>1, <2>2, <2>4, <3>1
    <3> QED
      BY <1>3, <3>1, <3>2, EventNumbers DEF e
  <2>5. \A f \in Events : f > reported => fate'[f] = "none"
    BY <1>2, <1>3, <2>1
  <2>6. offer["worker"] = Idle => offer'["worker"] = Idle
    BY <1>3, EventNumbers
  <2> QED
    BY <2>1, <2>3, <2>4, <2>5, <2>6 DEF ReportsKept
<1> QED
  BY <1>5, <1>6, <1>7, <1>8, <1>9, <1>10 DEF SyntheticInv

LEMMA AcceptedKeeps ==
    ASSUME SyntheticInv, NEW x \in Senders, Accepted(x)
    PROVE  SyntheticInv'
BY OfferEnds DEF Accepted, shardVars, reporterVars

LEMMA LoggedKeeps ==
    ASSUME SyntheticInv, NEW x \in Senders, OfferNext(x), offer[x].shard + 1 > Writers
    PROVE  SyntheticInv'
BY OfferEnds DEF OfferNext, shardVars, reporterVars

-----------------------------------------------------------------------------
(* The steps of a writer. *)

\* The first message in a queue.
LEMMA FirstMessage ==
    ASSUME SyntheticTypes, MailWaitedFor, NEW s \in Shards, mailbox[s] # <<>>
    PROVE  /\ Head(mailbox[s]) \in Senders /\ offer[Head(mailbox[s])].shard = s
           /\ Tail(mailbox[s]) \in Seq(Senders) /\ IsInjective(Tail(mailbox[s]))
           /\ ToSet(Tail(mailbox[s])) = ToSet(mailbox[s]) \ {Head(mailbox[s])}
           /\ writer[s] # "gone"
<1>1. /\ mailbox[s] \in Seq(Senders) /\ IsInjective(mailbox[s]) /\ writer[s] # "gone"
      /\ \A y \in ToSet(mailbox[s]) : offer[y].reply \in InSlot /\ offer[y].shard = s
  BY MailFacts
<1>2. /\ Head(mailbox[s]) \in Senders /\ Tail(mailbox[s]) \in Seq(Senders)
      /\ Head(mailbox[s]) \in ToSet(mailbox[s])
      /\ ToSet(Tail(mailbox[s])) = ToSet(mailbox[s]) \ {Head(mailbox[s])}
      /\ IsInjective(Tail(mailbox[s]))
  BY <1>1, TailSet, SMTT(30)
<1> QED
  BY <1>1, <1>2

\* The rows of a commit, and what the sender is told.
Committed(s, e, reply) ==
    \E replaced \in BOOLEAN :
        \/ /\ reply = "refused" /\ denied' = denied
           /\ Leave(s, replaced, Old(s, replaced))
        \/ /\ reply = "ok" /\ denied' = denied
           /\ Leave(s, replaced, Append(Old(s, replaced), e))
        \/ /\ reply = "refused" /\ denied' = denied \union {<<e, s>>}
           /\ Leave(s, replaced, Append(Old(s, replaced), e))

LEMMA CommittedRows ==
    ASSUME SyntheticTypes, NEW s \in Shards, NEW e \in Events, NEW reply, Committed(s, e, reply),
           Kept(rows, denied, e) = {}, <<e, s>> \notin denied
    PROVE  /\ rows' \in [Shards -> Seq(Events)]
           /\ ReplyTrue(e, reply)
           /\ denied' \subseteq denied \union {<<e, s>>}
           /\ reply = "ok" => denied' = denied
<1>1. rows \in [Shards -> Seq(Events)]
  BY DEF SyntheticTypes
<1>2. PICK replaced \in BOOLEAN :
          \/ /\ reply = "refused" /\ denied' = denied
             /\ Leave(s, replaced, Old(s, replaced))
          \/ /\ reply = "ok" /\ denied' = denied
             /\ Leave(s, replaced, Append(Old(s, replaced), e))
          \/ /\ reply = "refused" /\ denied' = denied \union {<<e, s>>}
             /\ Leave(s, replaced, Append(Old(s, replaced), e))
  BY DEF Committed
<1>3. PICK q : /\ q = Old(s, replaced) \/ q = Append(Old(s, replaced), e)
               /\ Commits(s, replaced, q, e)
               /\ denied' # denied => q = Append(Old(s, replaced), e)
               /\ reply = "refused" /\ denied' = denied => q = Old(s, replaced)
               /\ reply = "ok" => q = Append(Old(s, replaced), e)
  <2>1. CASE Leave(s, replaced, Old(s, replaced)) /\ reply = "refused" /\ denied' = denied
    BY <2>1 DEF Commits
  <2>2. CASE /\ Leave(s, replaced, Append(Old(s, replaced), e))
             /\ ~(reply = "refused" /\ denied' = denied)
    BY <2>2 DEF Commits
  <2>3. CASE /\ Leave(s, replaced, Append(Old(s, replaced), e)) /\ reply = "refused"
             /\ denied' = denied /\ denied' = denied \union {<<e, s>>}
    BY <2>3
  <2> QED
    BY <1>2, <2>1, <2>2, <2>3
<1>4. denied' = denied \/ denied' = denied \union {<<e, s>>}
  BY <1>2
<1>5. ASSUME NEW f, f # e \/ (q = Old(s, replaced) /\ denied' = denied)
      PROVE  rows' \in [Shards -> Seq(Events)] /\ Worn(f)
  BY <1>1, <1>3, <1>4, <1>5, CommitsWear
<1>6. rows' = [rows EXCEPT ![s] = q]
  BY <1>3 DEF Commits, Leave
<1>7. rows' \in [Shards -> Seq(Events)]
  <2>1. PICK f : f # e
    BY EventNumbers
  <2> QED
    BY <1>5, <2>1
<1>8. CASE reply = "refused" /\ denied' = denied
  <2>1. Kept(rows', denied', e) = {}
    BY <1>3, <1>5, <1>8 DEF Worn
  <2> QED
    BY <1>5, <1>7, <1>8, <2>1 DEF ReplyTrue
<1>9. CASE reply = "ok"
  <2>1. Leave(s, replaced, Append(Old(s, replaced), e)) /\ denied' = denied
    BY <1>2, <1>9
  <2>2. PICK p : Kept(rows', denied', e) = {p}
    BY <1>1, <2>1, CommitsOnce
  <2> QED
    BY <1>5, <1>7, <1>9, <2>1, <2>2 DEF ReplyTrue
<1>10. CASE reply = "refused" /\ denied' = denied \union {<<e, s>>}
  <2>1. Kept(rows', denied', e) = {}
    BY <1>1, <1>6, <1>10, CommitsDenied
  <2> QED
    BY <1>5, <1>7, <1>10, <2>1 DEF ReplyTrue
<1> QED
  BY <1>2, <1>8, <1>9, <1>10

\* A writer answers the first message in its queue.
LEMMA AnswerKeeps ==
    ASSUME SyntheticInv, NEW s \in Shards, Published(s),
           NEW reply \in {"ok", "refused"}, Answer(s, reply), UNCHANGED <<fate, reporterVars>>,
           writer' = writer \/ Ends(s), Committed(s, Offered(s), reply)
    PROVE  SyntheticInv'
<1>0. PICK x, e : x = Head(mailbox[s]) /\ e = offer[x].event
  OBVIOUS
<1> DEFINE o == [offer[x] EXCEPT !.reply = reply]
<1>1. SyntheticTypes /\ OffersOwn /\ MailWaitedFor /\ RowsTrue /\ DeniedTried /\ ReportsKept
  BY DEF SyntheticInv
<1>2. /\ x \in Senders /\ offer[x].reply = "waiting" /\ offer[x].shard = s
      /\ Tail(mailbox[s]) \in Seq(Senders) /\ IsInjective(Tail(mailbox[s]))
      /\ ToSet(Tail(mailbox[s])) = ToSet(mailbox[s]) \ {x}
      /\ writer[s] # "gone"
  BY <1>0, <1>1, FirstMessage DEF Published
<1>3. /\ mailbox' = [mailbox EXCEPT ![s] = Tail(@)]
      /\ offer' = [offer EXCEPT ![x].reply = reply]
      /\ UNCHANGED <<backlog, worker, owner, reported, fate>>
  BY <1>0 DEF Answer, reporterVars
<1>4. Committed(s, e, reply)
  BY <1>0 DEF Offered
<1>5. offer' = [offer EXCEPT ![x] = o]
  <2>1. DOMAIN offer = Senders /\ DOMAIN offer[x] = {"event", "shard", "reply"}
    BY <1>1, <1>2, OfferRecords DEF SyntheticTypes
  <2> QED
    BY <1>3, <2>1
<1>6. o.event = offer[x].event /\ o.reply = reply /\ o.shard = s /\ o \in Offers
  BY <1>1, <1>2, OfferRecords, SMTT(30) DEF Offers
<1> HIDE DEF o
<1>7. offer'[x] = o /\ \A y \in Senders : y # x => offer'[y] = offer[y]
  BY <1>1, <1>2, <1>5 DEF SyntheticTypes
<1>8. Turned(x)
  BY <1>2, <1>3, <1>6, <1>7 DEF Turned, InSlot
<1>9. OffersOwn' /\ ReportsKept'
  BY <1>1, <1>2, <1>8, TurnedKeeps
<1>10. /\ e \in Events /\ fate[e] = "none" /\ \A y \in Senders : y # x => offer[y].event # e
       /\ Kept(rows, denied, e) = {}
  <2>1. e \in Events /\ fate[e] = "none" /\ \A y \in Senders : y # x => offer[y].event # e
    BY <1>0, <1>1, <1>2, OfferOwned
  <2> QED
    BY <1>0, <1>1, <1>2, <2>1 DEF RowsTrue, InSlot
<1>11. e = offer[x].event /\ s \notin 1..(s - 1) /\ 1..(s - 1) \subseteq 1..s /\ s \in 1..s
  BY <1>0, TriedNumbers, ShardNumbers, CountsAssumption, SMTT(30) DEF Shards
<1>12. <<e, s>> \notin denied
  <2> SUFFICES ASSUME <<e, s>> \in denied PROVE FALSE
    OBVIOUS
  <2>1. PICK y \in Senders : offer[y].event = e /\ s \in Tried(offer[y])
    BY <1>1, <1>10 DEF DeniedTried
  <2>2. y = x
    BY <1>10, <2>1
  <2> QED
    BY <1>2, <1>11, <2>1, <2>2 DEF Tried
<1>13. /\ rows' \in [Shards -> Seq(Events)] /\ ReplyTrue(e, reply)
       /\ denied' \subseteq denied \union {<<e, s>>} /\ (reply = "ok" => denied' = denied)
  BY <1>1, <1>4, <1>10, <1>12, CommittedRows
<1>14. RowsTrue'
  <2>1. offer'[x].reply = reply
    BY <1>6, <1>7
  <2> QED
    BY <1>1, <1>2, <1>8, <1>11, <1>13, <2>1, TurnedRows
<1>15. DeniedTried'
  <2>1. Tried(offer[x]) = 1..(s - 1)
    BY <1>2 DEF Tried
  <2>2. Tried(offer'[x]) = IF reply = "refused" THEN 1..s ELSE 1..(s - 1)
    BY <1>6, <1>7 DEF Tried
  <2>3. Tried(offer[x]) \subseteq Tried(offer'[x])
    BY <1>11, <2>1, <2>2
  <2>4. ASSUME NEW f \in Events, NEW t \in Shards, <<f, t>> \in denied'
        PROVE  <<f, t>> \in denied \/ (f = offer[x].event /\ t \in Tried(offer'[x]))
    <3>1. CASE <<f, t>> \in denied
      BY <3>1
    <3>2. CASE <<f, t>> \notin denied
      <4>1. <<f, t>> = <<e, s>> /\ reply = "refused"
        BY <1>13, <2>4, <3>2
      <4>2. f = e /\ t = s
        BY <4>1, SMTT(30)
      <4> QED
        BY <1>11, <2>2, <4>1, <4>2
    <3> QED
      BY <3>1, <3>2
  <2> QED
    BY <1>1, <1>2, <1>8, <2>3, <2>4, TurnedDenied
<1>16. /\ writer' \in [Shards -> {"running", "ended", "draining", "gone"}]
       /\ \A t \in Shards : t # s => writer'[t] = writer[t]
       /\ writer'[s] # "gone" /\ (writer'[s] = "running" => writer[s] = "running")
  BY <1>1, <1>2 DEF SyntheticTypes, Ends
<1>17. MailWaitedFor'
  <2>1. mailbox'[s] = Tail(mailbox[s]) /\ \A t \in Shards : t # s => mailbox'[t] = mailbox[t]
    BY <1>1, <1>3 DEF SyntheticTypes
  <2>2. \A t \in Shards : t # s => mailbox'[t] = mailbox[t] /\ writer'[t] = writer[t]
    BY <1>16, <2>1
  <2>3. ASSUME NEW t \in Shards, t # s PROVE x \notin ToSet(mailbox[t])
    BY <1>1, <1>2, <2>3, MailFacts
  <2>4. offer'[x].reply \notin InSlot
    BY <1>6, <1>7 DEF InSlot
  <2>5. IsInjective(mailbox'[s])
    BY <1>2, <2>1
  <2>6. ASSUME NEW y \in ToSet(mailbox'[s])
        PROVE  offer'[y].reply \in InSlot /\ offer'[y].shard = s
    <3>1. y \in ToSet(mailbox[s]) /\ y # x
      BY <1>2, <2>1
    <3>2. y \in Senders /\ offer[y].reply \in InSlot /\ offer[y].shard = s
      BY <1>1, <3>1, MailFacts
    <3> QED
      BY <1>7, <3>1, <3>2
  <2>7. ASSUME NEW y \in Senders, Due(offer[y])', offer'[y].shard = s
        PROVE  y \in ToSet(mailbox'[s])
    <3>1. y # x
      BY <2>4, <2>7 DEF Due, InSlot
    <3>2. Due(offer[y]) /\ offer[y].shard = s
      BY <1>7, <1>16, <2>7, <3>1 DEF Due
    <3>3. y \in ToSet(mailbox[s])
      BY <1>1, <3>2, WaitsAt
    <3> QED
      BY <1>2, <2>1, <3>1, <3>3
  <2> QED
    BY <1>1, <1>2, <1>7, <1>16, <2>2, <2>3, <2>4, <2>5, <2>6, <2>7, MailKeeps
<1>18. SyntheticTypes'
  <2>1. mailbox' \in [Shards -> Seq(Senders)]
    BY <1>1, <1>2, <1>3 DEF SyntheticTypes
  <2>2. offer' \in [Senders -> Offers]
    BY <1>1, <1>5, <1>6 DEF SyntheticTypes
  <2> QED
    BY <1>1, <1>3, <1>13, <1>16, <2>1, <2>2 DEF SyntheticTypes
<1> QED
  BY <1>9, <1>14, <1>15, <1>17, <1>18 DEF SyntheticInv

\* A step on queue n that answers no one: a writer that ended keeps those who
\* hold a permit, and the rows are worn at most.
LEMMA MailDropped ==
    ASSUME SyntheticInv, NEW n \in Shards,
           \A s \in Shards : s # n => mailbox'[s] = mailbox[s] /\ writer'[s] = writer[s],
           writer'[n] # "running" \/ (mailbox' = mailbox /\ writer' = writer),
           IsInjective(mailbox'[n]), ToSet(mailbox'[n]) \subseteq ToSet(mailbox[n]),
           \A y \in ToSet(mailbox[n]) : offer[y].reply = "held" => y \in ToSet(mailbox'[n]),
           mailbox'[n] # <<>> => writer'[n] # "gone",
           mailbox' \in [Shards -> Seq(Senders)],
           writer' \in [Shards -> {"running", "ended", "draining", "gone"}],
           rows' \in [Shards -> Seq(Events)], \A f \in Events : Worn(f),
           UNCHANGED <<offer, denied, fate, reporterVars>>
    PROVE  SyntheticInv'
<1>1. SyntheticTypes /\ OffersOwn /\ MailWaitedFor /\ RowsTrue /\ DeniedTried /\ ReportsKept
  BY DEF SyntheticInv
<1>2. UNCHANGED <<offer, denied, fate, backlog, worker, owner, reported>>
  BY DEF reporterVars
<1>3. SyntheticTypes'
  BY <1>1, <1>2 DEF SyntheticTypes
<1>4. OffersOwn'
  BY <1>1, <1>2 DEF OffersOwn
<1>5. RowsTrue'
  BY <1>1, <1>2, WornKeeps
<1>6. DeniedTried'
  BY <1>1, <1>2, DeniedSame
<1>7. ReportsKept'
  BY <1>1, <1>2 DEF ReportsKept
<1>8. ASSUME NEW s \in Shards
      PROVE  /\ mailbox'[s] # <<>> => writer'[s] # "gone"
             /\ IsInjective(mailbox'[s])
             /\ \A y \in ToSet(mailbox'[s]) : offer'[y].reply \in InSlot /\ offer'[y].shard = s
  <2>1. /\ mailbox[s] # <<>> => writer[s] # "gone"
        /\ IsInjective(mailbox[s])
        /\ \A y \in ToSet(mailbox[s]) : offer[y].reply \in InSlot /\ offer[y].shard = s
    BY <1>1, MailFacts
  <2>2. ToSet(mailbox'[s]) \subseteq ToSet(mailbox[s])
    OBVIOUS
  <2>3. (mailbox'[s] # <<>> => writer'[s] # "gone") /\ IsInjective(mailbox'[s])
    BY <2>1
  <2> QED
    BY <1>2, <2>1, <2>2, <2>3
<1>9. ASSUME NEW y \in Senders, Due(offer[y])'
      PROVE  y \in ToSet(mailbox'[offer[y].shard])
  <2>1. offer[y].reply \in InSlot
    BY <1>2, <1>9 DEF Due, InSlot
  <2>2. PICK s \in Shards : s = offer[y].shard
    BY <1>1, <2>1, WaitsAt
  <2>3. CASE s # n \/ (mailbox' = mailbox /\ writer' = writer)
    <3>1. Due(offer[y]) /\ mailbox'[s] = mailbox[s]
      BY <1>2, <1>9, <2>2, <2>3 DEF Due
    <3> QED
      BY <1>1, <2>2, <3>1, WaitsAt
  <2>4. CASE s = n /\ writer'[n] # "running"
    <3>1. offer[y].reply = "held"
      BY <1>2, <1>9, <2>2, <2>4 DEF Due
    <3>2. y \in ToSet(mailbox[n])
      BY <1>1, <2>2, <2>4, <3>1, WaitsAt DEF Due
    <3> QED
      BY <2>2, <2>4, <3>1, <3>2
  <2> QED
    BY <2>3, <2>4
<1>10. MailWaitedFor'
  BY <1>2, <1>8, <1>9 DEF MailWaitedFor
<1> QED
  BY <1>3, <1>4, <1>5, <1>6, <1>7, <1>10 DEF SyntheticInv

LEMMA UnwornRows ==
    ASSUME UNCHANGED <<rows, denied, lost>>
    PROVE  \A f : Worn(f)
BY DEF Worn

\* What is left after corruption, or without.
LEMMA LeftRows ==
    ASSUME SyntheticTypes, NEW s \in Shards, NEW replaced \in BOOLEAN,
           Leave(s, replaced, Old(s, replaced)), denied' = denied
    PROVE  rows' \in [Shards -> Seq(Events)] /\ \A f \in Events : Worn(f)
<1>1. rows \in [Shards -> Seq(Events)] /\ Main \in Events
  BY EventNumbers DEF SyntheticTypes
<1>2. PICK q : q = Old(s, replaced)
  OBVIOUS
<1>3. Commits(s, replaced, q, Main)
  BY <1>2 DEF Commits
<1>4. ASSUME NEW f PROVE rows' \in [Shards -> Seq(Events)] /\ Worn(f)
  BY <1>1, <1>2, <1>3, CommitsWear
<1> QED
  BY <1>4

LEMMA WriterAnswers ==
    ASSUME SyntheticInv, NEW s \in Shards,
           CommitSynthetic(s) \/ CommitCapacity(s) \/ CommitFails(s)
    PROVE  SyntheticInv'
<1>1. CASE CommitSynthetic(s)
  <2>1. /\ Published(s) /\ Answer(s, "ok") /\ UNCHANGED <<writer, denied, fate, reporterVars>>
        /\ \E replaced \in BOOLEAN : Leave(s, replaced, Append(Old(s, replaced), Offered(s)))
    BY <1>1 DEF CommitSynthetic, Handling
  <2>2. Committed(s, Offered(s), "ok")
    BY <2>1 DEF Committed
  <2> QED
    BY <2>1, <2>2, AnswerKeeps
<1>2. ASSUME Refuse(s)
      PROVE  Answer(s, "refused") /\ Committed(s, Offered(s), "refused")
  BY <1>2 DEF Refuse, Committed
<1>3. CASE CommitCapacity(s)
  <2>1. Published(s) /\ Refuse(s) /\ UNCHANGED <<writer, fate, reporterVars>>
    BY <1>3 DEF CommitCapacity, Handling
  <2> QED
    BY <1>2, <2>1, AnswerKeeps
<1>4. CASE CommitFails(s)
  <2>1. Published(s) /\ Refuse(s) /\ Ends(s) /\ UNCHANGED <<fate, reporterVars>>
    BY <1>4 DEF CommitFails, Handling
  <2> QED
    BY <1>2, <2>1, AnswerKeeps
<1> QED
  BY <1>1, <1>3, <1>4

LEMMA WriterEnds ==
    ASSUME SyntheticInv, NEW s \in Shards,
           \/ RecoveryFails(s) \/ ElsewhereFails(s)
           \/ WriterClose(s) \/ WriterDrain(s) \/ WriterGone(s)
    PROVE  SyntheticInv'
<1>1. SyntheticTypes /\ MailWaitedFor
  BY DEF SyntheticInv
<1>2. /\ writer \in [Shards -> {"running", "ended", "draining", "gone"}]
      /\ mailbox \in [Shards -> Seq(Senders)] /\ rows \in [Shards -> Seq(Events)]
      /\ IsInjective(mailbox[s]) /\ (mailbox[s] # <<>> => writer[s] # "gone")
  BY <1>1, MailFacts DEF SyntheticTypes
\* The writer that ended drops its first message.
<1>3. ASSUME Published(s), mailbox' = [mailbox EXCEPT ![s] = Tail(@)]
      PROVE  /\ mailbox' \in [Shards -> Seq(Senders)] /\ IsInjective(mailbox'[s])
             /\ ToSet(mailbox'[s]) \subseteq ToSet(mailbox[s]) /\ writer[s] # "gone"
             /\ \A t \in Shards : t # s => mailbox'[t] = mailbox[t]
             /\ \A y \in ToSet(mailbox[s]) : offer[y].reply = "held" => y \in ToSet(mailbox'[s])
  <2>1. /\ Tail(mailbox[s]) \in Seq(Senders) /\ IsInjective(Tail(mailbox[s]))
        /\ ToSet(Tail(mailbox[s])) = ToSet(mailbox[s]) \ {Head(mailbox[s])}
        /\ writer[s] # "gone"
    BY <1>1, <1>3, FirstMessage DEF Published
  <2>2. mailbox'[s] = Tail(mailbox[s]) /\ \A t \in Shards : t # s => mailbox'[t] = mailbox[t]
    BY <1>2, <1>3
  <2>3. mailbox' \in [Shards -> Seq(Senders)]
    BY <1>2, <1>3, <2>1
  <2>4. offer[Head(mailbox[s])].reply # "held"
    BY <1>3 DEF Published
  <2> QED
    BY <2>1, <2>2, <2>3, <2>4
<1>4. ASSUME NEW w \in {"ended", "draining", "gone"}, writer' = [writer EXCEPT ![s] = w]
      PROVE  /\ writer' \in [Shards -> {"running", "ended", "draining", "gone"}]
             /\ writer'[s] = w /\ w # "running"
             /\ \A t \in Shards : t # s => writer'[t] = writer[t]
  BY <1>2, <1>4
<1>5. CASE RecoveryFails(s)
  <2>1. /\ Published(s) /\ mailbox' = [mailbox EXCEPT ![s] = Tail(@)]
        /\ writer' = [writer EXCEPT ![s] = "ended"]
        /\ UNCHANGED <<offer, denied, fate, reporterVars>>
    BY <1>5 DEF RecoveryFails, Handling, Ends
  <2>2. PICK replaced \in BOOLEAN : Leave(s, replaced, Old(s, replaced))
    BY <1>5 DEF RecoveryFails
  <2>3. rows' \in [Shards -> Seq(Events)] /\ \A f \in Events : Worn(f)
    BY <1>1, <2>1, <2>2, LeftRows
  <2> QED
    BY <1>3, <1>4, <2>1, <2>3, MailDropped
<1>6. CASE ElsewhereFails(s)
  <2>1. UNCHANGED <<mailbox, offer, denied, fate, reporterVars>> /\ writer[s] = "running"
    BY <1>6 DEF ElsewhereFails
  <2>2. CASE Leave(s, TRUE, <<>>) /\ writer' = writer
    <3>1. Leave(s, TRUE, Old(s, TRUE))
      BY <2>2 DEF Old
    <3>2. rows' \in [Shards -> Seq(Events)] /\ \A f \in Events : Worn(f)
      BY <1>1, <2>1, <3>1, LeftRows
    <3> QED
      BY <1>2, <2>1, <2>2, <3>2, MailDropped
  <2>3. CASE Ends(s) /\ UNCHANGED <<rows, lost>>
    <3>1. rows' \in [Shards -> Seq(Events)] /\ \A f \in Events : Worn(f)
      BY <1>2, <2>1, <2>3, UnwornRows
    <3>2. writer' = [writer EXCEPT ![s] = "ended"]
      BY <2>3 DEF Ends
    <3> QED
      BY <1>2, <1>4, <2>1, <3>1, <3>2, MailDropped
  <2> QED
    BY <1>6, <2>2, <2>3 DEF ElsewhereFails
<1>7. CASE WriterClose(s)
  <2>1. /\ writer' = [writer EXCEPT ![s] = "draining"]
        /\ UNCHANGED <<mailbox, offer, denied, fate, reporterVars, rows, lost>>
    BY <1>7 DEF WriterClose, shardVars
  <2>2. rows' \in [Shards -> Seq(Events)] /\ \A f \in Events : Worn(f)
    BY <1>2, <2>1, UnwornRows
  <2> QED
    BY <1>2, <1>4, <2>1, <2>2, MailDropped
<1>8. CASE WriterDrain(s)
  <2>1. /\ Published(s) /\ mailbox' = [mailbox EXCEPT ![s] = Tail(@)]
        /\ writer[s] = "draining" /\ writer' = writer
        /\ UNCHANGED <<offer, denied, fate, reporterVars, rows, lost>>
    BY <1>8 DEF WriterDrain, shardVars
  <2>2. rows' \in [Shards -> Seq(Events)] /\ \A f \in Events : Worn(f)
    BY <1>2, <2>1, UnwornRows
  <2> QED
    BY <1>2, <1>3, <2>1, <2>2, MailDropped
<1>9. CASE WriterGone(s)
  <2>1. /\ mailbox[s] = <<>> /\ writer' = [writer EXCEPT ![s] = "gone"]
        /\ UNCHANGED <<mailbox, offer, denied, fate, reporterVars, rows, lost>>
    BY <1>9 DEF WriterGone, shardVars
  <2>2. rows' \in [Shards -> Seq(Events)] /\ \A f \in Events : Worn(f)
    BY <1>2, <2>1, UnwornRows
  <2> QED
    BY <1>2, <1>4, <2>1, <2>2, MailDropped
<1> QED
  BY <1>5, <1>6, <1>7, <1>8, <1>9

-----------------------------------------------------------------------------
(* The steps of the supervisor and of the reporter. *)

\* A sender with nothing to offer takes up an event that no one offers.
LEMMA OfferBegins ==
    ASSUME SyntheticInv, NEW x \in Senders, offer[x] = Idle, NEW e \in Events,
           fate[e] = "none", \A y \in Senders : offer[y].event # e,
           e \in IF x = "supervisor" THEN {Main} ELSE 1..reported,
           offer' = StartOffer(x, e),
           UNCHANGED <<mailbox, writer, rows, denied, lost, worker, owner, reported, fate>>,
           backlog' \in Seq(Events)
    PROVE  /\ SyntheticTypes' /\ OffersOwn' /\ MailWaitedFor' /\ RowsTrue' /\ DeniedTried'
           /\ offer'[x].event = e /\ \A y \in Senders : y # x => offer'[y] = offer[y]
<1>1. SyntheticTypes /\ OffersOwn /\ MailWaitedFor /\ RowsTrue /\ DeniedTried
  BY DEF SyntheticInv
<1> DEFINE o == [event |-> e, shard |-> 0, reply |-> "refused"]
<1>2. offer' = [offer EXCEPT ![x] = o]
  BY DEF StartOffer
<1>3. o.event = e /\ o.reply = "refused" /\ o \in Offers
  BY CountsAssumption, SMTT(30) DEF Offers
<1> HIDE DEF o
<1>4. offer'[x] = o /\ \A y \in Senders : y # x => offer'[y] = offer[y]
  BY <1>1, <1>2 DEF SyntheticTypes
<1>5. SyntheticTypes'
  <2>1. offer' \in [Senders -> Offers]
    BY <1>1, <1>2, <1>3 DEF SyntheticTypes
  <2> QED
    BY <1>1, <2>1 DEF SyntheticTypes
<1>6. ASSUME NEW y \in Senders, offer'[y] # Idle
      PROVE  /\ offer'[y].reply # "none"
             /\ offer'[y].event \in IF y = "supervisor" THEN {Main} ELSE 1..reported
             /\ fate[offer'[y].event] = "none"
             /\ offer'[y].reply \in InSlot => offer'[y].shard \in Shards
  <2>1. CASE y = x
    BY <1>3, <1>4, <2>1 DEF InSlot
  <2>2. CASE y # x
    <3>1. offer'[y] = offer[y]
      BY <1>4, <2>2
    <3> QED
      BY <1>1, <1>6, <3>1 DEF OffersOwn
  <2> QED
    BY <2>1, <2>2
<1>7. OffersOwn'
  BY <1>6 DEF OffersOwn
<1>8. MailWaitedFor'
  <2>1. offer[x].reply \notin InSlot /\ offer'[x].reply \notin InSlot
    BY <1>3, <1>4, EventNumbers DEF InSlot
  <2>2. \A s \in Shards : x \notin ToSet(mailbox[s])
    BY <1>1, <2>1, NotInMail
  <2> QED
    BY <1>1, <1>4, <2>1, <2>2, MailStill
<1>9. Kept(rows, denied, e) = {}
  BY <1>1 DEF RowsTrue
<1>10. ASSUME NEW f \in Events
       PROVE  RowsOf(rows, denied, lost, f, fate[f], \A y \in Senders : offer'[y].event # f)
  <2>1. RowsOf(rows, denied, lost, f, fate[f], \A y \in Senders : offer[y].event # f)
    BY <1>1, RowsTrueIs
  <2>2. (\A y \in Senders : offer'[y].event # f) => \A y \in Senders : offer[y].event # f
    BY <1>4, EventNumbers
  <2> QED
    BY <2>1, <2>2 DEF RowsOf
<1>11. ASSUME NEW y \in Senders PROVE RowsFor(rows, denied, lost, offer'[y])
  <2>1. CASE y = x
    BY <1>3, <1>4, <1>9, <2>1 DEF RowsFor
  <2>2. CASE y # x
    BY <1>1, <1>4, <2>2, RowsTrueIs
  <2> QED
    BY <2>1, <2>2
<1>12. RowsTrue'
  BY <1>10, <1>11, RowsSaid
<1>13. DeniedTried'
  <2> SUFFICES ASSUME NEW f \in Events, NEW s \in Shards, <<f, s>> \in denied, fate[f] = "none"
               PROVE  \E y \in Senders : offer'[y].event = f /\ s \in Tried(offer'[y])
    BY DEF DeniedTried, Tried
  <2>1. PICK y \in Senders : offer[y].event = f /\ s \in Tried(offer[y])
    BY <1>1 DEF DeniedTried
  <2>2. y # x
    BY <2>1, EventNumbers
  <2> QED
    BY <1>4, <2>1, <2>2
<1> QED
  BY <1>3, <1>4, <1>5, <1>7, <1>8, <1>12, <1>13

\* Who may hold which event.
LEMMA Holders ==
    ASSUME SyntheticTypes, OffersOwn
    PROVE  /\ offer["supervisor"].event \in {-1, Main}
           /\ offer["worker"].event = -1 \/ offer["worker"].event \in 1..reported
<1>1. offer["supervisor"] # Idle => offer["supervisor"].event = Main
  BY EventNumbers DEF OffersOwn
<1>2. offer["worker"] # Idle => offer["worker"].event \in 1..reported
  BY EventNumbers DEF OffersOwn
<1> QED
  BY <1>1, <1>2, EventNumbers

LEMMA SuperviseKeeps ==
    ASSUME SyntheticInv, SuperviseCommit
    PROVE  SyntheticInv'
<1>1. SyntheticTypes /\ OffersOwn /\ ReportsKept
  BY DEF SyntheticInv
<1>2. /\ fate[Main] = "none" /\ offer["supervisor"] = Idle
      /\ offer' = StartOffer("supervisor", Main)
      /\ UNCHANGED <<mailbox, writer, rows, denied, lost, backlog, worker, owner, reported, fate>>
  BY DEF SuperviseCommit, shardVars, reporterVars
<1>3. /\ reported \in 0..Reports /\ Main \in Events /\ -1 \notin Events /\ Main \notin 1..reported
      /\ backlog \in Seq(Events)
  BY <1>1, EventNumbers DEF SyntheticTypes
<1>4. ASSUME NEW y \in Senders PROVE offer[y].event # Main
  <2>1. CASE y = "supervisor"
    BY <1>2, <1>3, <2>1, EventNumbers
  <2>2. CASE y = "worker"
    BY <1>1, <1>3, <2>2, Holders
  <2> QED
    BY <2>1, <2>2, EventNumbers
<1>5. /\ SyntheticTypes' /\ OffersOwn' /\ MailWaitedFor' /\ RowsTrue' /\ DeniedTried'
      /\ \A y \in Senders : y # "supervisor" => offer'[y] = offer[y]
  BY <1>2, <1>3, <1>4, EventNumbers, OfferBegins
<1>6. offer'["worker"] = offer["worker"]
  BY <1>5, EventNumbers
<1>7. ReportsKept'
  BY <1>1, <1>2, <1>6 DEF ReportsKept
<1> QED
  BY <1>5, <1>7 DEF SyntheticInv

LEMMA TakeKeeps ==
    ASSUME SyntheticInv, TakeReport
    PROVE  SyntheticInv'
<1>0. PICK e : e = Head(backlog)
  OBVIOUS
<1>1. SyntheticTypes /\ OffersOwn /\ ReportsKept
  BY DEF SyntheticInv
<1>2. /\ worker = "running" /\ backlog # <<>> /\ offer["worker"] = Idle
      /\ offer' = StartOffer("worker", e) /\ backlog' = Tail(backlog)
      /\ UNCHANGED <<mailbox, writer, rows, denied, lost, worker, owner, reported, fate>>
  BY <1>0 DEF TakeReport, shardVars
<1>3. /\ reported \in 0..Reports /\ -1 \notin Events /\ Main \notin 1..reported
      /\ backlog \in Seq(Events)
  BY <1>1, EventNumbers DEF SyntheticTypes
<1>4. /\ IsInjective(backlog)
      /\ \A f \in ToSet(backlog) :
            f \in 1..reported /\ fate[f] = "none" /\ offer["worker"].event # f
      /\ \A f \in 1..reported :
            fate[f] = "none" => offer["worker"].event = f \/ f \in ToSet(backlog)
      /\ \A f \in Events : f > reported => fate[f] = "none"
      /\ worker # "running" => backlog = <<>> /\ offer["worker"] = Idle
      /\ owner = "gone" <=> worker = "joined"
  BY <1>1 DEF ReportsKept
<1>5. /\ e \in Events /\ Tail(backlog) \in Seq(Events)
      /\ e \in ToSet(backlog) /\ ToSet(Tail(backlog)) = ToSet(backlog) \ {e}
      /\ IsInjective(Tail(backlog))
  BY <1>0, <1>2, <1>3, <1>4, TailSet
<1>6. e \in 1..reported /\ fate[e] = "none" /\ e # -1 /\ e # Main
  BY <1>3, <1>4, <1>5
<1>7. ASSUME NEW y \in Senders PROVE offer[y].event # e
  <2>1. CASE y = "supervisor"
    BY <1>1, <1>6, <2>1, Holders
  <2>2. CASE y = "worker"
    BY <1>2, <1>6, <2>2, EventNumbers
  <2> QED
    BY <2>1, <2>2, EventNumbers
<1>8. "worker" \in Senders /\ e \in IF "worker" = "supervisor" THEN {Main} ELSE 1..reported
  BY <1>6, EventNumbers
<1>9. /\ SyntheticTypes' /\ OffersOwn' /\ MailWaitedFor' /\ RowsTrue' /\ DeniedTried'
      /\ offer'["worker"].event = e
  BY <1>2, <1>5, <1>6, <1>7, <1>8, OfferBegins
<1>10. ReportsKept'
  <2>1. \A f \in ToSet(backlog') :
            f \in 1..reported /\ fate[f] = "none" /\ offer'["worker"].event # f
    BY <1>2, <1>4, <1>5, <1>9
  <2>2. ASSUME NEW f \in 1..reported, fate[f] = "none"
        PROVE  offer'["worker"].event = f \/ f \in ToSet(backlog')
    <3>1. f \in ToSet(backlog)
      BY <1>2, <1>3, <1>4, <2>2, EventNumbers
    <3> QED
      BY <1>2, <1>5, <1>9, <3>1
  <2>3. IsInjective(backlog')
    BY <1>2, <1>5
  <2> QED
    BY <1>2, <1>4, <2>1, <2>2, <2>3 DEF ReportsKept
<1> QED
  BY <1>9, <1>10 DEF SyntheticInv

LEMMA NextReport ==
    ASSUME NEW n \in 0..Reports, n < Reports
    PROVE  /\ n + 1 \in 0..Reports /\ n + 1 \in Events /\ n + 1 # Main /\ n + 1 > n
           /\ n + 1 \notin 1..n /\ 1..(n + 1) = 1..n \union {n + 1} /\ 1..n \subseteq Events
           /\ \A f \in Events : f > n + 1 => f > n /\ f # n + 1
BY CountsAssumption, SMTT(30) DEF Events, Main

\* A new event is accepted: one that no one has seen.
LEMMA ReportKeeps ==
    ASSUME SyntheticInv, Report
    PROVE  SyntheticInv'
<1>1. SyntheticTypes /\ OffersOwn /\ MailWaitedFor /\ RowsTrue /\ DeniedTried /\ ReportsKept
  BY DEF SyntheticInv
<1>2. PICK e : e = reported + 1
  OBVIOUS
<1>3. /\ owner = "working" /\ reported < Reports /\ reported' = e
      /\ UNCHANGED <<mailbox, writer, rows, denied, lost, offer, owner>>
      /\ \/ /\ worker' = "running" /\ backlog' = Append(backlog, e) /\ fate' = fate
         \/ /\ worker = "none" /\ worker' = worker /\ backlog' = backlog
            /\ fate' = [fate EXCEPT ![e] = "logged"]
  BY <1>2 DEF Report, shardVars
<1>4. /\ reported \in 0..Reports /\ backlog \in Seq(Events)
      /\ fate \in [Events -> {"none", "stored", "logged"}]
  BY <1>1 DEF SyntheticTypes
<1>5. /\ e \in 0..Reports /\ e \in Events /\ e # Main /\ e > reported
      /\ e \notin 1..reported /\ 1..e = 1..reported \union {e} /\ 1..reported \subseteq Events
      /\ \A f \in Events : f > e => f > reported /\ f # e
  BY <1>2, <1>3, <1>4, NextReport
<1>6. /\ IsInjective(backlog)
      /\ \A f \in ToSet(backlog) :
            f \in 1..reported /\ fate[f] = "none" /\ offer["worker"].event # f
      /\ \A f \in 1..reported :
            fate[f] = "none" => offer["worker"].event = f \/ f \in ToSet(backlog)
      /\ \A f \in Events : f > reported => fate[f] = "none"
      /\ worker # "running" => backlog = <<>> /\ offer["worker"] = Idle
      /\ owner = "gone" <=> worker = "joined"
  BY <1>1 DEF ReportsKept
<1>7. ASSUME NEW y \in Senders PROVE offer[y].event # e
  <2>1. -1 \notin Events
    BY EventNumbers
  <2>2. CASE y = "supervisor"
    BY <1>1, <1>5, <2>1, <2>2, Holders
  <2>3. CASE y = "worker"
    BY <1>1, <1>5, <2>1, <2>3, Holders
  <2> QED
    BY <2>2, <2>3, EventNumbers
<1>8. /\ fate' \in [Events -> {"none", "stored", "logged"}]
      /\ \A f \in Events : f # e => fate'[f] = fate[f]
      /\ fate'[e] \in {"none", "logged"} /\ fate[e] = "none"
  BY <1>3, <1>4, <1>5, <1>6
<1>9. Kept(rows, denied, e) = {}
  BY <1>1, <1>5, <1>7, <1>8 DEF RowsTrue
<1>10. e \notin ToSet(backlog)
  BY <1>5, <1>6
<1>11. SyntheticTypes'
  <2>1. Append(backlog, e) \in Seq(Events)
    BY <1>4, <1>5, AppendSet
  <2>2. backlog' \in Seq(Events) /\ worker' \in {"none", "running", "joined"}
    BY <1>3, <1>4, <2>1
  <2> QED
    BY <1>1, <1>3, <1>5, <1>8, <2>2 DEF SyntheticTypes
<1>12. OffersOwn'
  <2>1. ASSUME NEW y \in Senders, offer[y] # Idle
        PROVE  /\ offer[y].reply # "none"
               /\ offer[y].event \in IF y = "supervisor" THEN {Main} ELSE 1..e
               /\ fate'[offer[y].event] = "none"
               /\ offer[y].reply \in InSlot => offer[y].shard \in Shards
    <3>1. /\ offer[y].reply # "none"
          /\ offer[y].event \in IF y = "supervisor" THEN {Main} ELSE 1..reported
          /\ fate[offer[y].event] = "none"
          /\ offer[y].reply \in InSlot => offer[y].shard \in Shards
      BY <1>1, <2>1 DEF OffersOwn
    <3>2. offer[y].event \in Events
      BY <1>1, <3>1, OfferOwned
    <3> QED
      BY <1>5, <1>7, <1>8, <3>1, <3>2
  <2> QED
    BY <1>3, <2>1 DEF OffersOwn
<1>13. MailWaitedFor'
  BY <1>1, <1>3 DEF MailWaitedFor, Due
<1>14. RowsTrue'
  <2>1. ASSUME NEW f \in Events
        PROVE  RowsOf(rows, denied, lost, f, fate'[f], \A y \in Senders : offer'[y].event # f)
    <3>1. RowsOf(rows, denied, lost, f, fate[f], \A y \in Senders : offer'[y].event # f)
      BY <1>1, <1>3, RowsTrueIs
    <3>2. CASE f = e
      BY <1>8, <1>9, <3>1, <3>2 DEF RowsOf
    <3>3. CASE f # e
      BY <1>8, <3>1, <3>3
    <3> QED
      BY <3>2, <3>3
  <2>2. \A y \in Senders : RowsFor(rows, denied, lost, offer'[y])
    BY <1>1, <1>3, RowsTrueIs
  <2> QED
    BY <1>3, <2>1, <2>2, RowsSaid
<1>16. DeniedTried'
  <2> SUFFICES ASSUME NEW f \in Events, NEW s \in Shards, <<f, s>> \in denied, fate'[f] = "none"
               PROVE  \E y \in Senders : offer'[y].event = f /\ s \in Tried(offer'[y])
    BY <1>3 DEF DeniedTried
  <2>1. fate[f] = "none" /\ offer' = offer
    BY <1>3, <1>8
  <2> QED
    BY <1>1, <2>1 DEF DeniedTried
<1>15. ReportsKept'
  <2>1. \A f \in Events : f > e => fate'[f] = "none"
    BY <1>5, <1>6, <1>8
  <2>2. CASE worker' = "running" /\ backlog' = Append(backlog, e) /\ fate' = fate
    <3>1. ToSet(backlog') = ToSet(backlog) \union {e} /\ IsInjective(backlog')
      <4>1. /\ ToSet(Append(backlog, e)) = ToSet(backlog) \union {e}
            /\ IsInjective(backlog) /\ e \notin ToSet(backlog) => IsInjective(Append(backlog, e))
        BY <1>4, <1>5, AppendSet, SMTT(30)
      <4>2. IsInjective(Append(backlog, e))
        BY <1>6, <1>10, <4>1
      <4>3. backlog' = Append(backlog, e)
        BY <2>2
      <4> QED
        BY <4>1, <4>2, <4>3
    <3>2. \A f \in ToSet(backlog') :
              f \in 1..e /\ fate'[f] = "none" /\ offer["worker"].event # f
      BY <1>5, <1>6, <1>7, <1>8, <2>2, <3>1, EventNumbers
    <3>3. \A f \in 1..e :
              fate'[f] = "none" => offer["worker"].event = f \/ f \in ToSet(backlog')
      BY <1>5, <1>6, <2>2, <3>1
    <3>4. owner' # "gone" /\ worker' # "joined"
      BY <1>3, <2>2
    <3> QED
      BY <1>3, <2>1, <2>2, <3>1, <3>2, <3>3, <3>4 DEF ReportsKept
  <2>3. CASE /\ worker = "none" /\ worker' = worker /\ backlog' = backlog
             /\ fate' = [fate EXCEPT ![e] = "logged"]
    <3>1. fate'[e] = "logged"
      BY <1>4, <1>5, <2>3
    <3>2. \A f \in ToSet(backlog) :
              f \in 1..e /\ fate'[f] = "none" /\ offer["worker"].event # f
      BY <1>5, <1>6, <1>8
    <3>3. \A f \in 1..e :
              fate'[f] = "none" => offer["worker"].event = f \/ f \in ToSet(backlog)
      BY <1>5, <1>6, <1>8, <3>1
    <3> QED
      BY <1>3, <1>6, <2>1, <2>3, <3>2, <3>3 DEF ReportsKept
  <2> QED
    BY <1>3, <2>2, <2>3
<1> QED
  BY <1>11, <1>12, <1>13, <1>14, <1>15, <1>16 DEF SyntheticInv

\* The reporter is dropped, and gone when its worker has ended.
LEMMA DropKeeps ==
    ASSUME SyntheticInv, DropReporter \/ Join
    PROVE  SyntheticInv'
<1>1. SyntheticTypes /\ OffersOwn /\ MailWaitedFor /\ RowsTrue /\ DeniedTried /\ ReportsKept
  BY DEF SyntheticInv
<1>2. UNCHANGED <<mailbox, writer, rows, denied, lost, offer, backlog, reported, fate>>
  BY DEF DropReporter, Join, shardVars
<1>3. \/ worker' = worker /\ owner = "working" /\ owner' = "dropping"
      \/ /\ worker = "running" => backlog = <<>> /\ offer["worker"] = Idle
         /\ worker' = "joined" /\ owner' = "gone"
  BY DEF DropReporter, Join
<1>4. SyntheticTypes'
  <2>1. worker' \in {"none", "running", "joined"}
    BY <1>1, <1>3 DEF SyntheticTypes
  <2> QED
    BY <1>1, <1>2, <2>1 DEF SyntheticTypes
<1>5. OffersOwn'
  BY <1>1, <1>2 DEF OffersOwn
<1>6. MailWaitedFor' /\ DeniedTried'
  <2>1. MailWaitedFor'
    BY <1>1, <1>2 DEF MailWaitedFor, Due
  <2>2. DeniedTried'
    BY <1>1, <1>2, DeniedSame
  <2> QED
    BY <2>1, <2>2
<1>7. RowsTrue'
  BY <1>1, <1>2, RowsSame
<1>8. ReportsKept'
  <2>1. worker' # "running" => backlog = <<>> /\ offer["worker"] = Idle
    BY <1>1, <1>3 DEF ReportsKept
  <2>2. owner' = "gone" <=> worker' = "joined"
    BY <1>1, <1>3 DEF ReportsKept
  <2> QED
    BY <1>1, <1>2, <2>1, <2>2 DEF ReportsKept
<1> QED
  BY <1>4, <1>5, <1>6, <1>7, <1>8 DEF SyntheticInv

-----------------------------------------------------------------------------
(* The results. *)

LEMMA SyntheticBegins ==
    ASSUME SyntheticInit
    PROVE  SyntheticInv
<1>1. /\ mailbox = [s \in Shards |-> <<>>]
      /\ writer = [s \in Shards |-> "running"]
      /\ rows = [s \in Shards |-> <<>>]
      /\ offer = [x \in Senders |-> Idle]
      /\ backlog = <<>> /\ worker = "none" /\ owner = "working"
      /\ reported = 0
      /\ fate = [e \in Events |-> "none"]
      /\ denied = {}
  BY DEF SyntheticInit, SyntheticBegin
<1>2. \A S : <<>> \in Seq(S)
  BY EmptyQueue
<1>3. Idle \in Offers /\ 0 \in 0..Reports /\ 1..0 = {}
  BY CountsAssumption, SMTT(30) DEF Idle, Offers
<1>4. SyntheticTypes
  BY <1>1, <1>2, <1>3 DEF SyntheticTypes
<1>5. \A x \in Senders : offer[x] = Idle /\ offer[x].event = -1 /\ offer[x].reply = "none"
  BY <1>1, EventNumbers
<1>6. OffersOwn
  BY <1>5 DEF OffersOwn
<1>7. MailWaitedFor /\ DeniedTried
  <2>1. \A s \in Shards : mailbox[s] = <<>> /\ ToSet(mailbox[s]) = {} /\ IsInjective(mailbox[s])
    BY <1>1, EmptyQueue
  <2> QED
    BY <1>1, <1>5, <2>1 DEF MailWaitedFor, Due, InSlot, DeniedTried
<1>8. RowsTrue
  <2>1. ASSUME NEW e PROVE Kept(rows, denied, e) = {}
    <3>1. ASSUME NEW p \in Kept(rows, denied, e) PROVE FALSE
      <4>0. Row(rows, denied, e, p)
        BY KeptPicks
      <4>1. PICK s \in Shards : \E i \in DOMAIN rows[s] :
                <<e, s>> \notin denied /\ p = <<s, i>> /\ rows[s][i] = e
        BY <4>0 DEF Row
      <4>2. rows[s] = <<>>
        BY <1>1
      <4>3. DOMAIN <<>> = {}
        BY SMTT(30)
      <4> QED
        BY <4>1, <4>2, <4>3
    <3> QED
      BY <3>1
  <2>2. \A e \in Events : fate[e] = "none"
    BY <1>1
  <2> QED
    BY <1>5, <2>1, <2>2 DEF RowsTrue, InSlot
<1>9. ReportsKept
  <2>1. ToSet(backlog) = {} /\ IsInjective(backlog)
    BY <1>1, EmptyQueue
  <2>2. offer["worker"] = Idle /\ 1..reported = {} /\ \A e \in Events : fate[e] = "none"
    BY <1>1, <1>3, <1>5, EventNumbers
  <2> QED
    BY <1>1, <2>1, <2>2 DEF ReportsKept
<1> QED
  BY <1>4, <1>6, <1>7, <1>8, <1>9 DEF SyntheticInv

LEMMA SyntheticStays ==
    ASSUME SyntheticInv, [SyntheticNext]_syntheticVars
    PROVE  SyntheticInv'
<1>1. CASE UNCHANGED syntheticVars
  <2>1. UNCHANGED <<mailbox, writer, rows, denied, lost, offer, backlog, worker, owner, reported, fate>>
    BY <1>1 DEF syntheticVars, shardVars, reporterVars
  <2>2. SyntheticTypes'
    BY <2>1 DEF SyntheticInv, SyntheticTypes
  <2>3. OffersOwn'
    BY <2>1 DEF SyntheticInv, OffersOwn
  <2>4. MailWaitedFor'
    BY <2>1 DEF SyntheticInv, MailWaitedFor, Due
  <2>5. RowsTrue'
    BY <2>1, RowsSame DEF SyntheticInv
  <2>6. DeniedTried'
    BY <2>1, DeniedSame DEF SyntheticInv
  <2>7. ReportsKept'
    BY <2>1 DEF SyntheticInv, ReportsKept
  <2> QED
    BY <2>2, <2>3, <2>4, <2>5, <2>6, <2>7 DEF SyntheticInv
<1>2. ASSUME NEW x \in Senders,
             OfferNext(x) \/ PublishSynthetic(x) \/ Accepted(x) \/ Disconnected(x)
      PROVE  SyntheticInv'
  BY <1>2, OfferNextKeeps, LoggedKeeps, PublishKeeps, AcceptedKeeps, DisconnectedKeeps
<1>3. ASSUME NEW s \in Shards,
             \/ CommitSynthetic(s) \/ CommitCapacity(s) \/ CommitFails(s)
             \/ RecoveryFails(s) \/ ElsewhereFails(s)
             \/ WriterClose(s) \/ WriterDrain(s) \/ WriterGone(s)
      PROVE  SyntheticInv'
  BY <1>3, WriterAnswers, WriterEnds
<1>4. CASE SuperviseCommit \/ Report \/ TakeReport \/ DropReporter \/ Join
  BY <1>4, SuperviseKeeps, ReportKeeps, TakeKeeps, DropKeeps
<1> QED
  BY <1>1, <1>2, <1>3, <1>4 DEF SyntheticNext

LEMMA SyntheticInvHolds == SyntheticSpec => []SyntheticInv
BY SyntheticBegins, SyntheticStays, PTL DEF SyntheticSpec

\* The number of copies, from the places.
LEMMA CopiesOf ==
    ASSUME SyntheticTypes, NEW e
    PROVE  /\ (\A p, q \in Kept(rows, denied, e) : p = q) => Copies(e) <= 1
           /\ Kept(rows, denied, e) # {} /\ (\A p, q \in Kept(rows, denied, e) : p = q) => Copies(e) = 1
           /\ Kept(rows, denied, e) = {} => Copies(e) = 0
<1> DEFINE S == Kept(rows, denied, e)
<1>1. IsFiniteSet(S)
  <2>1. rows \in [Shards -> Seq(Events)]
    BY DEF SyntheticTypes
  <2> QED
    BY <2>1, KeptFinite
<1>2. Copies(e) = Cardinality(S)
  BY DEF Copies
<1> HIDE DEF S
<1>3. Cardinality(S) \in Nat /\ (Cardinality(S) = 0 <=> S = {})
  BY <1>1, FS_CardinalityType, FS_EmptySet
<1>4. ASSUME NEW p \in S, \A q, r \in S : q = r PROVE Cardinality(S) = 1
  <2>1. S = {p}
    BY <1>4
  <2> QED
    BY <2>1, FS_Singleton
<1>5. (\A p, q \in S : p = q) => Cardinality(S) = 0 \/ Cardinality(S) = 1
  BY <1>3, <1>4
<1>6. /\ (\A p, q \in S : p = q) => Cardinality(S) <= 1
      /\ S # {} /\ (\A p, q \in S : p = q) => Cardinality(S) = 1
      /\ S = {} => Cardinality(S) = 0
  <2>1. 0 <= 1 /\ 1 <= 1
    BY SMTT(30)
  <2> QED
    BY <1>3, <1>5, <2>1
<1> QED
  BY <1>2, <1>6 DEF S

\* Whatever the number of shards, of reports and of faults, and wherever a commit
\* fails, an event about the daemon is stored at most once in the shards that did
\* not deny it: counted as stored, it is there until that shard is replaced for
\* corruption, and counted as lost, it is not (pipeline.rs,
\* commit_synthetic_fallback; writer.rs, handle_synthetic; shard.rs,
\* commit_synthetic).
THEOREM OneRecordEach == SyntheticSpec => []FateTrue
<1>1. SyntheticInv => FateTrue
  <2> SUFFICES ASSUME SyntheticInv, NEW e \in Events
               PROVE  /\ Copies(e) <= 1
                      /\ fate[e] = "stored" => Copies(e) = 1 \/ e \in lost
                      /\ fate[e] = "logged" => Copies(e) = 0
    BY DEF FateTrue
  <2>1. /\ \A p, q \in Kept(rows, denied, e) : p = q
        /\ fate[e] = "stored" => Kept(rows, denied, e) # {} \/ e \in lost
        /\ fate[e] = "logged" => Kept(rows, denied, e) = {}
    BY DEF SyntheticInv, RowsTrue
  <2>2. SyntheticTypes
    BY DEF SyntheticInv
  <2> QED
    BY <2>1, <2>2, CopiesOf
<1> QED
  BY <1>1, SyntheticInvHolds, PTL

\* Nobody waits for a reply that cannot come: the message is in the queue of a
\* writer that has yet to answer or to drop it, also one published after the
\* writer closed the queue, or the reply channel is closed; and a reporter that is
\* gone has settled every event reported to it (writer.rs, WriterExit;
\* pipeline.rs, SyntheticReporter::drop).
THEOREM NoneLeftWaiting == SyntheticSpec => []WaitersAnswered
<1>1. SyntheticInv => WaitersAnswered
  <2> SUFFICES ASSUME SyntheticInv PROVE WaitersAnswered
    BY SMTT(30)
  <2>1. SyntheticTypes /\ OffersOwn /\ MailWaitedFor /\ ReportsKept
    BY DEF SyntheticInv
  <2>2. ASSUME NEW x \in Senders, offer[x].reply = "waiting", NEW s, s = offer[x].shard
        PROVE  IF x \in ToSet(mailbox[s]) THEN writer[s] # "gone" ELSE writer[s] # "running"
    <3>1. s \in Shards /\ (writer[s] = "running" => x \in ToSet(mailbox[s]))
      BY <2>1, <2>2, WaitsAt DEF Due, InSlot
    <3>2. mailbox[s] # <<>> => writer[s] # "gone"
      BY <2>1, <3>1, MailFacts
    <3>3. x \in ToSet(mailbox[s]) => mailbox[s] # <<>>
      BY EmptyQueue
    <3> QED
      BY <3>1, <3>2, <3>3
  <2>3. ASSUME owner = "gone", NEW e \in 1..reported PROVE fate[e] # "none"
    <3>1. backlog = <<>> /\ offer["worker"] = Idle
      BY <2>1, <2>3 DEF ReportsKept
    <3>2. e \in Events
      BY <2>1, EventNumbers DEF SyntheticTypes
    <3>3. e # offer["worker"].event /\ e \notin ToSet(backlog)
      BY <3>1, <3>2, EventNumbers, EmptyQueue
    <3> QED
      BY <2>1, <3>3 DEF ReportsKept
  <2> QED
    BY <2>2, <2>3 DEF WaitersAnswered
<1> QED
  BY <1>1, SyntheticInvHolds, PTL
=============================================================================
