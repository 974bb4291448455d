------------------------- MODULE AuthorizationProofs -------------------------
(***************************************************************************)
(* Rights are current, for every registry, every list of candidates and    *)
(* any number of readers, connections, stores and types.                   *)
(*                                                                         *)
(* First the descriptor cache by itself: it is current and fails closed.   *)
(* CacheCurrent is not inductive: whether an insertion keeps it depends on *)
(* what the reader's walk has seen.  What carries it is that a walk of the *)
(* present generation, with the watch standing and nothing pending, has    *)
(* seen the registry as it is (WalksFresh), and that no walk is of a later *)
(* generation, so that raising the generation makes every walk a stale one *)
(* (Dated).                                                                *)
(*                                                                         *)
(* Then the service: the handlers and the metric thread use the cache by   *)
(* its protocol, and no thread goes on using a right that was taken away.  *)
(***************************************************************************)
EXTENDS ServiceSystem, FiniteSetTheorems, TLAPS

\* The time each leaf may take, in seconds.
USE ZenonT(30)

Outcomes == [pattern : Patterns \cup {"none"}, value : Values \cup {"unresolved"}]

Looks == [pc : {"idle", "read", "walk", "insert", "done", "error"},
          id : Identifiers, gen : Nat, at : Nat \ {0}, found : Outcomes]

CacheTypes ==
    /\ registry \in [Patterns -> Values]
    /\ generation \in Nat
    /\ healthy \in BOOLEAN
    /\ resolved \in [Identifiers -> Outcomes]
    /\ watch \in {"off", "armed", "poll", "changed", "failed", "stopped"}
    /\ pending \in BOOLEAN
    /\ look \in [Readers -> Looks]

Dated == \A r \in Readers : look[r].gen <= generation

\* What a walk has found so far is what the registry says.
Faithful(l) ==
    /\ l.pc = "walk" => \A j \in 1..Len(Candidates[l.id]) :
                            j < l.at => registry[Candidates[l.id][j]] = "none"
    /\ l.pc = "insert" => l.found = Resolution(registry, l.id)

WalksFresh ==
    \A r \in Readers : Told /\ look[r].gen = generation => Faithful(look[r])

CacheInv == CacheTypes /\ Dated /\ WalksFresh /\ CacheCurrent

-----------------------------------------------------------------------------
(* Resolution. *)

\* The candidates of an identifier are a sequence of patterns.
LEMMA CandidateTypes ==
    ASSUME NEW id \in Identifiers
    PROVE  /\ Len(Candidates[id]) \in Nat
           /\ \A i \in 1..Len(Candidates[id]) : Candidates[id][i] \in Patterns
<1>1. Candidates[id] \in Seq(Patterns)
  BY CandidatesAssumption
<1> QED
  BY <1>1, SMTT(30)

\* Without a descriptor at any candidate nothing is found.
LEMMA NothingHeld ==
    ASSUME NEW reg, NEW id \in Identifiers,
           \A i \in 1..Len(Candidates[id]) : reg[Candidates[id][i]] = "none"
    PROVE  Resolution(reg, id) = Missing
BY DEF Resolution, Holding

\* The first candidate that holds a value is the one found.
LEMMA FirstHeld ==
    ASSUME NEW reg, NEW id \in Identifiers, NEW i \in 1..Len(Candidates[id]),
           reg[Candidates[id][i]] # "none",
           \A j \in 1..Len(Candidates[id]) : j < i => reg[Candidates[id][j]] = "none"
    PROVE  Resolution(reg, id) = Found(reg, id, i)
<1> DEFINE S == Holding(reg, id)
<1>1. Len(Candidates[id]) \in Nat
  BY CandidateTypes
<1>2. i \in S /\ S \subseteq Nat
  BY <1>1, SMTT(30) DEF Holding
<1>3. \A j \in S : i <= j
  BY <1>1, SMTT(30) DEF Holding
<1>4. First(S) \in S /\ \A j \in S : First(S) <= j
  BY <1>2, <1>3 DEF First
<1>5. First(S) = i
  <2> HIDE DEF S
  <2>1. First(S) <= i /\ i <= First(S)
    BY <1>2, <1>3, <1>4
  <2>2. First(S) \in Nat /\ i \in Nat
    BY <1>2, <1>4
  <2> QED
    BY <2>1, <2>2, SMTT(30)
<1> QED
  BY <1>2, <1>5 DEF Resolution
-----------------------------------------------------------------------------
(* The invariant. *)

\* The facts about an idle reader.
LEMMA IdleTypes ==
    /\ Missing \in Outcomes /\ Unresolved \in Outcomes
    /\ Idle \in Looks /\ Idle.gen = 0 /\ Idle.pc = "idle"
    /\ \A id \in Identifiers : /\ Begun(id) \in Looks
                               /\ Begun(id).gen = 0
                               /\ Begun(id).pc = "read"
<1>1. Missing \in Outcomes /\ Unresolved \in Outcomes
  BY DEF Missing, Unresolved, Outcomes, Values
<1>2. Idle \in Looks /\ Idle.gen = 0 /\ Idle.pc = "idle"
  BY <1>1, CandidatesAssumption, SMTT(30) DEF Idle, Looks
<1>3. ASSUME NEW id \in Identifiers
      PROVE  Begun(id) \in Looks /\ Begun(id).gen = 0 /\ Begun(id).pc = "read"
  BY <1>2 DEF Begun, Looks
<1> QED
  BY <1>1, <1>2, <1>3

\* The initial states satisfy it.
LEMMA InitInv == CacheInit => CacheInv
<1> SUFFICES ASSUME CacheInit PROVE CacheInv
  OBVIOUS
<1>1. CacheTypes
  BY IdleTypes DEF CacheInit, CacheTypes
<1>2. Dated
  BY IdleTypes, SMTT(30) DEF CacheInit, Dated
<1>3. WalksFresh /\ CacheCurrent
  BY DEF CacheInit, WalksFresh, Told, CacheCurrent
<1> QED
  BY <1>1, <1>2, <1>3 DEF CacheInv

\* A step that changes one reader only, and keeps Dated and WalksFresh.
LEMMA ReaderStep ==
    ASSUME CacheInv, NEW r \in Readers, NEW l \in Looks,
           look' = [look EXCEPT ![r] = l],
           UNCHANGED <<registry, generation, healthy, resolved, watch, pending>>,
           l.gen <= generation,
           Told /\ l.gen = generation => Faithful(l)
    PROVE  CacheInv'
<1> USE DEF CacheInv
<1>1. CacheTypes'
  BY DEF CacheTypes
<1>2. \A q \in Readers : look'[q] = IF q = r THEN l ELSE look[q]
  BY DEF CacheTypes
<1>3. Dated'
  BY <1>2 DEF Dated
<1>4. WalksFresh'
  <2> SUFFICES ASSUME NEW q \in Readers, Told', look'[q].gen = generation'
               PROVE  Faithful(look[q])'
    BY DEF WalksFresh
  <2>1. Told /\ generation' = generation /\ registry' = registry
    BY DEF Told
  <2>2. CASE q = r
    <3>1. look'[q] = l
      BY <1>2, <2>2
    <3>2. Faithful(l)
      BY <2>1, <3>1
    <3> QED
      BY <2>1, <3>1, <3>2 DEF Faithful
  <2>3. CASE q # r
    <3>1. look'[q] = look[q]
      BY <1>2, <2>3
    <3>2. Faithful(look[q])
      BY <2>1, <3>1 DEF WalksFresh
    <3> QED
      BY <2>1, <3>1, <3>2 DEF Faithful
  <2> QED
    BY <2>2, <2>3
<1>5. CacheCurrent'
  BY DEF CacheCurrent
<1> QED
  BY <1>1, <1>3, <1>4, <1>5

\* Emptying the cache makes every walk a stale one.
LEMMA EmptiedKeeps ==
    ASSUME CacheInv, NEW h \in BOOLEAN, Emptied(h),
           watch' \in {"off", "poll"},
           UNCHANGED <<registry, pending, look>>
    PROVE  CacheInv'
<1> USE DEF CacheInv, Emptied
<1>1. CacheTypes'
  BY IdleTypes, SMTT(30) DEF CacheTypes
<1>2. \A r \in Readers : look[r].gen \in Nat /\ look[r].gen < generation'
  BY SMTT(30) DEF CacheTypes, Dated, Looks
<1>3. generation \in Nat /\ generation' = generation + 1
  BY DEF CacheTypes
<1>4. Dated'
  BY <1>2, <1>3, SMTT(30) DEF Dated
<1>5. WalksFresh'
  BY <1>2, <1>3, SMTT(30) DEF WalksFresh
<1>6. CacheCurrent'
  BY DEF CacheCurrent
<1> QED
  BY <1>1, <1>4, <1>5, <1>6

\* A step after which the watch stands no more, or has something to tell,
\* asks nothing of the walks.
LEMMA UntoldKeeps ==
    ASSUME CacheInv, CacheTypes', ~Told',
           UNCHANGED <<generation, healthy, resolved, look>>
    PROVE  CacheInv'
BY DEF CacheInv, Dated, WalksFresh, CacheCurrent, Told

\* A walk goes on over keys without a descriptor, and ends at the first that
\* has one.
LEMMA WalkKeeps ==
    ASSUME CacheInv, NEW r \in Readers, Walk(r)
    PROVE  CacheInv'
<1> DEFINE l == look[r]
           c == Candidates[l.id]
           i == l.at
<1>1. l \in Looks /\ l.id \in Identifiers /\ i \in Nat \ {0} /\ l.gen <= generation
  BY DEF CacheInv, CacheTypes, Looks, Dated
<1>2. Len(c) \in Nat /\ \A j \in 1..Len(c) : c[j] \in Patterns
  BY <1>1, CandidateTypes
<1>3. l.pc = "walk" /\ UNCHANGED <<registry, generation, healthy, resolved, watch, pending>>
  BY DEF Walk
<1>4. Told /\ l.gen = generation =>
        \A j \in 1..Len(c) : j < i => registry[c[j]] = "none"
  BY <1>3 DEF CacheInv, WalksFresh, Faithful
<1>5. i <= Len(c) => ~(i > Len(c))
  BY <1>1, <1>2, SMTT(30)
<1>6. CASE i > Len(c)
  <2> DEFINE n == [l EXCEPT !.pc = "insert", !.found = Missing]
  <2>1. look' = [look EXCEPT ![r] = n]
    BY <1>6 DEF Walk
  <2>2. n \in Looks /\ n.gen = l.gen /\ n.id = l.id /\ n.pc = "insert" /\ n.found = Missing
    BY <1>1, IdleTypes DEF Looks
  <2>3. Told /\ l.gen = generation => Resolution(registry, l.id) = Missing
    BY <1>1, <1>2, <1>4, <1>6, NothingHeld, SMTT(30)
  <2>4. Told /\ n.gen = generation => Faithful(n)
    BY <2>2, <2>3 DEF Faithful
  <2> HIDE DEF n
  <2> QED
    BY <1>1, <1>3, <2>1, <2>2, <2>4, ReaderStep
<1>7. CASE i <= Len(c) /\ registry[c[i]] = "invalid"
  <2> DEFINE n == [l EXCEPT !.pc = "error"]
  <2>1. look' = [look EXCEPT ![r] = n]
    BY <1>5, <1>7 DEF Walk
  <2>2. n \in Looks /\ n.gen = l.gen /\ n.pc = "error"
    BY <1>1 DEF Looks
  <2>3. Faithful(n)
    BY <2>2 DEF Faithful
  <2> HIDE DEF n
  <2> QED
    BY <1>1, <1>3, <2>1, <2>2, <2>3, ReaderStep
<1>8. CASE i <= Len(c) /\ registry[c[i]] = "none"
  <2> DEFINE n == [l EXCEPT !.at = i + 1]
  <2>1. look' = [look EXCEPT ![r] = n]
    BY <1>5, <1>8 DEF Walk
  <2>2. n \in Looks /\ n.gen = l.gen /\ n.pc = "walk" /\ n.at = i + 1 /\ n.id = l.id
    BY <1>1, <1>3, SMTT(30) DEF Looks
  <2>3. Told /\ n.gen = generation => Faithful(n)
    <3> HAVE Told /\ n.gen = generation
    <3>1. \A j \in 1..Len(c) : j < i + 1 => registry[c[j]] = "none"
      BY <1>1, <1>2, <1>4, <1>8, <2>2, SMTT(30)
    <3> QED
      BY <2>2, <3>1 DEF Faithful
  <2> HIDE DEF n
  <2> QED
    BY <1>1, <1>3, <2>1, <2>2, <2>3, ReaderStep
<1>9. CASE i <= Len(c) /\ registry[c[i]] \notin {"none", "invalid"}
  <2> DEFINE n == [l EXCEPT !.pc = "insert", !.found = Found(registry, l.id, i)]
  <2>1. look' = [look EXCEPT ![r] = n]
    BY <1>5, <1>9 DEF Walk
  <2>2. i \in 1..Len(c)
    BY <1>1, <1>2, <1>9, SMTT(30)
  <2>3. Found(registry, l.id, i) \in Outcomes
    BY <1>2, <2>2 DEF Found, Outcomes, CacheInv, CacheTypes
  <2>4. /\ n \in Looks /\ n.gen = l.gen /\ n.id = l.id /\ n.pc = "insert"
        /\ n.found = Found(registry, l.id, i)
    BY <1>1, <2>3 DEF Looks
  <2>5. Told /\ l.gen = generation => Resolution(registry, l.id) = Found(registry, l.id, i)
    BY <1>1, <1>4, <1>9, <2>2, FirstHeld
  <2>6. Told /\ n.gen = generation => Faithful(n)
    BY <2>4, <2>5 DEF Faithful
  <2> HIDE DEF n
  <2> QED
    BY <1>1, <1>3, <2>1, <2>4, <2>6, ReaderStep
<1> QED
  BY <1>1, <1>2, <1>6, <1>7, <1>8, <1>9, SMTT(30)

\* An outcome enters the cache only from a walk of the present generation.
LEMMA InsertKeeps ==
    ASSUME CacheInv, NEW r \in Readers, Insert(r)
    PROVE  CacheInv'
<1> DEFINE l == look[r]
<1>1. l \in Looks /\ l.id \in Identifiers /\ l.found \in Outcomes /\ l.gen <= generation
  BY DEF CacheInv, CacheTypes, Looks, Dated
<1>2. l.pc = "insert" /\ UNCHANGED <<registry, generation, healthy, watch, pending>>
  BY DEF Insert
<1>3. CASE generation # l.gen \/ ~healthy
  <2> DEFINE n == [l EXCEPT !.pc = "read"]
  <2>1. look' = [look EXCEPT ![r] = n] /\ UNCHANGED resolved
    BY <1>3 DEF Insert
  <2>2. n \in Looks /\ n.gen = l.gen /\ n.pc = "read"
    BY <1>1 DEF Looks
  <2>3. Faithful(n)
    BY <2>2 DEF Faithful
  <2> HIDE DEF n
  <2> QED
    BY <1>1, <1>2, <2>1, <2>2, <2>3, ReaderStep
<1>4. CASE generation = l.gen /\ healthy
  <2> DEFINE n == [l EXCEPT !.pc = "done"]
  <2>1. /\ look' = [look EXCEPT ![r] = n]
        /\ resolved' = [resolved EXCEPT ![l.id] = l.found]
    BY <1>4 DEF Insert
  <2>2. n \in Looks /\ n.gen = l.gen /\ n.pc = "done"
    BY <1>1 DEF Looks
  <2>3. \A q \in Readers : look'[q] = IF q = r THEN n ELSE look[q]
    BY <2>1 DEF CacheInv, CacheTypes
  <2> HIDE DEF n
  <2>4. CacheTypes'
    BY <1>1, <1>2, <2>1, <2>2 DEF CacheInv, CacheTypes
  <2>5. Dated'
    BY <1>1, <1>2, <2>2, <2>3 DEF CacheInv, Dated
  <2>6. WalksFresh'
    <3> SUFFICES ASSUME NEW q \in Readers, Told', look'[q].gen = generation'
                 PROVE  Faithful(look[q])'
      BY DEF WalksFresh
    <3>1. CASE q = r
      BY <2>2, <2>3, <3>1 DEF Faithful
    <3>2. CASE q # r
      <4>1. look'[q] = look[q] /\ Told /\ look[q].gen = generation
        BY <1>2, <2>3, <3>2 DEF Told
      <4>2. Faithful(look[q])
        BY <4>1 DEF CacheInv, WalksFresh
      <4> QED
        BY <1>2, <4>1, <4>2 DEF Faithful
    <3> QED
      BY <3>1, <3>2
  <2>7. CacheCurrent'
    <3> SUFFICES ASSUME Told, NEW id \in Identifiers, resolved'[id] # Unresolved
                 PROVE  resolved'[id] = Resolution(registry, id)
      BY <1>2, <1>4 DEF CacheCurrent, Told
    <3>1. CASE id = l.id
      <4>1. l.found = Resolution(registry, l.id)
        BY <1>2, <1>4 DEF CacheInv, WalksFresh, Faithful
      <4> QED
        BY <2>1, <3>1, <4>1 DEF CacheInv, CacheTypes
    <3>2. CASE id # l.id
      BY <2>1, <3>2 DEF CacheInv, CacheTypes, CacheCurrent, Told
    <3> QED
      BY <3>1, <3>2
  <2> QED
    BY <2>4, <2>5, <2>6, <2>7 DEF CacheInv
<1> QED
  BY <1>3, <1>4

\* What a reader takes from the cache, or begins, or lays aside, disturbs
\* nothing.
LEMMA LookUpKeeps ==
    ASSUME CacheInv, NEW r \in Readers, LookUp(r)
    PROVE  CacheInv'
<1> DEFINE l == look[r]
           n == IF resolved[l.id] # Unresolved
                THEN [l EXCEPT !.pc = "done", !.found = resolved[l.id]]
                ELSE IF ~healthy
                THEN [l EXCEPT !.pc = "done", !.found = Missing]
                ELSE [l EXCEPT !.pc = "walk", !.gen = generation, !.at = 1]
<1>1. l \in Looks /\ l.id \in Identifiers /\ l.gen <= generation /\ generation \in Nat
  BY DEF CacheInv, CacheTypes, Looks, Dated
<1>2. look' = [look EXCEPT ![r] = n]
  BY DEF LookUp
<1>3. UNCHANGED <<registry, generation, healthy, resolved, watch, pending>>
  BY DEF LookUp
<1>4. resolved[l.id] \in Outcomes
  BY <1>1 DEF CacheInv, CacheTypes
<1>5. /\ n \in Looks /\ n.gen <= generation
      /\ n.pc = "done" \/ (n.pc = "walk" /\ n.at = 1)
  <2>1. CASE resolved[l.id] # Unresolved
    BY <1>1, <1>4, <2>1 DEF Looks
  <2>2. CASE resolved[l.id] = Unresolved /\ ~healthy
    BY <1>1, <2>2, IdleTypes DEF Looks
  <2>3. CASE resolved[l.id] = Unresolved /\ healthy
    <3> DEFINE m == [l EXCEPT !.pc = "walk", !.gen = generation, !.at = 1]
    <3>1. n = m
      BY <2>3
    <3>2. m \in Looks
      <4>1. [l EXCEPT !.pc = "walk", !.gen = generation] \in Looks
        BY <1>1 DEF Looks
      <4>2. m = [[l EXCEPT !.pc = "walk", !.gen = generation] EXCEPT !.at = 1]
        OBVIOUS
      <4>3. \A k \in Looks : [k EXCEPT !.at = 1] \in Looks
        BY SMTT(30) DEF Looks
      <4> HIDE DEF m
      <4> QED
        BY <4>1, <4>2, <4>3
    <3>3. m.gen = generation /\ m.pc = "walk" /\ m.at = 1
      BY <1>1 DEF Looks
    <3> HIDE DEF m, n
    <3> QED
      BY <1>1, <3>1, <3>2, <3>3, SMTT(30)
  <2> QED
    BY <2>1, <2>2, <2>3
<1>6. Faithful(n)
  <2> HIDE DEF n
  <2> QED
    BY <1>5, SMTT(30) DEF Faithful
<1> HIDE DEF n
<1> QED
  BY <1>2, <1>3, <1>5, <1>6, ReaderStep

\* Every step keeps the invariant.
LEMMA StepInv == CacheInv /\ [CacheNext]_cacheVars => CacheInv'
<1> SUFFICES ASSUME CacheInv, [CacheNext]_cacheVars PROVE CacheInv'
  OBVIOUS
<1>1. ASSUME NEW r \in Readers, ResolveStep(r) PROVE CacheInv'
  BY <1>1, LookUpKeeps, WalkKeeps, InsertKeeps
  DEF ResolveStep, ResolveLookUp, AdminLookUp, ResolveInsert, AdminInsert
<1>2. ASSUME NEW r \in Readers, Answered(r) PROVE CacheInv'
  <2>1. /\ look' = [look EXCEPT ![r] = Idle]
        /\ UNCHANGED <<registry, generation, healthy, resolved, watch, pending>>
    BY <1>2 DEF Answered
  <2>2. Faithful(Idle) /\ Idle.gen <= generation
    BY IdleTypes, SMTT(30) DEF Faithful, CacheInv, CacheTypes
  <2> QED
    BY <2>1, <2>2, IdleTypes, ReaderStep
<1>3. ASSUME NEW r \in Readers, NEW id \in Identifiers, Resolve(r, id) PROVE CacheInv'
  <2>1. /\ look' = [look EXCEPT ![r] = Begun(id)]
        /\ UNCHANGED <<registry, generation, healthy, resolved, watch, pending>>
    BY <1>3 DEF Resolve
  <2>2. Begun(id) \in Looks /\ Faithful(Begun(id)) /\ Begun(id).gen <= generation
    BY IdleTypes, SMTT(30) DEF Faithful, CacheInv, CacheTypes
  <2> QED
    BY <2>1, <2>2, ReaderStep
<1>4. CASE WatchArmed \/ WatchChanged
  BY <1>4, EmptiedKeeps DEF WatchArmed, WatchChanged, Invalidate
<1>5. CASE WatchFailed
  BY <1>5, EmptiedKeeps DEF WatchFailed, FailWatch
<1>6. CASE WatchArm \/ WatchRead \/ WatchError \/ WatchStop
  <2>1. CacheTypes' /\ ~Told'
    BY <1>6 DEF CacheInv, CacheTypes, Told, WatchArm, WatchRead, WatchError, WatchStop
  <2> QED
    BY <1>6, <2>1, UntoldKeeps DEF WatchArm, WatchRead, WatchError, WatchStop
<1>7. ASSUME NEW p \in Patterns, NEW v \in Values, RegistryChange(p, v) PROVE CacheInv'
  <2>1. CacheTypes'
    BY <1>7 DEF CacheInv, CacheTypes, RegistryChange
  <2>2. ~Told'
    BY <1>7 DEF Told, RegistryChange
  <2> QED
    BY <1>7, <2>1, <2>2, UntoldKeeps DEF RegistryChange
<1>8. CASE UNCHANGED cacheVars
  BY <1>8 DEF cacheVars, CacheInv, CacheTypes, Dated, WalksFresh, Faithful, Told,
              CacheCurrent
<1> QED
  BY <1>1, <1>2, <1>3, <1>4, <1>5, <1>6, <1>7, <1>8 DEF CacheNext, WatchStep

\* The invariant holds throughout.
THEOREM CacheInvHolds == CacheSpec => []CacheInv
BY InitInv, StepInv, PTL DEF CacheSpec

\* While the watch stands and has told of every change, what is cached is what
\* the registry says now, and while the watch is known to have failed nothing
\* is cached (security.rs, resolve_with and admin_with against invalidate and
\* fail_watch).
THEOREM StaysCurrent == CacheSpec => []CacheCurrent
<1>1. CacheInv => CacheCurrent
  BY DEF CacheInv
<1> QED
  BY <1>1, CacheInvHolds, PTL


-----------------------------------------------------------------------------
(* The stores. *)

LEMMA StoreLists ==
    ASSUME NEW c \in Conns
    PROVE  StoresOf(c) \in Seq(Stores) /\ StoresOf(c) # <<>>
BY ConnsAssumption DEF StoresOf

\* The parts of a list.
LEMMA Parts ==
    ASSUME NEW S, NEW q \in Seq(S), q # <<>>
    PROVE  Head(q) \in S /\ Tail(q) \in Seq(S)
BY SMTT(30)

\* A number is not the next one.
LEMMA BelowNext == \A m \in Nat, n \in Nat : m <= n => m # n + 1
BY SMTT(30)

\* A list of several leaves some when its head is taken.
LEMMA TailLeft ==
    ASSUME NEW S, NEW q \in Seq(S), q # <<>>, Len(q) # 1
    PROVE  Tail(q) \in Seq(S) /\ Tail(q) # <<>>
<1>1. Len(q) \in Nat \ {0}
  BY SMTT(30)
<1>2. Tail(q) \in Seq(S) /\ Len(Tail(q)) = Len(q) - 1
  BY <1>1, SMTT(30)
<1>3. Len(Tail(q)) # 0
  BY <1>1, <1>2, SMTT(30)
<1>4. Len(<<>>) = 0
  OBVIOUS
<1> QED
  BY <1>2, <1>3, <1>4

LEMMA HighestNat ==
    ASSUME StoreTypes, NEW s \in Stores
    PROVE  Highest(s) \in Nat
<1>1. rows[s] \in Seq(StoredRows)
  BY DEF StoreTypes
<1>2. CASE rows[s] = <<>>
  BY <1>2 DEF Highest
<1>3. CASE rows[s] # <<>>
  <2>1. Last(rows[s]) \in StoredRows
    BY <1>1, <1>3, SMTT(30) DEF Last
  <2> QED
    BY <1>3, <2>1 DEF Highest, StoredRows
<1> QED
  BY <1>2, <1>3

\* What one read of a store finds is a sequence of its rows.
LEMMA FoundRows ==
    ASSUME StoreTypes, NEW c, NEW s \in Stores,
           NEW found \in SetToSeqs(Matching(c, s))
    PROVE  found \in Seq(StoredRows)
<1> DEFINE M == Matching(c, s)
<1>1. rows[s] \in Seq(StoredRows)
  BY DEF StoreTypes
<1>2. M \subseteq Range(rows[s])
  BY DEF Matching, Between
<1>3. IsFiniteSet(Range(rows[s])) /\ Range(rows[s]) \subseteq StoredRows
  <2>1. Range(rows[s]) = {rows[s][i] : i \in 1..Len(rows[s])}
    BY <1>1, SMTT(30) DEF Range
  <2>2. IsFiniteSet(1..Len(rows[s]))
    BY <1>1, FS_Interval, SMTT(30)
  <2>3. rows[s] \in Surjection(1..Len(rows[s]), Range(rows[s]))
    BY <1>1, <2>1, SMTT(30) DEF Surjection
  <2>4. IsFiniteSet(Range(rows[s]))
    BY <2>2, <2>3, FS_Surjection
  <2> QED
    BY <1>1, <2>1, <2>4, SMTT(30)
<1>4. IsFiniteSet(M) /\ Cardinality(M) \in Nat /\ M \subseteq StoredRows
  BY <1>2, <1>3, FS_Subset, FS_CardinalityType
<1> HIDE DEF M
<1>5. found \in [1..Cardinality(M) -> M]
  BY DEF SetToSeqs, Bijection, Injection, M
<1> QED
  BY <1>4, <1>5, SMTT(30)

LEMMA StoreInit == Init => StoreTypes
<1>1. IsFiniteSet({})
  BY FS_EmptySet
<1> QED
  BY <1>1, SMTT(30) DEF Init, StoresInit, StoreTypes

LEMMA StoreRowTypes ==
    ASSUME StoreTypes, NEW s \in Stores, NEW t \in Types,
           NEW after \in SUBSET Conns, StoreRow(s, t, after)
    PROVE  StoreTypes'
<1> DEFINE row == [id |-> Highest(s) + 1, type |-> t, uid |-> born, store |-> s,
                   after |-> after, again |-> Highest(s) < given[s]]
<1>1. row \in StoredRows
  <2>1. Highest(s) + 1 \in Nat /\ born \in Nat /\ (Highest(s) < given[s]) \in BOOLEAN
    BY HighestNat, SMTT(30) DEF StoreTypes
  <2> QED
    BY <2>1 DEF StoredRows
<1>2. rows' \in [Stores -> Seq(StoredRows)]
  BY <1>1, SMTT(30) DEF StoreRow, StoreTypes
<1>3. born' \in Nat /\ given' \in [Stores -> Nat]
  BY HighestNat, SMTT(30) DEF StoreRow, StoreTypes
<1>4. IsFiniteSet(catalog[s] \union {t})
  BY FS_AddElement DEF StoreTypes
<1>5. /\ catalog' \in [Stores -> SUBSET Types]
      /\ \A x \in Stores : IsFiniteSet(catalog'[x])
  BY <1>4 DEF StoreRow, StoreTypes
<1> QED
  BY <1>2, <1>3, <1>5 DEF StoreTypes

LEMMA DeleteTypes ==
    ASSUME StoreTypes, NEW s \in Stores, NEW i \in 1..Len(rows[s]),
           DeleteOldest(s, i)
    PROVE  StoreTypes'
<1>1. rows[s] \in Seq(StoredRows)
  BY DEF StoreTypes
<1>2. RemoveAt(rows[s], i) \in Seq(StoredRows)
  BY <1>1, SMTT(30) DEF RemoveAt
<1> QED
  BY <1>2 DEF DeleteOldest, StoreTypes

LEMMA PruneTypes ==
    ASSUME StoreTypes, NEW s \in Stores, RemoveOrphanTypes(s)
    PROVE  StoreTypes'
<1>1. \A S \in SUBSET Types : IsFiniteSet(catalog[s] \ S)
  BY FS_Subset DEF StoreTypes
<1>2. catalog' = [catalog EXCEPT ![s] = @ \ (orphans[s] \ StoredTypes(s))]
  BY DEF RemoveOrphanTypes
<1>3. IsFiniteSet(catalog[s] \ (orphans[s] \ StoredTypes(s)))
  BY FS_Subset DEF StoreTypes
<1> QED
  BY <1>2, <1>3 DEF RemoveOrphanTypes, StoreTypes

LEMMA StoreStep == StoreTypes /\ [Next]_vars => StoreTypes'
<1> SUFFICES ASSUME StoreTypes, [Next]_vars PROVE StoreTypes'
  OBVIOUS
<1>1. UNCHANGED storeVars => StoreTypes'
  BY DEF storeVars, StoreTypes
<1>2. ASSUME NEW s \in Stores, RowStored(s) PROVE StoreTypes'
  BY <1>2, StoreRowTypes DEF RowStored
<1>3. ASSUME NEW s \in Stores, CommitTold(s) PROVE StoreTypes'
  BY <1>3 DEF CommitTold, Committed, StoreTypes
<1>4. ASSUME NEW s \in Stores, RetentionStep(s) PROVE StoreTypes'
  BY <1>4, DeleteTypes, PruneTypes DEF RetentionStep
<1>5. ASSUME NEW c \in Conns, Arrive(c) \/ HandlerStep(c) \/ FaultStep(c)
      PROVE  UNCHANGED storeVars
  BY <1>5 DEF Arrive, HandlerStep, ServerStep, AccessStep, CountStep, FaultStep
<1>6. ListenerStep \/ DescriptorStep \/ WatchFault \/ PublisherStep
      \/ StopAsked \/ SupervisorStep => UNCHANGED storeVars
  BY DEF ListenerStep, DescriptorStep, WatchFault, PublisherStep, StopAsked,
         SupervisorStep, ThreadEnded, StopPolicy, others
<1>7. ASSUME NEW r \in Readers, ResolutionStep(r) PROVE UNCHANGED storeVars
  BY <1>7 DEF ResolutionStep
<1>8. ASSUME NEW p \in Patterns, NEW v \in Values, DescriptorWritten(p, v)
      PROVE  UNCHANGED storeVars
  BY <1>8 DEF DescriptorWritten
<1>9. ConfigStep \/ ConfigFault \/ IndexStep \/ Pressure => UNCHANGED storeVars
  BY DEF ConfigStep, ConfigFault, IndexStep, Pressure, aside
<1>10. ASSUME NEW w \in WriterSet, ShardStep(w) \/ Calm(w)
       PROVE  UNCHANGED storeVars
  BY <1>10 DEF ShardStep, Calm, aside
<1>11. UNCHANGED vars => UNCHANGED storeVars
  BY DEF vars
<1> QED
  BY <1>1, <1>2, <1>3, <1>4, <1>5, <1>6, <1>7, <1>8, <1>9, <1>10, <1>11 DEF Next

-----------------------------------------------------------------------------
(* The handlers: what each works through. *)

\* Only c's handler moves, and it stays sound.
Alters(c) ==
    /\ DOMAIN conn' = Conns
    /\ Sound(conn'[c])
    /\ \A d \in Conns : d # c => conn'[d] = conn[d]

LEMMA AltersKeeps ==
    ASSUME ConnSound, NEW c \in Conns, Alters(c)
    PROVE  ConnSound'
<1>1. ASSUME NEW d \in Conns PROVE Sound(conn'[d])
  BY DEF Alters, ConnSound
<1> QED
  BY <1>1 DEF Alters, ConnSound, Sound

LEMMA FreshSound == Sound(Fresh) /\ Sound([Fresh EXCEPT !.pc = "gone"])
<1>1. IsFiniteSet({})
  BY FS_EmptySet
<1> QED
  BY <1>1, SMTT(30) DEF Sound, Fresh, Handling

\* Going on to a place that asks nothing of the lists.
LEMMA GoAlters ==
    ASSUME ConnSound, NEW c \in Conns,
           NEW pc \in (Handling \union {"absent", "knock", "gone"})
                      \ {"capture", "discover", "scan", "visit", "visiting",
                         "authorize", "authorizing"},
           Go(c, pc)
    PROVE  Alters(c)
<1>1. Sound(conn[c]) /\ DOMAIN conn = Conns
  BY DEF ConnSound
<1>2. DOMAIN conn' = Conns /\ \A d \in Conns : d # c => conn'[d] = conn[d]
  BY <1>1 DEF Go
<1>3. conn'[c] = [conn[c] EXCEPT !.pc = pc]
  BY <1>1 DEF Go
<1>4. Sound(conn'[c])
  BY <1>1, <1>3 DEF Sound, Fresh
<1> QED
  BY <1>2, <1>4 DEF Alters

LEMMA LeaveAlters ==
    ASSUME ConnSound, NEW c \in Conns, Leave(c)
    PROVE  Alters(c) /\ conn'[c].pc = "leaving"
<1>1. Sound(conn[c]) /\ DOMAIN conn = Conns
  BY DEF ConnSound
<1>2. DOMAIN conn' = Conns /\ \A d \in Conns : d # c => conn'[d] = conn[d]
  BY <1>1 DEF Leave
<1>3. conn'[c] = [conn[c] EXCEPT !.pc = "leaving", !.kept = <<>>, !.rows = <<>>,
                                 !.todo = <<>>]
  BY <1>1 DEF Leave
<1>4. <<>> \in Seq(StoredRows)
  BY SMTT(30)
<1>5. Sound(conn'[c]) /\ conn'[c].pc = "leaving"
  BY <1>1, <1>3, <1>4, SMTT(30) DEF Sound, Fresh, Handling
<1> QED
  BY <1>2, <1>5 DEF Alters

\* The steps of the server alone.
LEMMA ServerAlters ==
    ASSUME ConnSound, StoreTypes, NEW c \in Conns, ServerStep(c) \/ Arrive(c)
    PROVE  Alters(c)
<1>1. Sound(conn[c]) /\ DOMAIN conn = Conns
  BY DEF ConnSound
<1>2. StoresOf(c) \in Seq(Stores) /\ StoresOf(c) # <<>> /\ <<>> \in Seq(StoredRows)
  BY StoreLists, SMTT(30)
<1>3. ASSUME Accept(c) PROVE Alters(c)
  BY <1>3, GoAlters DEF Accept, Handling
<1>4. ASSUME Knock(c) PROVE Alters(c)
  BY <1>4, GoAlters DEF Knock, Handling
<1>5. ASSUME Release(c) PROVE Alters(c)
  BY <1>1, <1>5 DEF Release, Alters, Sound, Fresh, Handling
<1>6. ASSUME Exit(c) PROVE Alters(c)
  BY <1>1, <1>6, FreshSound DEF Exit, Alters
<1>7. ASSUME Identify(c) PROVE Alters(c)
  <2>1. CASE Leave(c)
    BY <2>1, LeaveAlters
  <2>2. CASE conn' = [conn EXCEPT ![c].pc = "request",
                                  ![c].slot = plan[c].user \in Users]
    BY <1>1, <2>2, SMTT(30) DEF Alters, Sound, Fresh, Handling
  <2> QED
    BY <1>7, <2>1, <2>2 DEF Identify
<1>8. ASSUME CaptureCursor(c) PROVE Alters(c)
  <2>1. conn[c].pc = "capture" /\ conn[c].todo \in Seq(Stores) /\ conn[c].todo # <<>>
    BY <1>1, <1>8 DEF CaptureCursor, At, Sound
  <2>2. Len(conn[c].todo) # 1 => Tail(conn[c].todo) \in Seq(Stores) /\ Tail(conn[c].todo) # <<>>
    BY <2>1, TailLeft
  <2>3. DOMAIN conn' = Conns /\ \A d \in Conns : d # c => conn'[d] = conn[d]
    BY <1>1, <1>8 DEF CaptureCursor
  <2>4. /\ DOMAIN conn'[c] = DOMAIN conn[c]
        /\ conn'[c].slot = conn[c].slot /\ conn'[c].stream = conn[c].stream
        /\ conn'[c].allowed = conn[c].allowed /\ conn'[c].types = {}
        /\ conn'[c].rows = conn[c].rows /\ conn'[c].kept = conn[c].kept
        /\ conn'[c].pc \in {"capture", "watch", "discover"}
        /\ conn'[c].todo = IF Len(conn[c].todo) = 1 THEN StoresOf(c)
                           ELSE Tail(conn[c].todo)
    <3> DEFINE f == IF conn[c].watch THEN conn[c].first
                    ELSE [conn[c].first EXCEPT ![Head(conn[c].todo)]
                            = Highest(Head(conn[c].todo))]
               u == [conn[c].upper EXCEPT ![Head(conn[c].todo)]
                       = Highest(Head(conn[c].todo))]
               t == IF Len(conn[c].todo) = 1 THEN StoresOf(c)
                    ELSE Tail(conn[c].todo)
    <3>1. PICK pc \in {"capture", "watch", "discover"} :
            conn' = [conn EXCEPT ![c].upper = u, ![c].todo = t, ![c].types = {},
                                 ![c].first = f, ![c].pc = pc]
      BY <1>8 DEF CaptureCursor
    <3> HIDE DEF f, u, t
    <3>2. conn'[c] = [conn[c] EXCEPT !.upper = u, !.todo = t, !.types = {},
                                     !.first = f, !.pc = pc]
      BY <1>1, <3>1
    <3>3. DOMAIN conn[c] = DOMAIN Fresh
      BY <1>1 DEF Sound
    <3> QED
      BY <3>2, <3>3 DEF t, Fresh
  <2>5. IsFiniteSet({})
    BY FS_EmptySet
  <2>6. Sound(conn'[c])
    BY <1>1, <1>2, <2>2, <2>4, <2>5 DEF Sound, Handling
  <2> QED
    BY <2>3, <2>6 DEF Alters
<1>9. ASSUME RowsVisited(c) PROVE Alters(c)
  <2>1. CASE conn[c].todo = <<>>
    BY <1>9, <2>1, GoAlters DEF RowsVisited, Handling
  <2>2. CASE conn[c].todo # <<>>
    <3>1. conn' = [conn EXCEPT ![c].pc = "scan"] /\ conn[c].todo \in Seq(Stores)
      BY <1>1, <1>9, <2>2 DEF RowsVisited, Go, At, Sound
    <3> QED
      BY <1>1, <3>1 DEF Alters, Sound, Fresh, Handling
  <2> QED
    BY <2>1, <2>2
<1>10. ASSUME Scan(c) PROVE Alters(c)
  <2>1. conn[c].todo \in Seq(Stores) /\ conn[c].todo # <<>>
    BY <1>1, <1>10 DEF Scan, At, Sound
  <2>2. PICK found \in SetToSeqs(Matching(c, Head(conn[c].todo))),
             pc \in {"visit", "scan"} :
          conn' = [conn EXCEPT ![c].rows = @ \o found, ![c].todo = Tail(@),
                               ![c].pc = pc]
    BY <1>10 DEF Scan
  <2>3. found \in Seq(StoredRows)
    BY <2>1, <2>2, FoundRows, SMTT(30)
  <2>4. conn[c].rows \o found \in Seq(StoredRows) /\ Tail(conn[c].todo) \in Seq(Stores)
    BY <1>1, <2>1, <2>3, SMTT(30) DEF Sound
  <2>5. DOMAIN conn[c] = DOMAIN Fresh
    BY <1>1 DEF Sound
  <2>6. DOMAIN conn' = Conns /\ \A d \in Conns : d # c => conn'[d] = conn[d]
    BY <1>1, <2>2
  <2>7. conn'[c] = [conn[c] EXCEPT !.rows = conn[c].rows \o found,
                                   !.todo = Tail(conn[c].todo), !.pc = pc]
    BY <1>1, <2>2, <2>5 DEF Fresh
  <2>8. Sound(conn'[c])
    BY <1>1, <2>4, <2>5, <2>7 DEF Sound, Fresh, Handling
  <2> QED
    BY <2>6, <2>8 DEF Alters
<1>11. ASSUME Emit(c) PROVE Alters(c)
  BY <1>1, <1>2, <1>11, SMTT(30) DEF Emit, Alters, Sound, Fresh, Handling
<1>12. ASSUME EmitBatch(c) PROVE Alters(c)
  <2>1. <<>> \in Seq(StoredRows)
    BY SMTT(30)
  <2>2. DOMAIN conn' = Conns /\ \A d \in Conns : d # c => conn'[d] = conn[d]
    BY <1>1, <1>12 DEF EmitBatch
  <2>3. DOMAIN conn[c] = DOMAIN Fresh
    BY <1>1 DEF Sound
  <2>4. /\ DOMAIN conn'[c] = DOMAIN conn[c]
        /\ conn'[c].slot = conn[c].slot /\ conn'[c].stream = conn[c].stream
        /\ conn'[c].types = conn[c].types /\ conn'[c].allowed = conn[c].allowed
        /\ conn'[c].rows = conn[c].rows /\ conn'[c].kept = <<>>
        /\ conn'[c].pc \in {"leaving", "watch"}
    <3> DEFINE batch == SortSeq(conn[c].kept, ByTie)
               new == IF plan[c].kind = "distinct" THEN Unseen(batch, conn[c].seen)
                      ELSE batch
               seen == conn[c].seen \union TypesIn(new)
    <3>1. \/ conn' = [conn EXCEPT ![c].pc = "leaving", ![c].kept = <<>>]
          \/ conn' = [conn EXCEPT ![c].pc = "watch", ![c].kept = <<>>, ![c].seen = seen,
                                  ![c].cursor = conn[c].upper,
                                  ![c].sent = @ \o new, ![c].watched = @ \o new]
      BY <1>12 DEF EmitBatch
    <3> HIDE DEF new, seen
    <3>2. \/ conn'[c] = [conn[c] EXCEPT !.pc = "leaving", !.kept = <<>>]
          \/ conn'[c] = [conn[c] EXCEPT !.pc = "watch", !.kept = <<>>, !.seen = seen,
                                        !.cursor = conn[c].upper,
                                        !.sent = @ \o new, !.watched = @ \o new]
      BY <1>1, <3>1
    <3> QED
      BY <2>3, <3>2 DEF Fresh
  <2>5. Sound(conn'[c])
    BY <1>1, <2>1, <2>4 DEF Sound, Handling
  <2> QED
    BY <2>2, <2>5 DEF Alters
<1>13. ASSUME Wake(c) PROVE Alters(c)
  BY <1>1, <1>2, <1>13 DEF Wake, Alters, Sound, Fresh, Handling
<1>14. ASSUME WatchEnds(c) PROVE Alters(c)
  BY <1>14, LeaveAlters DEF WatchEnds
<1> QED
  BY <1>3, <1>4, <1>5, <1>6, <1>7, <1>8, <1>9, <1>10, <1>11, <1>12, <1>13, <1>14
     DEF ServerStep, Arrive

\* A finite set of types as a list.
LEMMA ListedTypes ==
    ASSUME NEW S \in SUBSET Types, IsFiniteSet(S)
    PROVE  SetToSeq(S) \in Seq(Types)
<1> DEFINE D == 1..Cardinality(S)
<1>1. Cardinality(S) \in Nat /\ ExistsBijection(D, S)
  BY FS_CardinalityType
<1>2. SetToSeq(S) \in Bijection(D, S)
  BY <1>1 DEF ExistsBijection, SetToSeq, SetToSeqs
<1>3. SetToSeq(S) \in [D -> S]
  BY <1>2 DEF Bijection, Injection
<1> QED
  BY <1>1, <1>3, SMTT(30)

\* The steps of a query that check access.
LEMMA AccessAlters ==
    ASSUME ConnSound, StoreTypes, NEW c \in Conns, AccessStep(c)
    PROVE  Alters(c)
<1>1. Sound(conn[c]) /\ DOMAIN conn = Conns /\ DOMAIN conn[c] = DOMAIN Fresh
  BY DEF ConnSound, Sound
<1>2. StoresOf(c) \in Seq(Stores) /\ StoresOf(c) # <<>>
  BY StoreLists
<1>3. ASSUME Begin(c) PROVE Alters(c)
  BY <1>1, <1>2, <1>3, SMTT(30) DEF Begin, Alters, Sound, Fresh, Handling
<1>4. ASSUME Discover(c) PROVE Alters(c)
  <2> DEFINE s == Head(conn[c].todo)
             T == conn[c].types \union catalog[s]
             L == IF Len(conn[c].todo) = 1 THEN SetToSeq(T) ELSE Tail(conn[c].todo)
             P == IF Len(conn[c].todo) = 1 THEN "authorize" ELSE conn[c].pc
             G == IF Len(conn[c].todo) = 1 THEN generation ELSE conn[c].gen
  <2>1. /\ conn[c].pc = "discover" /\ conn[c].todo \in Seq(Stores)
        /\ conn[c].todo # <<>> /\ s \in Stores
    BY <1>1, <1>4, SMTT(30) DEF Discover, At, Sound
  <2>2. T \subseteq Types /\ IsFiniteSet(T)
    BY <1>1, <2>1, FS_Union DEF Sound, StoreTypes
  <2>3. SetToSeq(T) \in Seq(Types)
    BY <2>2, ListedTypes
  <2>4. Len(conn[c].todo) # 1 =>
           Tail(conn[c].todo) \in Seq(Stores) /\ Tail(conn[c].todo) # <<>>
    BY <2>1, TailLeft
  <2>5. conn' = [conn EXCEPT ![c].types = T, ![c].todo = L, ![c].allowed = {},
                             ![c].gen = G, ![c].pc = P]
    BY <1>1, <1>4 DEF Discover, Fresh
  <2>6. \/ P = "authorize" /\ L \in Seq(Types)
        \/ P = "discover" /\ L \in Seq(Stores) /\ L # <<>>
    <3>1. CASE Len(conn[c].todo) = 1
      BY <2>3, <3>1
    <3>2. CASE Len(conn[c].todo) # 1
      BY <2>1, <2>4, <3>2
    <3> QED
      BY <3>1, <3>2
  <2> HIDE DEF T, L, P, G
  <2>7. DOMAIN conn' = Conns /\ \A d \in Conns : d # c => conn'[d] = conn[d]
    BY <1>1, <2>5
  <2>8. conn'[c] = [conn[c] EXCEPT !.types = T, !.todo = L, !.allowed = {},
                                   !.gen = G, !.pc = P]
    BY <1>1, <2>5
  <2>9. Sound(conn'[c])
    BY <1>1, <2>2, <2>6, <2>8, SMTT(30) DEF Sound, Fresh, Handling
  <2> QED
    BY <2>7, <2>9 DEF Alters
<1>5. ASSUME AuthorizeEnds(c) PROVE Alters(c)
  <2>1. SetToSeq(conn[c].types) \in Seq(Types)
    BY <1>1, ListedTypes DEF Sound
  <2> QED
    BY <1>1, <1>2, <1>5, <2>1, SMTT(30) DEF AuthorizeEnds, At, Alters, Sound, Fresh, Handling
<1>6. ASSUME AuthorizeNext(c) PROVE Alters(c)
  BY <1>1, <1>6 DEF AuthorizeNext, Go, At, Alters, Sound, Fresh, Handling
<1>7. ASSUME Authorized(c) PROVE Alters(c)
  <2> DEFINE L == Tail(conn[c].todo)
             A == IF verdicts'[c].of[<<"may", Head(conn[c].todo)>>] = "allowed"
                  THEN conn[c].allowed \union {Head(conn[c].todo)}
                  ELSE conn[c].allowed
  <2>1. conn[c].todo \in Seq(Types) /\ conn[c].todo # <<>>
    BY <1>1, <1>7 DEF Authorized, At, Sound
  <2>2. L \in Seq(Types) /\ A \subseteq Types
    <3>1. L \in Seq(Types) /\ Head(conn[c].todo) \in Types
      BY <2>1, Parts
    <3>2. conn[c].allowed \subseteq Types
      BY <1>1 DEF Sound
    <3> QED
      BY <3>1, <3>2
  <2>3. conn' = [conn EXCEPT ![c].pc = "authorize", ![c].todo = L, ![c].allowed = A]
    BY <1>1, <1>7 DEF Authorized, Fresh
  <2> HIDE DEF L, A
  <2>4. DOMAIN conn' = Conns /\ \A d \in Conns : d # c => conn'[d] = conn[d]
    BY <1>1, <2>3
  <2>5. conn'[c] = [conn[c] EXCEPT !.pc = "authorize", !.todo = L, !.allowed = A]
    BY <1>1, <2>3
  <2>6. Sound(conn'[c])
    BY <1>1, <2>2, <2>5, SMTT(30) DEF Sound, Fresh, Handling
  <2> QED
    BY <2>4, <2>6 DEF Alters
<1>8. ASSUME VisitRow(c) PROVE Alters(c)
  BY <1>1, <1>8 DEF VisitRow, Go, At, Alters, Sound, Fresh, Handling
<1>9. ASSUME Visited(c) PROVE Alters(c)
  <2> DEFINE row == Head(conn[c].rows)
             passed == [conn EXCEPT ![c].pc = "visit", ![c].rows = Tail(conn[c].rows)]
  <2>1. /\ conn[c].rows \in Seq(StoredRows) /\ conn[c].rows # <<>>
        /\ conn[c].kept \in Seq(StoredRows) /\ conn[c].todo \in Seq(Stores)
    BY <1>1, <1>9 DEF Visited, At, Sound
  <2>2. /\ row \in StoredRows /\ Tail(conn[c].rows) \in Seq(StoredRows)
        /\ Append(conn[c].kept, row) \in Seq(StoredRows)
    BY <2>1, SMTT(30)
  <2>3. CASE Leave(c)
    BY <2>3, LeaveAlters
  <2>4. /\ DOMAIN passed = Conns /\ \A d \in Conns : d # c => passed[d] = conn[d]
        /\ passed[c] = [conn[c] EXCEPT !.pc = "visit", !.rows = Tail(conn[c].rows)]
    BY <1>1
  <2>5. Sound(passed[c])
    BY <1>1, <2>1, <2>2, <2>4 DEF Sound, Fresh, Handling
  <2>6. CASE conn' = passed
    BY <2>4, <2>5, <2>6 DEF Alters
  <2>7. CASE conn' = [passed EXCEPT ![c].sent = Append(conn[c].sent, row)]
    <3>1. conn'[c] = [passed[c] EXCEPT !.sent = Append(conn[c].sent, row)]
      BY <2>4, <2>7
    <3>2. Sound(conn'[c])
      BY <2>5, <3>1 DEF Sound, Fresh
    <3> QED
      BY <2>4, <2>7, <3>2 DEF Alters
  <2>8. CASE conn' = [passed EXCEPT ![c].kept = Append(conn[c].kept, row)]
    <3>1. conn'[c] = [passed[c] EXCEPT !.kept = Append(conn[c].kept, row)]
      BY <2>4, <2>8
    <3>2. Sound(conn'[c])
      BY <2>2, <2>5, <3>1 DEF Sound, Fresh
    <3> QED
      BY <2>4, <2>8, <3>2 DEF Alters
  <2>9. passed = [conn EXCEPT ![c].pc = "visit", ![c].rows = Tail(@)]
    BY <1>1 DEF Fresh
  <2>10. passed[c].sent = conn[c].sent /\ passed[c].kept = conn[c].kept
    BY <1>1, <2>4 DEF Fresh
  <2> HIDE DEF passed, row
  <2>11. \/ Leave(c) \/ conn' = passed
         \/ conn' = [passed EXCEPT ![c].sent = Append(conn[c].sent, row)]
         \/ conn' = [passed EXCEPT ![c].kept = Append(conn[c].kept, row)]
    BY <1>9, <2>4, <2>9, <2>10 DEF Visited, row
  <2> QED
    BY <2>3, <2>6, <2>7, <2>8, <2>11
<1>10. ASSUME AuthorizeFails(c) PROVE Alters(c)
  BY <1>10, LeaveAlters DEF AuthorizeFails
<1>11. ASSUME RequestIndex(c) PROVE Alters(c)
  BY <1>11, GoAlters DEF RequestIndex, Handling
<1>12. ASSUME Administered(c) PROVE Alters(c)
  BY <1>12, GoAlters, LeaveAlters DEF Administered, Handling
<1> QED
  BY <1>3, <1>4, <1>5, <1>6, <1>7, <1>8, <1>9, <1>10, <1>11, <1>12 DEF AccessStep

\* The steps that count a query, and those in which a handler fails.
LEMMA CountAlters ==
    ASSUME ConnSound, NEW c \in Conns, CountStep(c) \/ FaultStep(c)
    PROVE  Alters(c)
<1>1. Sound(conn[c]) /\ DOMAIN conn = Conns
  BY DEF ConnSound
<1>2. ASSUME Request(c) PROVE Alters(c)
  <2>1. CASE Go(c, "begin")
    BY <2>1, GoAlters DEF Handling
  <2>2. CASE Leave(c)
    BY <2>2, LeaveAlters
  <2>3. CASE conn' = [conn EXCEPT ![c].pc = "begin", ![c].stream = TRUE]
    BY <1>1, <2>3 DEF Alters, Sound, Fresh, Handling
  <2> QED
    BY <1>2, <2>1, <2>2, <2>3 DEF Request
<1>3. ASSUME PrioritizeField(c) PROVE Alters(c)
  BY <1>3, GoAlters DEF PrioritizeField, Handling
<1>4. ASSUME OfferRecompute(c) PROVE Alters(c)
  BY <1>4, LeaveAlters DEF OfferRecompute
<1>5. ASSUME SpawnFails(c) PROVE Alters(c)
  BY <1>5, GoAlters DEF SpawnFails, Handling
<1>6. ASSUME HandlerFails(c) PROVE Alters(c)
  BY <1>6, LeaveAlters DEF HandlerFails
<1> QED
  BY <1>2, <1>3, <1>4, <1>5, <1>6 DEF CountStep, FaultStep

LEMMA HandlerAlters ==
    ASSUME ConnSound, StoreTypes, NEW c \in Conns,
           Arrive(c) \/ HandlerStep(c) \/ FaultStep(c)
    PROVE  Alters(c)
BY ServerAlters, AccessAlters, CountAlters DEF HandlerStep

\* A step that is none of a connection's leaves the handlers and who asks what.
LEMMA ServerFrame ==
    ASSUME [Next]_vars
    PROVE  \/ \E c \in Conns : Arrive(c) \/ HandlerStep(c) \/ FaultStep(c)
           \/ ListenerStep
           \/ UNCHANGED serverVars
<1>1. ASSUME NEW s \in Stores, RowStored(s) \/ CommitTold(s) \/ RetentionStep(s)
      PROVE  UNCHANGED serverVars
  BY <1>1 DEF RowStored, CommitTold, RetentionStep
<1>2. DescriptorStep \/ WatchFault \/ PublisherStep
      \/ StopAsked \/ SupervisorStep => UNCHANGED serverVars
  BY DEF DescriptorStep, WatchFault, PublisherStep, StopAsked,
         SupervisorStep, ThreadEnded, StopPolicy, others
<1>3. ASSUME NEW r \in Readers, ResolutionStep(r) PROVE UNCHANGED serverVars
  BY <1>3 DEF ResolutionStep
<1>4. ASSUME NEW p \in Patterns, NEW v \in Values, DescriptorWritten(p, v)
      PROVE  UNCHANGED serverVars
  BY <1>4 DEF DescriptorWritten
<1>5. ConfigStep \/ ConfigFault \/ IndexStep \/ Pressure => UNCHANGED serverVars
  BY DEF ConfigStep, ConfigFault, IndexStep, Pressure, aside
<1>6. ASSUME NEW w \in WriterSet, ShardStep(w) \/ Calm(w)
      PROVE  UNCHANGED serverVars
  BY <1>6 DEF ShardStep, Calm, aside
<1>7. UNCHANGED vars => UNCHANGED serverVars
  BY DEF vars
<1> QED
  BY <1>1, <1>2, <1>3, <1>4, <1>5, <1>6, <1>7 DEF Next

LEMMA ConnInit == Init => ConnSound
BY FreshSound DEF Init, ServerInit, ConnSound

LEMMA ConnStep == ConnSound /\ StoreTypes /\ [Next]_vars => ConnSound'
<1> SUFFICES ASSUME ConnSound, StoreTypes, [Next]_vars PROVE ConnSound'
  OBVIOUS
<1>1. UNCHANGED conn => ConnSound'
  BY DEF ConnSound, Sound
<1>2. ListenerStep \/ UNCHANGED serverVars => UNCHANGED conn
  BY DEF ListenerStep, StopListening, ListenerEnds, serverVars
<1> QED
  BY <1>1, <1>2, ServerFrame, HandlerAlters, AltersKeeps

-----------------------------------------------------------------------------
(* The descriptor cache in the composition. *)

LEMMA AuthFrame ==
    ASSUME [Next]_vars
    PROVE  \/ \E c \in Conns : AccessStep(c)
           \/ DescriptorStep \/ WatchFault \/ PublisherStep
           \/ \E r \in Readers : ResolutionStep(r)
           \/ \E p \in Patterns, v \in Values : DescriptorWritten(p, v)
           \/ UNCHANGED <<cacheVars, authVars>>
<1>1. ASSUME NEW c \in Conns, Arrive(c) \/ ServerStep(c) \/ CountStep(c) \/ FaultStep(c)
      PROVE  UNCHANGED <<cacheVars, authVars>>
  BY <1>1 DEF Arrive, ServerStep, CountStep, FaultStep
<1>2. ASSUME NEW s \in Stores, RowStored(s) \/ CommitTold(s) \/ RetentionStep(s)
      PROVE  UNCHANGED <<cacheVars, authVars>>
  BY <1>2 DEF RowStored, CommitTold, RetentionStep
<1>3. ListenerStep \/ StopAsked \/ SupervisorStep => UNCHANGED <<cacheVars, authVars>>
  BY DEF ListenerStep, StopAsked, SupervisorStep, ThreadEnded, StopPolicy, others
<1>4. ConfigStep \/ ConfigFault \/ IndexStep \/ Pressure
      => UNCHANGED <<cacheVars, authVars>>
  BY DEF ConfigStep, ConfigFault, IndexStep, Pressure, aside
<1>5. ASSUME NEW w \in WriterSet, ShardStep(w) \/ Calm(w)
      PROVE  UNCHANGED <<cacheVars, authVars>>
  BY <1>5 DEF ShardStep, Calm, aside
<1>6. UNCHANGED vars => UNCHANGED <<cacheVars, authVars>>
  BY DEF vars
<1> QED
  BY <1>1, <1>2, <1>3, <1>4, <1>5, <1>6 DEF Next, HandlerStep

LEMMA CheckIsCache ==
    ASSUME NEW r \in Readers, NEW check, NEW id \in Identifiers,
           CheckBegin(r, check, id) \/ CheckEnd(r, check)
    PROVE  [CacheNext]_cacheVars
<1>1. CASE CheckBegin(r, check, id)
  <2>1. look' = look => UNCHANGED cacheVars
    BY <1>1 DEF CheckBegin, cacheVars
  <2>2. look' = [look EXCEPT ![r] = Begun(id)] => Resolve(r, id)
    BY <1>1 DEF CheckBegin, Resolve
  <2>3. look' = look \/ look' = [look EXCEPT ![r] = Begun(id)]
    BY <1>1 DEF CheckBegin
  <2> QED
    BY <2>1, <2>2, <2>3 DEF CacheNext
<1>2. CASE CheckEnd(r, check)
  <2>1. Answered(r)
    BY <1>2 DEF CheckEnd, Answered
  <2> QED
    BY <2>1 DEF CacheNext
<1> QED
  BY <1>1, <1>2

\* What a handler is about to be checked for.
LEMMA NextAsked ==
    ASSUME NEW c, Sound(conn[c])
    PROVE  /\ AuthorizeNext(c) => Head(conn[c].todo) \in Types
           /\ VisitRow(c) => Head(conn[c].rows) \in StoredRows
<1>1. AuthorizeNext(c) => conn[c].todo \in Seq(Types) /\ conn[c].todo # <<>>
  BY DEF AuthorizeNext, At, Sound
<1>2. VisitRow(c) => conn[c].rows \in Seq(StoredRows) /\ conn[c].rows # <<>>
  BY DEF VisitRow, At, Sound
<1>3. \A S : \A q \in Seq(S) : q # <<>> => Head(q) \in S
  BY SMTT(30)
<1> QED
  BY <1>1, <1>2, <1>3

\* The handlers and the metric thread use the cache by its protocol.
LEMMA UsersOfCache ==
    ASSUME ConnSound, VerdictTypes, Asking, [Next]_vars
    PROVE  [CacheNext]_cacheVars
<1>1. Publisher \in Readers /\ Conns \subseteq Readers /\ Admin \in Identifiers
      /\ Types \subseteq Identifiers
  BY PublisherAssumption, ConnsAssumption, CandidatesAssumption
<1>2. ASSUME NEW c \in Conns, AccessStep(c) PROVE [CacheNext]_cacheVars
  <2>1. Sound(conn[c]) /\ c \in Readers
    BY <1>1 DEF ConnSound
  <2>2. ASSUME UNCHANGED cacheVars PROVE [CacheNext]_cacheVars
    BY <2>2
  <2>3. ASSUME AuthorizeNext(c) PROVE [CacheNext]_cacheVars
    <3>1. Head(conn[c].todo) \in Types
      BY <2>1, <2>3, NextAsked
    <3> QED
      BY <1>1, <2>1, <2>3, <3>1, CheckIsCache DEF AuthorizeNext
  <2>4. ASSUME VisitRow(c) PROVE [CacheNext]_cacheVars
    <3>1. Head(conn[c].rows) \in StoredRows
      BY <2>1, <2>4, NextAsked
    <3>2. Head(conn[c].rows).type \in Identifiers
      BY <1>1, <3>1 DEF StoredRows
    <3> QED
      BY <2>1, <2>4, <3>2, CheckIsCache DEF VisitRow
  <2>5. ASSUME Authorized(c) \/ Visited(c) PROVE [CacheNext]_cacheVars
    <3>1. UNCHANGED cacheVars \/ CheckEnd(c, "may") \/ CheckEnd(c, "row")
      BY <2>5 DEF Authorized, Visited
    <3> QED
      BY <1>1, <2>1, <3>1, CheckIsCache
  <2>6. ASSUME AuthorizeFails(c) \/ Administered(c) PROVE [CacheNext]_cacheVars
    <3>1. Answered(c)
      BY <2>6 DEF AuthorizeFails, Administered, Answered
    <3> QED
      BY <2>1, <3>1 DEF CacheNext
  <2>7. ASSUME RequestIndex(c) PROVE [CacheNext]_cacheVars
    BY <1>1, <2>1, <2>7 DEF RequestIndex, CacheNext
  <2> QED
    BY <1>2, <2>2, <2>3, <2>4, <2>5, <2>6, <2>7 DEF AccessStep
<1>3. ASSUME DescriptorStep PROVE [CacheNext]_cacheVars
  BY <1>3 DEF DescriptorStep, CacheNext
<1>4. ASSUME WatchFault PROVE [CacheNext]_cacheVars
  BY <1>4 DEF WatchFault, CacheNext
<1>5. ASSUME NEW r \in Readers, ResolutionStep(r) PROVE [CacheNext]_cacheVars
  BY <1>5 DEF ResolutionStep, CacheNext
<1>6. ASSUME NEW p \in Patterns, NEW v \in Values, DescriptorWritten(p, v)
      PROVE  [CacheNext]_cacheVars
  BY <1>6 DEF DescriptorWritten, CacheNext
<1>7. ASSUME PublisherStep PROVE [CacheNext]_cacheVars
  <2>1. ASSUME PubReceive \/ PubKnown \/ PubAdmit PROVE UNCHANGED cacheVars
    BY <2>1 DEF PubReceive, PubKnown, PubAdmit
  <2>2. ASSUME PubCheck PROVE [CacheNext]_cacheVars
    <3>1. pub.names \in Seq(Identifiers) /\ pub.names # <<>>
      BY <2>2 DEF PubCheck, VerdictTypes, Asking
    <3>2. Head(pub.names) \in Identifiers
      BY <3>1, SMTT(30)
    <3> QED
      BY <1>1, <2>2, <3>2 DEF PubCheck, CacheNext
  <2>3. ASSUME PubChecked \/ PubError PROVE [CacheNext]_cacheVars
    <3>1. Answered(Publisher)
      BY <2>3 DEF PubChecked, PubError, Answered
    <3> QED
      BY <1>1, <3>1 DEF CacheNext
  <2> QED
    BY <1>7, <2>1, <2>2, <2>3 DEF PublisherStep, PubStep
<1> QED
  BY <1>2, <1>3, <1>4, <1>5, <1>6, <1>7, AuthFrame

-----------------------------------------------------------------------------
(* Where a resolution is in progress. *)

\* The steps of a connection that resolve nothing start where no resolution of
\* its own is in progress.
LEMMA IdleStart ==
    ASSUME NEW c \in Conns,
           \/ Arrive(c) \/ ServerStep(c) \/ CountStep(c) \/ FaultStep(c)
           \/ Begin(c) \/ Discover(c) \/ AuthorizeEnds(c)
    PROVE  conn[c].pc \notin {"authorizing", "visiting", "administer"}
<1>1. ASSUME Arrive(c) PROVE conn[c].pc = "absent"
  BY <1>1 DEF Arrive, Knock, At
<1>2. ASSUME ServerStep(c)
      PROVE  conn[c].pc \in {"knock", "leaving", "exiting", "identify", "capture",
                             "scan", "visit", "emit", "watch"}
  BY <1>2 DEF ServerStep, Accept, Release, Exit, Identify, CaptureCursor, Scan,
              RowsVisited, Emit, EmitBatch, Wake, WatchEnds, At
<1>3. ASSUME CountStep(c) PROVE conn[c].pc \in {"request", "prioritize", "offer"}
  BY <1>3 DEF CountStep, Request, PrioritizeField, OfferRecompute, At
<1>4. ASSUME FaultStep(c)
      PROVE  conn[c].pc \in {"knock", "identify", "request", "capture", "discover",
                             "scan", "visit", "emit", "watch"}
  BY <1>4 DEF FaultStep, SpawnFails, HandlerFails, At
<1>5. ASSUME Begin(c) \/ Discover(c) \/ AuthorizeEnds(c)
      PROVE  conn[c].pc \in {"begin", "discover", "authorize"}
  BY <1>5 DEF Begin, Discover, AuthorizeEnds, At
<1> QED
  BY <1>1, <1>2, <1>3, <1>4, <1>5

\* Only c's resolution and handler move, and they fit each other afterwards.
LEMMA AskingConn ==
    ASSUME Asking, CacheTypes, NEW c \in Conns, Alters(c), NEW l \in Looks,
           look' = [look EXCEPT ![c] = l], UNCHANGED pub,
           l.pc # "idle" => conn'[c].pc \in {"authorizing", "visiting", "administer"}
    PROVE  Asking'
<1>1. c \in Readers /\ c # Publisher /\ Publisher \in Readers /\ Conns \subseteq Readers
  BY ConnsAssumption, PublisherAssumption
<1>2. look'[c] = l /\ \A r \in Readers : r # c => look'[r] = look[r]
  BY <1>1 DEF CacheTypes
<1>3. ASSUME NEW d \in Conns, look'[d].pc # "idle"
      PROVE  conn'[d].pc \in {"authorizing", "visiting", "administer"}
  BY <1>1, <1>2, <1>3 DEF Asking, Alters
<1> QED
  BY <1>1, <1>2, <1>3 DEF Asking

\* A step of a connection that leaves every resolution alone.
LEMMA AskingStill ==
    ASSUME Asking, CacheTypes, NEW c \in Conns, Alters(c), UNCHANGED <<look, pub>>,
           look[c].pc = "idle"
    PROVE  Asking'
<1>1. c \in Readers
  BY ConnsAssumption
<1>2. look[c] \in Looks /\ look' = [look EXCEPT ![c] = look[c]]
  BY <1>1 DEF CacheTypes
<1> QED
  BY <1>2, AskingConn

\* What the steps that check access leave in c's resolution.
LEMMA AccessLooks ==
    ASSUME ConnSound, Asking, CacheTypes, VerdictTypes, NEW c \in Conns, AccessStep(c)
    PROVE  \E l \in Looks :
             /\ look' = [look EXCEPT ![c] = l]
             /\ l.pc \in {"idle", "read"}
             /\ l.pc # "idle" =>
                  conn'[c].pc \in {"authorizing", "visiting", "administer"}
<1>1. /\ c \in Readers /\ Admin \in Identifiers /\ Types \subseteq Identifiers
      /\ look \in [Readers -> Looks] /\ look[c] \in Looks
  BY ConnsAssumption, CandidatesAssumption DEF CacheTypes
<1>2. Sound(conn[c]) /\ DOMAIN conn = Conns /\ DOMAIN conn[c] = DOMAIN Fresh
  BY DEF ConnSound, Sound
<1>3. ASSUME look' = look, look[c].pc = "idle"
      PROVE  \E l \in Looks : look' = [look EXCEPT ![c] = l] /\ l.pc = "idle"
  BY <1>1, <1>3
<1>4. ASSUME look' = [look EXCEPT ![c] = Idle]
      PROVE  \E l \in Looks : look' = [look EXCEPT ![c] = l] /\ l.pc = "idle"
  BY <1>4, IdleTypes
<1>5. ASSUME NEW id \in Identifiers, look' = [look EXCEPT ![c] = Begun(id)]
      PROVE  \E l \in Looks : look' = [look EXCEPT ![c] = l] /\ l.pc = "read"
  BY <1>5, IdleTypes
<1>6. CASE /\ Begin(c) \/ Discover(c) \/ AuthorizeEnds(c)
           /\ UNCHANGED cacheVars
  BY <1>3, <1>6, IdleStart DEF Asking, cacheVars
<1>7. CASE AuthorizeNext(c) \/ VisitRow(c)
  <2>1. conn'[c].pc \in {"authorizing", "visiting"}
    BY <1>2, <1>7 DEF AuthorizeNext, VisitRow, Go, Fresh
  <2>2. PICK id \in Identifiers : CheckBegin(c, "may", id) \/ CheckBegin(c, "row", id)
    <3>1. CASE AuthorizeNext(c)
      <4>1. Head(conn[c].todo) \in Identifiers
        BY <1>1, <1>2, <3>1, NextAsked
      <4> QED
        BY <3>1, <4>1 DEF AuthorizeNext
    <3>2. CASE VisitRow(c)
      <4>1. Head(conn[c].rows) \in StoredRows
        BY <1>2, <3>2, NextAsked
      <4>2. Head(conn[c].rows).type \in Identifiers
        BY <1>1, <4>1 DEF StoredRows
      <4> QED
        BY <3>2, <4>2 DEF VisitRow
    <3> QED
      BY <1>7, <3>1, <3>2
  <2>3. /\ look[c].pc = "idle"
        /\ look' = look \/ look' = [look EXCEPT ![c] = Begun(id)]
    BY <2>2 DEF CheckBegin
  <2> QED
    BY <1>3, <1>5, <2>1, <2>3
<1>8. CASE Authorized(c) \/ Visited(c)
  <2>1. \/ look' = look /\ look[c].pc = "idle"
        \/ look' = [look EXCEPT ![c] = Idle]
    BY <1>8 DEF Authorized, Visited, CheckEnd, cacheVars
  <2> QED
    BY <1>3, <1>4, <2>1
<1>9. CASE AuthorizeFails(c) \/ Administered(c)
  BY <1>4, <1>9 DEF AuthorizeFails, Administered
<1>10. CASE RequestIndex(c)
  <2>1. conn'[c].pc = "administer" /\ look' = [look EXCEPT ![c] = Begun(Admin)]
    BY <1>2, <1>10 DEF RequestIndex, Resolve, Go, Fresh
  <2> QED
    BY <1>1, <1>5, <2>1
<1> QED
  BY <1>6, <1>7, <1>8, <1>9, <1>10 DEF AccessStep

\* What one step of a resolution does: it stays in progress, for the same
\* identifier.
LEMMA ResolutionLooks ==
    ASSUME CacheTypes, NEW r \in Readers, ResolveStep(r)
    PROVE  /\ look[r].pc # "idle" /\ look'[r].pc # "idle"
           /\ look'[r].id = look[r].id
           /\ \A q \in Readers : q # r => look'[q] = look[q]
           /\ UNCHANGED <<registry, generation, healthy, watch, pending>>
<1>1. look \in [Readers -> Looks] /\ look[r] \in Looks
  BY DEF CacheTypes
<1>2. CASE LookUp(r)
  BY <1>1, <1>2 DEF LookUp, Looks
<1>3. CASE Walk(r)
  <2>1. PICK l : /\ look' = [look EXCEPT ![r] = l]
                 /\ \/ l = [look[r] EXCEPT !.pc = "insert", !.found = Missing]
                    \/ l = [look[r] EXCEPT !.pc = "error"]
                    \/ l = [look[r] EXCEPT !.at = look[r].at + 1]
                    \/ l = [look[r] EXCEPT !.pc = "insert",
                              !.found = Found(registry, look[r].id, look[r].at)]
    BY <1>1, <1>3 DEF Walk
  <2>2. look[r].pc = "walk" /\ l.id = look[r].id /\ l.pc # "idle" /\ look'[r] = l
    BY <1>1, <1>3, <2>1 DEF Walk, Looks
  <2> QED
    BY <1>1, <1>3, <2>1, <2>2 DEF Walk
<1>4. CASE Insert(r)
  <2>1. look' = [look EXCEPT ![r].pc = "read"] \/ look' = [look EXCEPT ![r].pc = "done"]
    BY <1>4 DEF Insert
  <2>2. look[r].pc = "insert" /\ UNCHANGED <<registry, generation, healthy, watch, pending>>
    BY <1>4 DEF Insert
  <2> QED
    BY <1>1, <2>1, <2>2 DEF Looks
<1> QED
  BY <1>2, <1>3, <1>4 DEF ResolveStep, ResolveLookUp, AdminLookUp, ResolveInsert, AdminInsert

LEMMA AskingResolution ==
    ASSUME Asking, CacheTypes, NEW r \in Readers, ResolutionStep(r)
    PROVE  Asking'
<1>1. /\ look[r].pc # "idle" /\ look'[r].pc # "idle" /\ look'[r].id = look[r].id
      /\ \A q \in Readers : q # r => look'[q] = look[q]
  BY ResolutionLooks DEF ResolutionStep
<1>2. UNCHANGED <<conn, pub>> /\ Conns \subseteq Readers /\ Publisher \in Readers
  BY ConnsAssumption, PublisherAssumption DEF ResolutionStep, serverVars, authVars
<1> QED
  BY <1>1, <1>2 DEF Asking

\* What the metric thread's steps do to its resolution and to its datagram.
LEMMA PublisherLooks ==
    ASSUME Asking, CacheTypes, VerdictTypes, PubStep
    PROVE  /\ Asking' \/ ~UNCHANGED conn
           /\ \E l \in Looks : /\ look' = [look EXCEPT ![Publisher] = l]
                               /\ l.pc \in {"idle", "read"}
<1>1. /\ Publisher \in Readers /\ Conns \subseteq Readers \ {Publisher}
      /\ look \in [Readers -> Looks] /\ look[Publisher] \in Looks
  BY ConnsAssumption, PublisherAssumption DEF CacheTypes
<1>2. /\ pub.names \in Seq(Identifiers) /\ DOMAIN pub = {"pc", "left", "names", "gen", "admitted"}
      /\ pub.pc \in {"idle", "name", "check", "again"}
  BY DEF VerdictTypes
<1>3. ASSUME PubReceive \/ PubKnown \/ PubAdmit
      PROVE  /\ look' = look /\ look[Publisher].pc = "idle"
             /\ pub'.pc \in {"idle", "name"}
  <2>1. look' = look /\ pub.pc \in {"idle", "name"}
    BY <1>3 DEF PubReceive, PubKnown, PubAdmit, cacheVars
  <2>2. pub'.pc \in {"idle", "name"}
    BY <1>2, <1>3 DEF PubReceive, PubKnown, PubAdmit, Judged
  <2> QED
    BY <2>1, <2>2 DEF Asking
<1>4. ASSUME PubCheck
      PROVE  /\ look' = [look EXCEPT ![Publisher] = Begun(Head(pub.names))]
             /\ Head(pub.names) \in Identifiers /\ pub.names # <<>>
             /\ pub'.pc = "check" /\ pub'.names = pub.names
  <2>1. pub.names # <<>>
    BY <1>4 DEF PubCheck, Asking
  <2> QED
    BY <1>2, <1>4, <2>1, SMTT(30) DEF PubCheck, Resolve
<1>5. ASSUME PubChecked \/ PubError
      PROVE  /\ look' = [look EXCEPT ![Publisher] = Idle]
             /\ \/ pub'.pc \in {"idle", "name"}
                \/ pub'.pc = "again" /\ pub'.names = pub.names /\ pub.names # <<>>
  BY <1>2, <1>5 DEF PubChecked, PubError, Judged, Asking
<1>6. \E l \in Looks : look' = [look EXCEPT ![Publisher] = l] /\ l.pc \in {"idle", "read"}
  <2>1. CASE PubReceive \/ PubKnown \/ PubAdmit
    BY <1>1, <1>3, <2>1
  <2>2. CASE PubCheck
    BY <1>4, <2>2, IdleTypes
  <2>3. CASE PubChecked \/ PubError
    BY <1>5, <2>3, IdleTypes
  <2> QED
    BY <2>1, <2>2, <2>3 DEF PubStep
<1>7. ASSUME UNCHANGED conn PROVE Asking'
  <2>1. \A c \in Conns : look'[c] = look[c]
    BY <1>1, <1>6
  <2>2. /\ look'[Publisher].pc # "idle" => pub'.pc = "check"
        /\ pub'.pc \in {"check", "again"} => pub'.names # <<>>
        /\ pub'.pc = "check" => look'[Publisher].id = Head(pub'.names)
    <3>1. CASE PubReceive \/ PubKnown \/ PubAdmit
      BY <1>3, <3>1
    <3>2. CASE PubCheck
      <4>1. look'[Publisher] = Begun(Head(pub.names))
        BY <1>1, <1>4, <3>2
      <4>2. Begun(Head(pub.names)).id = Head(pub.names)
        BY DEF Begun, Idle
      <4> QED
        BY <1>4, <3>2, <4>1, <4>2
    <3>3. CASE PubChecked \/ PubError
      <4>1. look'[Publisher].pc = "idle"
        BY <1>1, <1>5, <3>3, IdleTypes
      <4> QED
        BY <1>5, <3>3, <4>1
    <3> QED
      BY <3>1, <3>2, <3>3 DEF PubStep
  <2> QED
    BY <1>7, <2>1, <2>2 DEF Asking
<1> QED
  BY <1>6, <1>7

LEMMA AskingStep ==
    ASSUME Asking, CacheTypes, VerdictTypes, ConnSound, StoreTypes, [Next]_vars
    PROVE  Asking'
<1>1. Conns \subseteq Readers /\ Publisher \in Readers
  BY ConnsAssumption, PublisherAssumption
<1>2. ASSUME NEW c \in Conns, Arrive(c) \/ ServerStep(c) \/ CountStep(c) \/ FaultStep(c)
      PROVE  Asking'
  <2>1. look[c].pc = "idle"
    BY <1>2, IdleStart DEF Asking
  <2>2. UNCHANGED <<look, pub>>
    BY <1>2 DEF Arrive, ServerStep, CountStep, FaultStep, cacheVars, authVars
  <2> QED
    BY <1>2, <2>1, <2>2, HandlerAlters, AskingStill DEF HandlerStep
<1>3. ASSUME NEW c \in Conns, AccessStep(c) PROVE Asking'
  <2>1. UNCHANGED pub /\ Alters(c)
    BY <1>3, AccessAlters DEF AccessStep
  <2> QED
    BY <1>3, <2>1, AccessLooks, AskingConn
<1>4. ASSUME NEW r \in Readers, ResolutionStep(r) PROVE Asking'
  BY <1>4, AskingResolution
<1>5. ASSUME PublisherStep PROVE Asking'
  BY <1>5, PublisherLooks DEF PublisherStep, serverVars
<1>6. ASSUME UNCHANGED <<look, conn, pub>> PROVE Asking'
  BY <1>6 DEF Asking
<1>7. \/ \E c \in Conns : Arrive(c) \/ HandlerStep(c) \/ FaultStep(c)
      \/ \E r \in Readers : ResolutionStep(r)
      \/ PublisherStep
      \/ UNCHANGED <<look, conn, pub>>
  <2>1. DescriptorStep \/ WatchFault => UNCHANGED <<look, conn, pub>>
    BY DEF DescriptorStep, WatchFault, WatchStep, WatchArm, WatchArmed, WatchRead,
           WatchChanged, WatchFailed, WatchStop, WatchError, serverVars, authVars
  <2>2. \A p \in Patterns, v \in Values :
           DescriptorWritten(p, v) => UNCHANGED <<look, conn, pub>>
    BY DEF DescriptorWritten, RegistryChange, serverVars, authVars
  <2>3. UNCHANGED <<cacheVars, authVars>> => UNCHANGED <<look, pub>>
    BY DEF cacheVars, authVars
  <2>4. ListenerStep \/ UNCHANGED serverVars => UNCHANGED conn
    BY DEF ListenerStep, StopListening, ListenerEnds, serverVars
  <2> QED
    BY <2>1, <2>2, <2>3, <2>4, AuthFrame, ServerFrame DEF HandlerStep
<1> QED
  BY <1>2, <1>3, <1>4, <1>5, <1>6, <1>7 DEF HandlerStep

-----------------------------------------------------------------------------
(* The verdicts. *)

LEMMA NoVerdictsRight ==
    ASSUME NEW gen \in Nat
    PROVE  /\ NoVerdicts(gen) \in VerdictSets /\ NoVerdicts(gen).gen = gen
           /\ Known(NoVerdicts(gen)) = {} /\ Truthful(NoVerdicts(gen))
<1>1. NoVerdicts(gen) \in VerdictSets /\ NoVerdicts(gen).gen = gen
  BY DEF NoVerdicts, VerdictSets
<1>2. Known(NoVerdicts(gen)) = {}
  BY DEF NoVerdicts, Known
<1> QED
  BY <1>1, <1>2 DEF Truthful

LEMMA RefreshedRight ==
    ASSUME VerdictInv, CacheTypes, NEW r \in Readers
    PROVE  /\ Refreshed(verdicts[r]) \in VerdictSets
           /\ Refreshed(verdicts[r]).gen = generation
           /\ Told => Truthful(Refreshed(verdicts[r]))
           /\ \/ Known(Refreshed(verdicts[r])) = {}
              \/ Refreshed(verdicts[r]) = verdicts[r]
<1>1. verdicts[r] \in VerdictSets /\ generation \in Nat
  BY DEF VerdictInv, VerdictTypes, CacheTypes
<1>2. CASE verdicts[r].gen # generation
  BY <1>1, <1>2, NoVerdictsRight DEF Refreshed
<1>3. CASE verdicts[r].gen = generation
  BY <1>1, <1>3 DEF Refreshed, VerdictInv, FiledTrue
<1> QED
  BY <1>2, <1>3

\* A verdict added to a set of them.
LEMMA AddedVerdict ==
    ASSUME NEW v \in VerdictSets, NEW check \in Checks, NEW id \in Identifiers,
           NEW found, NEW w, w = [v EXCEPT !.of[<<check, id>>] = Verdict(found)]
    PROVE  /\ w \in VerdictSets /\ w.gen = v.gen
           /\ Known(w) = Known(v) \union {<<check, id>>}
           /\ Truthful(v) /\ found = Resolution(registry, id) => Truthful(w)
<1> DEFINE x == <<check, id>>
<1>1. x \in Checks \X Identifiers /\ Verdict(found) \in {"allowed", "refused"}
  BY DEF Verdict
<1>2. /\ w \in VerdictSets /\ w.gen = v.gen /\ w.of[x] = Verdict(found)
      /\ \A y \in Checks \X Identifiers : y # x => w.of[y] = v.of[y]
  BY <1>1 DEF VerdictSets
<1> HIDE DEF x
<1>3. DOMAIN v.of = Checks \X Identifiers /\ DOMAIN w.of = Checks \X Identifiers
  BY <1>2 DEF VerdictSets
<1>4. Known(w) = Known(v) \union {x}
  BY <1>1, <1>2, <1>3 DEF Known
<1>5. ASSUME Truthful(v), found = Resolution(registry, id) PROVE Truthful(w)
  <2>1. ASSUME NEW y \in Known(w) PROVE w.of[y] = Verdict(Resolution(registry, y[2]))
    <3>1. CASE y = x
      BY <1>2, <1>5, <3>1 DEF x
    <3>2. CASE y # x
      <4>1. y \in Known(v) /\ y \in Checks \X Identifiers
        BY <1>3, <1>4, <3>2, <2>1 DEF Known
      <4> QED
        BY <1>2, <1>5, <3>2, <4>1 DEF Truthful
    <3> QED
      BY <3>1, <3>2
  <2> QED
    BY <2>1 DEF Truthful
<1> QED
  BY <1>2, <1>4, <1>5 DEF x

\* The parts of the invariant that a reader's step may disturb.
Filing == Stamped /\ AnswersTrue /\ FiledTrue

\* Reader r takes on the verdicts v and the resolution l, which has no answer.
LEMMA ReaderFiles ==
    ASSUME VerdictInv, CacheTypes, NEW r \in Readers, NEW v \in VerdictSets,
           NEW l \in Looks,
           verdicts' = [verdicts EXCEPT ![r] = v],
           look' = [look EXCEPT ![r] = l],
           UNCHANGED <<registry, generation, watch, pending>>,
           v.gen <= generation, Told /\ v.gen = generation => Truthful(v),
           l.pc # "done",
           pub'.gen <= generation, r # Publisher => pub' = pub
    PROVE  Filing'
<1>1. verdicts'[r] = v /\ \A q \in Readers : q # r => verdicts'[q] = verdicts[q]
  BY DEF VerdictInv, VerdictTypes
<1>2. look'[r] = l /\ \A q \in Readers : q # r => look'[q] = look[q]
  BY DEF CacheTypes
<1>3. (Told' <=> Told) /\ (Truthful(v) => Truthful(v)')
  BY DEF Told, Truthful
<1>4. Stamped'
  BY <1>1 DEF VerdictInv, Stamped
<1>5. AnswersTrue'
  <2>1. ASSUME Told, NEW q \in Readers, look'[q].pc = "done", Stamp(q)' = generation
        PROVE  look'[q].found = Resolution(registry, look'[q].id)
    <3>1. q # r /\ look'[q] = look[q] /\ verdicts'[q] = verdicts[q]
      BY <1>1, <1>2, <2>1
    <3>2. Stamp(q) = generation
      BY <2>1, <3>1 DEF Stamp
    <3> QED
      BY <2>1, <3>1, <3>2 DEF VerdictInv, AnswersTrue
  <2> QED
    BY <1>3, <2>1 DEF AnswersTrue
<1>6. FiledTrue'
  <2>1. ASSUME Told, NEW q \in Readers, verdicts'[q].gen = generation
        PROVE  Truthful(verdicts[q])' 
    <3>1. CASE q = r
      BY <1>1, <1>3, <2>1, <3>1 DEF Truthful
    <3>2. CASE q # r
      <4>1. verdicts'[q] = verdicts[q] /\ Truthful(verdicts[q])
        BY <1>1, <2>1, <3>2 DEF VerdictInv, FiledTrue
      <4> QED
        BY <4>1 DEF Truthful
    <3> QED
      BY <3>1, <3>2
  <2> QED
    BY <1>3, <2>1 DEF FiledTrue
<1> QED
  BY <1>4, <1>5, <1>6 DEF Filing

\* What the steps that check access leave of c's verdicts.
LEMMA AccessVerdicts ==
    ASSUME VerdictInv, CacheTypes, ConnSound, NEW c \in Conns, AccessStep(c)
    PROVE  \E v \in VerdictSets :
             /\ verdicts' = [verdicts EXCEPT ![c] = v]
             /\ v.gen <= generation
             /\ Told /\ v.gen = generation => Truthful(v)
<1>1. c \in Readers /\ c # Publisher /\ verdicts \in [Readers -> VerdictSets]
  BY ConnsAssumption DEF VerdictInv, VerdictTypes
<1>2. /\ verdicts[c] \in VerdictSets /\ generation \in Nat
      /\ verdicts[c].gen <= generation
      /\ Told /\ verdicts[c].gen = generation => Truthful(verdicts[c])
  BY <1>1 DEF VerdictInv, Stamped, FiledTrue, CacheTypes
<1> DEFINE Good(v) == /\ v \in VerdictSets /\ v.gen <= generation
                      /\ Told /\ v.gen = generation => Truthful(v)
<1>3. Good(verdicts[c]) /\ Good(NoVerdicts(generation)) /\ Good(Refreshed(verdicts[c]))
  BY <1>1, <1>2, RefreshedRight, NoVerdictsRight, SMTT(30) DEF VerdictSets
<1>4. ASSUME look[c].pc = "done", NEW check \in Checks
      PROVE  Good([verdicts[c] EXCEPT !.of[<<check, look[c].id>>] = Verdict(look[c].found)])
  <2>1. look[c].id \in Identifiers
    BY <1>1 DEF CacheTypes, Looks
  <2>2. Told /\ verdicts[c].gen = generation =>
           look[c].found = Resolution(registry, look[c].id)
    BY <1>1, <1>4 DEF VerdictInv, AnswersTrue, Stamp
  <2> DEFINE v == verdicts[c]
             id == look[c].id
             found == look[c].found
             w == [v EXCEPT !.of[<<check, id>>] = Verdict(found)]
  <2>3. v \in VerdictSets /\ id \in Identifiers
    BY <1>2, <2>1
  <2> HIDE DEF v, id, found
  <2>4. /\ w \in VerdictSets /\ w.gen = v.gen
        /\ Truthful(v) /\ found = Resolution(registry, id) => Truthful(w)
    BY <2>3, AddedVerdict, SMTT(30)
  <2>5. Good(v) /\ (Told /\ v.gen = generation => found = Resolution(registry, id))
    BY <1>2, <2>2 DEF v, id, found
  <2> HIDE DEF w
  <2>6. Good(w)
    BY <2>4, <2>5
  <2> QED
    BY <2>6 DEF v, id, found, w
<1>5. ASSUME UNCHANGED verdicts PROVE verdicts' = [verdicts EXCEPT ![c] = verdicts[c]]
  BY <1>1, <1>5
<1>6. CASE Begin(c) \/ Discover(c) \/ AuthorizeEnds(c)
  <2>1. \/ verdicts' = [verdicts EXCEPT ![c] = NoVerdicts(generation)]
        \/ verdicts' = [verdicts EXCEPT ![c] = Refreshed(verdicts[c])]
        \/ UNCHANGED verdicts
    BY <1>6 DEF Begin, Discover, AuthorizeEnds
  <2> QED
    BY <1>3, <1>5, <2>1
<1>7. CASE AuthorizeNext(c) \/ VisitRow(c)
  <2>1. verdicts' = [verdicts EXCEPT ![c] = Refreshed(verdicts[c])]
    BY <1>7 DEF AuthorizeNext, VisitRow, CheckBegin
  <2> QED
    BY <1>3, <2>1
<1>8. CASE Authorized(c) \/ Visited(c)
  <2>1. UNCHANGED verdicts \/ CheckEnd(c, "may") \/ CheckEnd(c, "row")
    BY <1>8 DEF Authorized, Visited
  <2>2. ASSUME NEW check \in Checks, CheckEnd(c, check)
        PROVE  /\ look[c].pc = "done"
               /\ verdicts' = [verdicts EXCEPT ![c] =
                    [verdicts[c] EXCEPT !.of[<<check, look[c].id>>] = Verdict(look[c].found)]]
    BY <1>1, <2>2 DEF CheckEnd
  <2>3. "may" \in Checks /\ "row" \in Checks
    BY DEF Checks
  <2> QED
    BY <1>3, <1>4, <1>5, <2>1, <2>2, <2>3
<1>9. CASE /\ AuthorizeFails(c) \/ RequestIndex(c) \/ Administered(c)
           /\ UNCHANGED verdicts
  BY <1>3, <1>5, <1>9
<1> QED
  BY <1>6, <1>7, <1>8, <1>9 DEF AccessStep

LEMMA AccessKeeps ==
    ASSUME VerdictInv, CacheTypes, ConnSound, StoreTypes, NEW c \in Conns,
           AccessStep(c), [Next]_vars
    PROVE  VerdictInv'
<1>1. c \in Readers /\ c # Publisher /\ Publisher \in Readers
  BY ConnsAssumption, PublisherAssumption
<1>2. PICK v \in VerdictSets : /\ verdicts' = [verdicts EXCEPT ![c] = v]
                               /\ v.gen <= generation
                               /\ Told /\ v.gen = generation => Truthful(v)
  BY AccessVerdicts
<1>3. PICK l \in Looks : look' = [look EXCEPT ![c] = l] /\ l.pc \in {"idle", "read"}
  BY AccessLooks DEF VerdictInv
<1>4. UNCHANGED <<registry, generation, healthy, watch, pending, pub>>
  BY DEF AccessStep, AuthorizeNext, CheckBegin, Authorized, CheckEnd, VisitRow,
         Visited, AuthorizeFails, RequestIndex, Resolve, Administered, cacheVars
<1>5. Filing'
  BY <1>1, <1>2, <1>3, <1>4, ReaderFiles DEF VerdictInv, Stamped
<1>6. VerdictTypes'
  BY <1>1, <1>2, <1>4 DEF VerdictInv, VerdictTypes
<1>7. Bounded'
  <2>1. verdicts'[Publisher] = verdicts[Publisher]
    BY <1>1, <1>2 DEF VerdictInv, VerdictTypes
  <2> QED
    BY <2>1 DEF VerdictInv, Bounded
<1>8. Asking'
  BY AskingStep DEF VerdictInv
<1>9. Standing'
  BY <1>4 DEF VerdictInv, Standing
<1> QED
  BY <1>5, <1>6, <1>7, <1>8, <1>9 DEF VerdictInv, Filing

\* A step of a resolution: an answer given now is what the cache holds.
LEMMA ResolutionKeeps ==
    ASSUME VerdictInv, CacheInv, CacheInv', NEW r \in Readers, ResolutionStep(r), Asking'
    PROVE  VerdictInv'
<1>1. CacheTypes /\ look[r] \in Looks /\ look \in [Readers -> Looks]
  BY DEF CacheInv, CacheTypes
<1>2. ResolveStep(r) /\ UNCHANGED <<verdicts, pub>>
  BY DEF ResolutionStep, authVars
<1>3. /\ look'[r].id = look[r].id /\ \A q \in Readers : q # r => look'[q] = look[q]
      /\ UNCHANGED <<registry, generation, healthy, watch, pending>>
  BY <1>1, <1>2, ResolutionLooks
<1>4. Told' <=> Told
  BY <1>3 DEF Told
<1>5. Told /\ look'[r].pc = "done" => look'[r].found = Resolution(registry, look[r].id)
  <2> SUFFICES ASSUME Told, look'[r].pc = "done"
               PROVE  look'[r].found = Resolution(registry, look[r].id)
    OBVIOUS
  <2>1. healthy /\ look[r].id \in Identifiers
    BY <1>1 DEF Told, VerdictInv, Standing, Looks
  <2>2. CASE LookUp(r)
    <3>1. look'[r].found = resolved[look[r].id] /\ resolved[look[r].id] # Unresolved
      BY <1>1, <2>1, <2>2 DEF LookUp, Looks
    <3> QED
      BY <2>1, <3>1 DEF CacheInv, CacheCurrent, Told
  <2>3. CASE Walk(r)
    <3>1. look'[r].pc # "done"
      <4>1. PICK l : /\ look' = [look EXCEPT ![r] = l]
                     /\ \/ l = [look[r] EXCEPT !.pc = "insert", !.found = Missing]
                        \/ l = [look[r] EXCEPT !.pc = "error"]
                        \/ l = [look[r] EXCEPT !.at = look[r].at + 1]
                        \/ l = [look[r] EXCEPT !.pc = "insert",
                                  !.found = Found(registry, look[r].id, look[r].at)]
        BY <1>1, <2>3 DEF Walk
      <4> QED
        BY <1>1, <2>3, <4>1, SMTT(30) DEF Walk, Looks
    <3> QED
      BY <3>1
  <2>4. CASE Insert(r)
    <3>1. /\ look' = [look EXCEPT ![r].pc = "done"]
          /\ look[r].pc = "insert" /\ look[r].gen = generation
      BY <1>1, <2>4 DEF Insert, Looks
    <3>2. look'[r].found = look[r].found
      BY <1>1, <3>1 DEF Looks
    <3> QED
      BY <3>1, <3>2 DEF CacheInv, WalksFresh, Faithful
  <2> QED
    BY <1>2, <2>2, <2>3, <2>4
       DEF ResolveStep, ResolveLookUp, AdminLookUp, ResolveInsert, AdminInsert
<1>6. AnswersTrue'
  <2>1. ASSUME Told, NEW q \in Readers, look'[q].pc = "done", Stamp(q)' = generation
        PROVE  look'[q].found = Resolution(registry, look'[q].id)
    <3>1. CASE q = r
      BY <1>3, <1>5, <2>1, <3>1
    <3>2. CASE q # r
      BY <1>2, <1>3, <2>1, <3>2 DEF VerdictInv, AnswersTrue, Stamp
    <3> QED
      BY <3>1, <3>2
  <2> QED
    BY <1>3, <1>4, <2>1 DEF AnswersTrue
<1>7. Stamped' /\ FiledTrue' /\ Standing' /\ VerdictTypes' /\ Bounded'
  BY <1>2, <1>3, <1>4 DEF VerdictInv, Stamped, FiledTrue, Truthful, Standing,
                          VerdictTypes, Bounded
<1> QED
  BY <1>6, <1>7 DEF VerdictInv

\* The watch and whoever writes descriptors: a step that leaves the watch
\* standing with nothing untold raises the generation.
LEMMA WatchKeeps ==
    ASSUME VerdictInv, CacheTypes, Asking', UNCHANGED authVars,
           \/ WatchStep \/ WatchStop \/ WatchError
           \/ \E p \in Patterns, v \in Values : RegistryChange(p, v)
    PROVE  VerdictInv'
<1>1. UNCHANGED <<verdicts, pub>> /\ generation \in Nat
  BY DEF authVars, CacheTypes
<1>2. /\ generation' \in Nat /\ generation <= generation'
      /\ Told' => generation' = generation + 1
  <2>1. CASE WatchArm \/ WatchRead \/ WatchFailed \/ WatchStop \/ WatchError
    BY <1>1, <2>1, SMTT(30) DEF WatchArm, WatchRead, WatchFailed, WatchStop, WatchError,
                      FailWatch, Emptied, Told
  <2>2. CASE WatchArmed \/ WatchChanged
    BY <1>1, <2>2, SMTT(30) DEF WatchArmed, WatchChanged, Invalidate, Emptied
  <2>3. CASE \E p \in Patterns, v \in Values : RegistryChange(p, v)
    <3>1. PICK p \in Patterns, v \in Values : RegistryChange(p, v)
      BY <2>3
    <3>2. ~Told'
      BY <3>1 DEF RegistryChange, Told
    <3> QED
      BY <1>1, <3>1, <3>2, SMTT(30) DEF RegistryChange
  <2> QED
    BY <2>1, <2>2, <2>3 DEF WatchStep
<1>3. Standing'
  <2>1. CASE WatchArm \/ WatchRead \/ WatchFailed \/ WatchStop \/ WatchError
    BY <2>1 DEF WatchArm, WatchRead, WatchFailed, WatchStop, WatchError, Standing,
                VerdictInv
  <2>2. CASE WatchArmed \/ WatchChanged
    BY <2>2 DEF WatchArmed, WatchChanged, Invalidate, Emptied, Standing
  <2>3. CASE \E p \in Patterns, v \in Values : RegistryChange(p, v)
    BY <2>3, SMTT(30) DEF RegistryChange, Standing, VerdictInv
  <2> QED
    BY <2>1, <2>2, <2>3 DEF WatchStep
<1>4. /\ \A r \in Readers : verdicts[r].gen \in Nat /\ verdicts[r].gen <= generation
      /\ pub.gen \in Nat /\ pub.gen <= generation
  <2>1. (\A r \in Readers : verdicts[r] \in VerdictSets) /\ pub.gen \in Nat
    BY DEF VerdictInv, VerdictTypes
  <2>2. \A v \in VerdictSets : v.gen \in Nat
    BY DEF VerdictSets
  <2>3. /\ \A r \in Readers : verdicts[r].gen <= generation
        /\ pub.gen <= generation
    BY DEF VerdictInv, Stamped
  <2> QED
    BY <2>1, <2>2, <2>3
<1>5. Stamped'
  <2>1. \A n \in Nat : n <= generation => n <= generation'
    BY <1>1, <1>2, SMTT(30)
  <2> QED
    BY <1>1, <1>4, <2>1 DEF Stamped
<1>6. AnswersTrue' /\ FiledTrue'
  <2>1. Told' => \A r \in Readers : Stamp(r)' # generation' /\ verdicts'[r].gen # generation'
    BY <1>1, <1>2, <1>4, BelowNext DEF Stamp
  <2> QED
    BY <2>1 DEF AnswersTrue, FiledTrue
<1> QED
  BY <1>1, <1>3, <1>5, <1>6 DEF VerdictInv, VerdictTypes, Bounded

\* A verdict filed by the metric thread keeps its cache true and in bounds.
LEMMA FiledRight ==
    ASSUME NEW v \in VerdictSets, NEW name \in Identifiers, NEW found,
           IsFiniteSet(Known(v)), Cardinality(Known(v)) <= Capacity,
           generation \in Nat, NEW w, w = Filed(v, generation, name, Verdict(found))
    PROVE  /\ w \in VerdictSets /\ w.gen = generation
           /\ IsFiniteSet(Known(w)) /\ Cardinality(Known(w)) <= Capacity
           /\ (v.gen = generation => Truthful(v))
              /\ found = Resolution(registry, name) => Truthful(w)
<1> DEFINE none == NoVerdicts(generation)
           synced == IF v.gen # generation THEN none ELSE v
           room == IF Cardinality(Known(synced)) = Capacity THEN none ELSE synced
           Ok(u) == /\ u \in VerdictSets /\ u.gen = generation
                    /\ IsFiniteSet(Known(u)) /\ Cardinality(Known(u)) <= Capacity
           True(u) == (v.gen = generation => Truthful(v)) => Truthful(u)
<1>1. Capacity \in Nat
  BY PublisherAssumption
<1>2. Ok(none) /\ True(none) /\ Cardinality(Known(none)) = 0
  <2>1. none \in VerdictSets /\ none.gen = generation /\ Known(none) = {} /\ Truthful(none)
    BY NoVerdictsRight DEF NoVerdicts
  <2> QED
    BY <1>1, <2>1, FS_EmptySet, SMTT(30)
<1>3. Ok(synced) /\ True(synced)
  BY <1>2
<1>4. Ok(room) /\ True(room)
  BY <1>2, <1>3
<1>5. w = IF Capacity = 0 THEN synced
          ELSE [room EXCEPT !.of[<<"may", name>>] = Verdict(found)]
  BY DEF Filed
<1>6. Capacity # 0 => Cardinality(Known(room)) # Capacity
  BY <1>2
<1> HIDE DEF none, synced, room
<1>7. CASE Capacity = 0
  BY <1>3, <1>5, <1>7
<1>8. CASE Capacity # 0
  <2>1. "may" \in Checks /\ room \in VerdictSets
    BY <1>4 DEF Checks
  <2>2. w = [room EXCEPT !.of[<<"may", name>>] = Verdict(found)]
    BY <1>5, <1>8
  <2>3. /\ w \in VerdictSets /\ w.gen = room.gen
        /\ Known(w) = Known(room) \union {<<"may", name>>}
        /\ Truthful(room) /\ found = Resolution(registry, name) => Truthful(w)
    BY <2>1, <2>2, AddedVerdict
  <2>4. /\ IsFiniteSet(Known(w))
        /\ \/ Cardinality(Known(w)) = Cardinality(Known(room))
           \/ Cardinality(Known(w)) = Cardinality(Known(room)) + 1
    <3> DEFINE S == Known(room)
               x == <<"may", name>>
    <3>1. IsFiniteSet(S) /\ Known(w) = S \union {x}
      BY <1>4, <2>3
    <3> HIDE DEF S, x
    <3>2. /\ IsFiniteSet(S \union {x})
          /\ \/ Cardinality(S \union {x}) = Cardinality(S)
             \/ Cardinality(S \union {x}) = Cardinality(S) + 1
      BY <3>1, FS_AddElement
    <3> QED
      BY <3>1, <3>2 DEF S
  <2>5. Cardinality(Known(room)) \in Nat /\ Cardinality(Known(room)) < Capacity
    BY <1>1, <1>4, <1>6, <1>8, FS_CardinalityType, SMTT(30)
  <2> QED
    BY <1>1, <1>4, <2>3, <2>4, <2>5, SMTT(30)
<1> QED
  BY <1>7, <1>8

\* What the metric thread's step leaves of its verdicts and of its datagram.
LEMMA PublisherVerdicts ==
    ASSUME VerdictInv, CacheTypes, PubStep
    PROVE  /\ \E v \in VerdictSets :
                /\ verdicts' = [verdicts EXCEPT ![Publisher] = v]
                /\ v.gen <= generation
                /\ Told /\ v.gen = generation => Truthful(v)
                /\ IsFiniteSet(Known(v)) /\ Cardinality(Known(v)) <= Capacity
           /\ pub' \in [pc : {"idle", "name", "check", "again"},
                        left : Seq(Seq(Identifiers)), names : Seq(Identifiers),
                        gen : Nat, admitted : Seq(Identifiers)]
           /\ pub'.gen <= generation
<1> DEFINE P == Publisher
           Pubs == [pc : {"idle", "name", "check", "again"},
                    left : Seq(Seq(Identifiers)), names : Seq(Identifiers),
                    gen : Nat, admitted : Seq(Identifiers)]
           Good(v) == /\ v \in VerdictSets /\ v.gen <= generation
                      /\ Told /\ v.gen = generation => Truthful(v)
                      /\ IsFiniteSet(Known(v)) /\ Cardinality(Known(v)) <= Capacity
           Taken == \E v : Good(v) /\ verdicts' = [verdicts EXCEPT ![P] = v]
           Kept == pub' \in Pubs /\ pub'.gen <= generation
<1>1. /\ P \in Readers /\ verdicts \in [Readers -> VerdictSets] /\ pub \in Pubs
      /\ verdicts[P] \in VerdictSets /\ generation \in Nat
      /\ pub.gen <= generation /\ Capacity \in Nat
  BY PublisherAssumption DEF VerdictInv, VerdictTypes, Stamped, CacheTypes
<1>2. Good(verdicts[P])
  BY <1>1 DEF VerdictInv, Stamped, FiledTrue, Bounded
<1>3. Good(Refreshed(verdicts[P]))
  <2> DEFINE w == Refreshed(verdicts[P])
  <2>1. /\ w \in VerdictSets /\ w.gen = generation /\ (Told => Truthful(w))
        /\ Known(w) = {} \/ w = verdicts[P]
    BY <1>1, RefreshedRight
  <2> HIDE DEF w
  <2>2. IsFiniteSet({}) /\ Cardinality({}) = 0
    BY FS_EmptySet
  <2>3. Known(w) = {} => Good(w)
    BY <1>1, <2>1, <2>2, SMTT(30)
  <2>4. w = verdicts[P] => Good(w)
    BY <1>2
  <2> QED
    BY <2>1, <2>3, <2>4 DEF w
<1>4. ASSUME UNCHANGED verdicts PROVE Taken
  BY <1>1, <1>2, <1>4
<1>5. pub.names # <<>> => Head(pub.names) \in Identifiers /\ Tail(pub.names) \in Seq(Identifiers)
  BY <1>1, SMTT(30)
<1>6. ASSUME NEW verdict, pub.names # <<>>
      PROVE  /\ Judged(Head(pub.names), verdict) \in Pubs
             /\ Judged(Head(pub.names), verdict).gen = pub.gen
  <2>1. Append(pub.admitted, Head(pub.names)) \in Seq(Identifiers)
    BY <1>1, <1>5, <1>6, SMTT(30)
  <2> QED
    BY <1>1, <1>5, <1>6, <2>1 DEF Judged
<1>7. CASE PubReceive
  <2>1. verdicts' = [verdicts EXCEPT ![P] = Refreshed(verdicts[P])]
    BY <1>7 DEF PubReceive
  <2>2. Head(pub.left) \in Seq(Identifiers) /\ Tail(pub.left) \in Seq(Seq(Identifiers))
    BY <1>1, <1>7, SMTT(30) DEF PubReceive
  <2>3. Kept
    <3> DEFINE left == Tail(pub.left)
               names == Head(pub.left)
    <3>1. pub' = [pub EXCEPT !.pc = "name", !.left = left, !.names = names,
                             !.admitted = <<>>]
      BY <1>7 DEF PubReceive
    <3>2. left \in Seq(Seq(Identifiers)) /\ names \in Seq(Identifiers)
          /\ <<>> \in Seq(Identifiers)
      BY <2>2, SMTT(30)
    <3> HIDE DEF left, names
    <3> QED
      BY <1>1, <3>1, <3>2
  <2> QED
    BY <1>3, <2>1, <2>3
<1>8. CASE PubKnown
  <2>1. pub.names # <<>> /\ UNCHANGED verdicts
        /\ pub' = Judged(Head(pub.names), verdicts[P].of[<<"may", Head(pub.names)>>])
    BY <1>8 DEF PubKnown
  <2> QED
    BY <1>1, <1>4, <1>6, <2>1
<1>9. CASE PubCheck
  <2>1. pub' = [pub EXCEPT !.pc = "check", !.gen = generation] /\ UNCHANGED verdicts
    BY <1>9 DEF PubCheck
  <2>2. pub' = [pc |-> "check", left |-> pub.left, names |-> pub.names,
                gen |-> generation, admitted |-> pub.admitted]
    BY <1>1, <2>1
  <2>3. Kept
    <3>1. pub' \in Pubs /\ pub'.gen = generation
      BY <1>1, <2>2
    <3>2. generation <= generation
      BY <1>1, SMTT(30)
    <3> QED
      BY <3>1, <3>2
  <2> QED
    BY <1>4, <2>1, <2>3
<1>10. CASE PubChecked
  <2> DEFINE name == Head(pub.names)
             verdict == Verdict(look[P].found)
  <2>1. /\ pub.names # <<>> /\ name \in Identifiers /\ look[P].id = name
        /\ look[P].pc = "done"
    BY <1>5, <1>10 DEF PubChecked, VerdictInv, Asking
  <2>2. CASE generation # pub.gen
    BY <1>1, <1>4, <1>10, <2>2 DEF PubChecked
  <2>3. CASE generation = pub.gen
    <3> DEFINE w == Filed(verdicts[P], generation, name, verdict)
    <3>1. pub' = Judged(name, verdict) /\ verdicts' = [verdicts EXCEPT ![P] = w]
      BY <1>1, <1>10, <2>3 DEF PubChecked
    <3>2. Told => look[P].found = Resolution(registry, name)
      BY <1>1, <2>1, <2>3 DEF VerdictInv, AnswersTrue, Stamp
    <3>3. /\ w \in VerdictSets /\ w.gen = generation
          /\ IsFiniteSet(Known(w)) /\ Cardinality(Known(w)) <= Capacity
          /\ (verdicts[P].gen = generation => Truthful(verdicts[P]))
             /\ look[P].found = Resolution(registry, name) => Truthful(w)
      <4>1. /\ verdicts[P] \in VerdictSets /\ IsFiniteSet(Known(verdicts[P]))
            /\ Cardinality(Known(verdicts[P])) <= Capacity /\ generation \in Nat
        BY <1>1, <1>2
      <4> DEFINE v == verdicts[P]
                 found == look[P].found
      <4>2. w = Filed(v, generation, name, Verdict(found)) /\ name \in Identifiers
        BY <2>1
      <4> HIDE DEF v, found, w, name
      <4>3. /\ w \in VerdictSets /\ w.gen = generation
            /\ IsFiniteSet(Known(w)) /\ Cardinality(Known(w)) <= Capacity
            /\ (v.gen = generation => Truthful(v))
               /\ found = Resolution(registry, name) => Truthful(w)
        BY <4>1, <4>2, FiledRight DEF v
      <4> QED
        BY <4>3 DEF v, found
    <3> HIDE DEF w
    <3>4. Good(w)
      BY <1>1, <1>2, <3>2, <3>3, SMTT(30)
    <3>5. Kept
      BY <1>1, <1>6, <2>1, <3>1
    <3> QED
      BY <3>1, <3>4, <3>5
  <2> QED
    BY <2>2, <2>3
<1>11. CASE PubError \/ PubAdmit
  <2>1. /\ UNCHANGED verdicts
        /\ \/ pub' = [pub EXCEPT !.pc = "idle", !.names = <<>>, !.admitted = <<>>]
           \/ pub' = [pub EXCEPT !.pc = "idle", !.admitted = <<>>]
    BY <1>11 DEF PubError, PubAdmit
  <2>2. \/ pub' = [pc |-> "idle", left |-> pub.left, names |-> <<>>,
                   gen |-> pub.gen, admitted |-> <<>>]
        \/ pub' = [pc |-> "idle", left |-> pub.left, names |-> pub.names,
                   gen |-> pub.gen, admitted |-> <<>>]
    BY <1>1, <2>1
  <2>3. Kept
    <3>1. <<>> \in Seq(Identifiers)
      BY SMTT(30)
    <3>2. \A names \in Seq(Identifiers) :
            [pc |-> "idle", left |-> pub.left, names |-> names, gen |-> pub.gen,
             admitted |-> <<>>] \in Pubs
      BY <1>1, <3>1
    <3>3. pub.names \in Seq(Identifiers)
      BY <1>1
    <3>4. pub' \in Pubs
      BY <2>2, <3>1, <3>2, <3>3
    <3>5. pub'.gen = pub.gen
      <4>1. CASE pub' = [pc |-> "idle", left |-> pub.left, names |-> <<>>,
                         gen |-> pub.gen, admitted |-> <<>>]
        BY <4>1
      <4>2. CASE pub' = [pc |-> "idle", left |-> pub.left, names |-> pub.names,
                         gen |-> pub.gen, admitted |-> <<>>]
        BY <4>2
      <4> QED
        BY <2>2, <4>1, <4>2
    <3> QED
      BY <1>1, <3>4, <3>5
  <2> QED
    BY <1>4, <2>1, <2>3
<1> QED
  BY <1>7, <1>8, <1>9, <1>10, <1>11 DEF PubStep

LEMMA PublisherKeeps ==
    ASSUME VerdictInv, CacheTypes, PublisherStep, Asking'
    PROVE  VerdictInv'
<1>1. PubStep /\ Publisher \in Readers
  BY PublisherAssumption DEF PublisherStep
<1>2. PICK v \in VerdictSets :
        /\ verdicts' = [verdicts EXCEPT ![Publisher] = v]
        /\ v.gen <= generation
        /\ Told /\ v.gen = generation => Truthful(v)
        /\ IsFiniteSet(Known(v)) /\ Cardinality(Known(v)) <= Capacity
  BY <1>1, PublisherVerdicts
<1>3. /\ pub' \in [pc : {"idle", "name", "check", "again"},
                   left : Seq(Seq(Identifiers)), names : Seq(Identifiers),
                   gen : Nat, admitted : Seq(Identifiers)]
      /\ pub'.gen <= generation
  BY <1>1, PublisherVerdicts
<1>4. PICK l \in Looks : /\ look' = [look EXCEPT ![Publisher] = l]
                         /\ l.pc \in {"idle", "read"}
  BY <1>1, PublisherLooks DEF VerdictInv
<1>5. UNCHANGED <<registry, generation, healthy, watch, pending>>
  BY <1>1 DEF PubStep, PubReceive, PubKnown, PubCheck, PubChecked, PubError, PubAdmit,
              Resolve, cacheVars
<1>6. Filing'
  BY <1>1, <1>2, <1>3, <1>4, <1>5, ReaderFiles
<1>7. VerdictTypes'
  BY <1>1, <1>2, <1>3 DEF VerdictInv, VerdictTypes
<1>8. Bounded'
  <2>1. verdicts'[Publisher] = v
    BY <1>1, <1>2 DEF VerdictInv, VerdictTypes
  <2> QED
    BY <1>2, <2>1 DEF Bounded
<1>9. Standing'
  BY <1>5 DEF VerdictInv, Standing
<1> QED
  BY <1>6, <1>7, <1>8, <1>9 DEF VerdictInv, Filing

\* The inductive invariant of the rights: what is cached and what is concluded
\* from it, with the handlers' lists that both rest on.
RightsInv == StoreTypes /\ ConnSound /\ CacheInv /\ VerdictInv

LEMMA VerdictInit == Init => VerdictInv
<1> SUFFICES ASSUME Init PROVE VerdictInv
  OBVIOUS
<1>1. /\ verdicts = [r \in Readers |-> NoVerdicts(0)]
      /\ pub = [pc |-> "idle", left |-> Datagrams, names |-> <<>>, gen |-> 0,
                admitted |-> <<>>]
      /\ look = [r \in Readers |-> Idle] /\ watch = "off" /\ generation = 0
  BY DEF Init, AuthInit, CacheInit
<1>2. /\ Publisher \in Readers /\ Datagrams \in Seq(Seq(Identifiers)) /\ Capacity \in Nat
      /\ Conns \subseteq Readers
  BY PublisherAssumption, ConnsAssumption
<1>3. /\ NoVerdicts(0) \in VerdictSets /\ NoVerdicts(0).gen = 0
      /\ Known(NoVerdicts(0)) = {}
  BY NoVerdictsRight
<1>4. VerdictTypes
  <2>1. <<>> \in Seq(Identifiers)
    BY SMTT(30)
  <2> QED
    BY <1>1, <1>2, <1>3, <2>1 DEF VerdictTypes
<1>5. Asking
  BY <1>1, <1>2 DEF Asking, Idle
<1>6. Standing /\ AnswersTrue /\ FiledTrue
  BY <1>1 DEF Standing, AnswersTrue, FiledTrue, Told
<1>7. Stamped
  BY <1>1, <1>3, SMTT(30) DEF Stamped
<1>8. Bounded
  <2>1. Known(verdicts[Publisher]) = {}
    BY <1>1, <1>2, <1>3
  <2>2. IsFiniteSet({}) /\ Cardinality({}) = 0
    BY FS_EmptySet
  <2> QED
    BY <1>2, <2>1, <2>2, SMTT(30) DEF Bounded
<1> QED
  BY <1>4, <1>5, <1>6, <1>7, <1>8 DEF VerdictInv

LEMMA RightsInit == Init => RightsInv
<1>1. Init => CacheInit
  BY DEF Init
<1> QED
  BY <1>1, StoreInit, ConnInit, InitInv, VerdictInit DEF RightsInv

LEMMA RightsStep == RightsInv /\ [Next]_vars => RightsInv'
<1> SUFFICES ASSUME RightsInv, [Next]_vars PROVE RightsInv'
  OBVIOUS
<1>1. StoreTypes /\ ConnSound /\ CacheInv /\ VerdictInv /\ CacheTypes
  BY DEF RightsInv, CacheInv
<1>2. StoreTypes' /\ ConnSound'
  BY <1>1, StoreStep, ConnStep
<1>3. CacheInv'
  BY <1>1, UsersOfCache, StepInv DEF VerdictInv
<1>4. Asking'
  BY <1>1, AskingStep DEF VerdictInv
<1>5. VerdictInv'
  <2>1. ASSUME NEW c \in Conns, AccessStep(c) PROVE VerdictInv'
    BY <1>1, <2>1, AccessKeeps
  <2>2. ASSUME NEW r \in Readers, ResolutionStep(r) PROVE VerdictInv'
    BY <1>1, <1>3, <1>4, <2>2, ResolutionKeeps
  <2>3. CASE DescriptorStep \/ WatchFault
             \/ \E p \in Patterns, v \in Values : DescriptorWritten(p, v)
    <3>1. UNCHANGED authVars
      BY <2>3 DEF DescriptorStep, WatchFault, DescriptorWritten
    <3>2. \/ WatchStep \/ WatchStop \/ WatchError
          \/ \E p \in Patterns, v \in Values : RegistryChange(p, v)
      BY <2>3 DEF DescriptorStep, WatchFault, DescriptorWritten
    <3> QED
      BY <1>1, <1>4, <3>1, <3>2, WatchKeeps
  <2>4. CASE PublisherStep
    BY <1>1, <1>4, <2>4, PublisherKeeps
  <2>5. CASE UNCHANGED <<cacheVars, authVars>>
    <3>1. UNCHANGED <<registry, generation, healthy, watch, pending, look, verdicts, pub>>
      BY <2>5 DEF cacheVars, authVars
    <3>2. Told' <=> Told
      BY <3>1 DEF Told
    <3> QED
      BY <1>1, <1>4, <3>1, <3>2 DEF VerdictInv, VerdictTypes, Standing, Stamped, AnswersTrue, FiledTrue,
             Bounded, Stamp, Truthful
  <2> QED
    BY <2>1, <2>2, <2>3, <2>4, <2>5, AuthFrame
<1> QED
  BY <1>2, <1>3, <1>5 DEF RightsInv

\* The inductive invariant holds throughout.
THEOREM RightsHold == Spec => []RightsInv
BY RightsInit, RightsStep, PTL DEF Spec

\* The handlers and the metric thread use the descriptor cache by its protocol
\* alone, so that what is proved of the cache by itself holds in the service
\* (security.rs, resolve_with and admin_with, and their callers in executor.rs
\* and write_security.rs).
THEOREM UsesTheCache == Spec => CacheSpec
<1>1. Init => CacheInit
  BY DEF Init
<1>2. RightsInv /\ [Next]_vars => [CacheNext]_cacheVars
  BY UsersOfCache DEF RightsInv, VerdictInv
<1> QED
  BY <1>1, <1>2, RightsHold, PTL DEF Spec, CacheSpec

\* No thread goes on using a right that was taken away: a verdict of the
\* present generation is what the registry now says, once the watch has told of
\* every change, and the metric thread keeps no more verdicts than its bound
\* (executor.rs, AuthorizationCache; write_security.rs, authorize_name_with).
THEOREM RightsNotOutlived == Spec => []VerdictsCurrent
<1>1. RightsInv => VerdictsCurrent
  BY DEF RightsInv, VerdictInv, FiledTrue, Bounded, Told, Truthful, VerdictsCurrent
<1> QED
  BY <1>1, RightsHold, PTL

=============================================================================
