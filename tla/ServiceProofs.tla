---------------------------- MODULE ServiceProofs ----------------------------
(***************************************************************************)
(* The query side, proved for any number of connections, readers, stores   *)
(* and types: every slot is given back exactly, the last run of the policy *)
(* leaves nothing unsaved, and while the configuration watch waits what    *)
(* the registry holds is in force.                                         *)
(***************************************************************************)
EXTENDS AuthorizationProofs, SumLemmas

\* The time each leaf may take, in seconds.
USE ZenonT(30)

-----------------------------------------------------------------------------
(* Slots and memory. *)

Bit(b) == IF b THEN 1 ELSE 0

\* A set that gains or loses one element.
LEMMA CountMoves ==
    ASSUME NEW S, IsFiniteSet(S), NEW T, NEW c, S \ {c} = T \ {c}
    PROVE  /\ Cardinality(S) \in Nat
           /\ Cardinality(T) = Cardinality(S) + Bit(c \in T) - Bit(c \in S)
<1>1. IsFiniteSet(S \ {c}) /\ Cardinality(S \ {c}) \in Nat /\ Cardinality(S) \in Nat
  BY FS_RemoveElement, FS_CardinalityType
<1>2. Cardinality(S \ {c}) = Cardinality(S) - Bit(c \in S)
  BY <1>1, FS_RemoveElement, SMTT(30) DEF Bit
<1>3. Cardinality(T) = Cardinality(T \ {c}) + Bit(c \in T)
  <2>1. CASE c \in T
    <3>1. T = (T \ {c}) \union {c} /\ c \notin T \ {c} /\ IsFiniteSet(T \ {c})
      BY <1>1, <2>1
    <3>2. Cardinality((T \ {c}) \union {c}) = Cardinality(T \ {c}) + 1
      BY <3>1, FS_AddElement
    <3> QED
      BY <2>1, <3>1, <3>2 DEF Bit
  <2>2. CASE c \notin T
    <3>1. T = T \ {c}
      BY <2>2
    <3>2. Cardinality(T) \in Nat /\ Cardinality(T) = Cardinality(T \ {c})
      BY <1>1, <3>1
    <3> QED
      BY <2>2, <3>2, SMTT(30) DEF Bit
  <2> QED
    BY <2>1, <2>2
<1>4. Cardinality(S \ {c}) = Cardinality(T \ {c})
  OBVIOUS
<1>5. Bit(c \in S) \in Int /\ Bit(c \in T) \in Int
  BY SMTT(30) DEF Bit
<1> QED
  BY <1>1, <1>2, <1>3, <1>4, <1>5, SMTT(30)

Streamers == {c \in Handlers : conn[c].stream}

Owners(u) == {c \in Handlers : conn[c].slot /\ plan[c].user = u}

\* c's handler moves, and the counts with what it takes or gives back.
Moves(c) ==
    /\ UNCHANGED plan
    /\ active' = active + Bit(c \in Handlers') - Bit(c \in Handlers)
    /\ streams' = streams + Bit(c \in Streamers') - Bit(c \in Streamers)
    /\ users' \in [Users -> Int]
    /\ \A u \in Users :
         /\ users'[u] = users[u] + Bit(c \in Owners(u)') - Bit(c \in Owners(u))
         /\ users'[u] <= MaxPerUser
    /\ held' = held + Len(conn'[c].kept) - Len(conn[c].kept)
    /\ active' <= MaxActive /\ streams' <= MaxStreams /\ held' <= HeldLimit
    /\ Placed(c)'
    /\ server' # "stopped"

LEMMA MovesKeep ==
    ASSUME ConnSound, Slots, NEW c \in Conns, Alters(c), Moves(c)
    PROVE  Slots'
<1>1. /\ IsFiniteSet(Conns) /\ IsFiniteSet(Handlers) /\ IsFiniteSet(Streamers)
      /\ \A u : IsFiniteSet(Owners(u))
  <2>1. IsFiniteSet(Conns)
    BY ConnsAssumption
  <2>2. Handlers \subseteq Conns /\ Streamers \subseteq Conns /\ \A u : Owners(u) \subseteq Conns
    BY DEF Handlers, Streamers, Owners
  <2> QED
    BY <2>1, <2>2, FS_Subset
<1>2. /\ \A d \in Conns : d # c => conn'[d] = conn[d]
      /\ Sound(conn'[c]) /\ plan' = plan
  BY DEF Alters, Moves
<1>3. Handlers \ {c} = Handlers' \ {c}
  BY <1>2 DEF Handlers
<1>4. Streamers \ {c} = Streamers' \ {c}
  BY <1>2, <1>3 DEF Streamers, Handlers
<1>5. \A u : Owners(u) \ {c} = Owners(u)' \ {c}
  BY <1>2, <1>3 DEF Owners, Handlers
<1>6. active' = Cardinality(Handlers')
  BY <1>1, <1>3, CountMoves, SMTT(30) DEF Moves, Slots, SlotsExact, SlotsGiven
<1>7. streams' = Cardinality(Streamers')
  <2>1. streams = Cardinality(Streamers)
    BY DEF Slots, SlotsExact, SlotsGiven, Streamers
  <2> QED
    BY <1>1, <1>4, <2>1, CountMoves DEF Moves
<1>8. ASSUME NEW u \in Users PROVE users'[u] = Cardinality(Owners(u)')
  <2>1. users[u] = Cardinality(Owners(u))
    BY <1>8 DEF Slots, SlotsExact, SlotsGiven, Owners
  <2>2. Cardinality(Owners(u)') = Cardinality(Owners(u)) + Bit(c \in Owners(u)') - Bit(c \in Owners(u))
    BY <1>1, <1>5, CountMoves
  <2> QED
    BY <1>8, <2>1, <2>2 DEF Moves
<1>9. SlotsGiven'
  BY <1>6, <1>7, <1>8 DEF SlotsGiven, Moves, Streamers, Owners
<1>10. MemoryExact'
  <2> DEFINE f == [d \in Conns |-> Len(conn[d].kept)]
             e == [d \in Conns |-> Len(conn'[d].kept)]
  <2>1. /\ \A d \in Conns : conn[d].kept \in Seq(StoredRows)
        /\ \A d \in Conns : conn'[d].kept \in Seq(StoredRows)
    <3>1. \A d \in Conns : Sound(conn[d]) /\ Sound(conn'[d])
      BY <1>2 DEF ConnSound
    <3> QED
      BY <3>1 DEF Sound
  <2>2. f \in [Conns -> Int] /\ e \in [Conns -> Int] /\ \A d \in Conns \ {c} : e[d] = f[d]
    <3>1. \A q \in Seq(StoredRows) : Len(q) \in Int
      BY SMTT(30)
    <3> QED
      BY <1>2, <2>1, <3>1
  <2>3. held = SumFunction(f) /\ f[c] = Len(conn[c].kept) /\ e[c] = Len(conn'[c].kept)
    BY DEF Slots, SlotsExact, MemoryExact
  <2>4. f[c] \in Int /\ e[c] \in Int
    BY <2>2
  <2>5. held' = held + e[c] - f[c]
    BY <2>3 DEF Moves
  <2>6. MemoryExact' <=> held' = SumFunction(e)
    BY DEF MemoryExact
  <2> HIDE DEF f, e
  <2>7. SumFunction(e) = SumFunction(f) - f[c] + e[c] /\ SumFunction(f) \in Int
    BY <1>1, <2>2, SumChange, SMTT(30)
  <2> QED
    <3> DEFINE before == SumFunction(f)
               after == SumFunction(e)
               x == f[c]
               y == e[c]
    <3>1. /\ held = before /\ before \in Int /\ x \in Int /\ y \in Int
          /\ held' = held + y - x /\ after = before - x + y
      BY <2>3, <2>4, <2>5, <2>7
    <3> HIDE DEF before, after, x, y
    <3>2. held' = after
      BY <3>1, SMTT(30)
    <3> QED
      BY <2>6, <3>2 DEF after
<1>11. ASSUME NEW d \in Conns PROVE Placed(d)'
  BY <1>2 DEF Moves, Placed, Slots
<1> QED
  BY <1>2, <1>9, <1>10, <1>11 DEF Slots, SlotsExact, Moves

\* A step within the query: no slot changes hands.
Within(c) ==
    /\ c \in Handlers
    /\ conn'[c].pc \in Handling \ {"identify", "request", "exiting"}
    /\ conn'[c].slot = conn[c].slot /\ conn'[c].stream = conn[c].stream
    /\ conn'[c].pc = "leaving" => conn'[c].kept = <<>>
    /\ held' = held + Len(conn'[c].kept) - Len(conn[c].kept)
    /\ held' <= HeldLimit
    /\ UNCHANGED <<plan, server, active, streams, users>>

\* The counts are numbers within their bounds.
LEMMA SlotTypes ==
    ASSUME Slots
    PROVE  /\ active \in Int /\ streams \in Int /\ users \in [Users -> Int]
           /\ active <= MaxActive /\ streams <= MaxStreams
           /\ \A u \in Users : users[u] <= MaxPerUser
<1>1. IsFiniteSet(Conns) /\ Handlers \subseteq Conns /\ Streamers \subseteq Conns
  BY ConnsAssumption DEF Handlers, Streamers
<1>2. Cardinality(Handlers) \in Nat /\ Cardinality(Streamers) \in Nat
  BY <1>1, FS_Subset, FS_CardinalityType
<1>3. active = Cardinality(Handlers) /\ streams = Cardinality(Streamers)
  BY DEF Slots, SlotsExact, SlotsGiven, Streamers
<1>4. /\ active <= MaxActive /\ streams <= MaxStreams /\ users \in [Users -> Int]
      /\ \A u \in Users : users[u] <= MaxPerUser
  BY DEF Slots, SlotsExact, SlotsGiven
<1> QED
  BY <1>2, <1>3, <1>4, SMTT(30)

LEMMA WithinMoves ==
    ASSUME ConnSound, Slots, NEW c \in Conns, Within(c)
    PROVE  Moves(c)
<1>1. /\ c \in Handlers /\ c \in Handlers'
      /\ (c \in Streamers <=> c \in Streamers')
      /\ \A u : c \in Owners(u) <=> c \in Owners(u)'
  BY DEF Within, Handlers, Streamers, Owners
<1>2. Placed(c)'
  BY DEF Within, Placed, Slots
<1>3. server' # "stopped"
  <2>1. server = "stopped" => Handlers = {}
    BY DEF Slots, SlotsExact, SlotsGiven
  <2> QED
    BY <1>1, <2>1 DEF Within
<1>4. /\ active \in Int /\ streams \in Int /\ users \in [Users -> Int]
      /\ active <= MaxActive /\ streams <= MaxStreams
      /\ \A u \in Users : users[u] <= MaxPerUser
  BY SlotTypes
<1>5. active' = active /\ streams' = streams /\ users' = users /\ plan' = plan
  BY DEF Within
<1>6. /\ active' = active + Bit(c \in Handlers') - Bit(c \in Handlers)
      /\ streams' = streams + Bit(c \in Streamers') - Bit(c \in Streamers)
  BY <1>1, <1>4, <1>5, SMTT(30) DEF Bit
<1>7. ASSUME NEW u \in Users
      PROVE  /\ users'[u] = users[u] + Bit(c \in Owners(u)') - Bit(c \in Owners(u))
             /\ users'[u] <= MaxPerUser
  <2>1. users[u] \in Int /\ (c \in Owners(u) <=> c \in Owners(u)')
    BY <1>1, <1>4
  <2> QED
    BY <1>4, <1>5, <2>1, SMTT(30) DEF Bit
<1> QED
  BY <1>2, <1>3, <1>4, <1>5, <1>6, <1>7 DEF Within, Moves

LEMMA HeldInt ==
    ASSUME ConnSound, Slots
    PROVE  held \in Int /\ held <= HeldLimit
<1> DEFINE f == [d \in Conns |-> Len(conn[d].kept)]
<1>1. IsFiniteSet(Conns) /\ \A d \in Conns : f[d] = f[d] /\ f[d] \in Int
  BY ConnsAssumption, SMTT(30) DEF ConnSound, Sound
<1>2. held = SumFunctionOnSet(f, Conns)
  BY DEF Slots, SlotsExact, MemoryExact, SumFunction
<1>3. held <= HeldLimit
  BY DEF Slots, SlotsExact, SlotsGiven
<1> HIDE DEF f
<1> QED
  BY <1>1, <1>2, <1>3, SumAgree

\* A step that gathers nothing and drops nothing.
LEMMA QuietWithin ==
    ASSUME ConnSound, Slots, NEW c \in Conns, c \in Handlers,
           conn'[c].pc \in Handling \ {"identify", "request", "leaving", "exiting"},
           conn'[c].slot = conn[c].slot, conn'[c].stream = conn[c].stream,
           conn'[c].kept = conn[c].kept, UNCHANGED <<plan, slotVars>>
    PROVE  Within(c)
<1>1. held \in Int /\ held <= HeldLimit /\ Len(conn[c].kept) \in Nat /\ HeldLimit \in Nat
  BY HeldInt, ConnsAssumption, SMTT(30) DEF ConnSound, Sound
<1>2. UNCHANGED <<server, active, streams, users, held>>
  BY DEF slotVars
<1> QED
  BY <1>1, <1>2, SMTT(30) DEF Within

LEMMA LeaveWithin ==
    ASSUME ConnSound, Slots, NEW c \in Conns, c \in Handlers, Leave(c), UNCHANGED plan
    PROVE  Within(c)
<1>1. held \in Int /\ held <= HeldLimit /\ Len(conn[c].kept) \in Nat /\ HeldLimit \in Nat
  BY HeldInt, ConnsAssumption, SMTT(30) DEF ConnSound, Sound
<1>2. Sound(conn[c]) /\ DOMAIN conn = Conns
  BY DEF ConnSound
<1>3. conn'[c] = [conn[c] EXCEPT !.pc = "leaving", !.kept = <<>>, !.rows = <<>>,
                                 !.todo = <<>>]
  BY <1>2 DEF Leave
<1>4. /\ conn'[c].pc = "leaving" /\ conn'[c].kept = <<>>
      /\ conn'[c].slot = conn[c].slot /\ conn'[c].stream = conn[c].stream
  BY <1>2, <1>3 DEF Sound, Fresh
<1>5. Len(<<>>) = 0
  OBVIOUS
<1>6. held' = held - Len(conn[c].kept) /\ UNCHANGED <<server, active, streams, users>>
  BY DEF Leave
<1>7. held' = held + Len(conn'[c].kept) - Len(conn[c].kept) /\ held' <= HeldLimit
  BY <1>1, <1>4, <1>5, <1>6, SMTT(30)
<1> QED
  BY <1>4, <1>6, <1>7 DEF Within, Handling

\* The result goes out: what was gathered is given back.
LEMMA EmitWithin ==
    ASSUME ConnSound, Slots, NEW c \in Conns, Emit(c) \/ EmitBatch(c), UNCHANGED plan
    PROVE  Within(c)
<1>1. held \in Int /\ held <= HeldLimit /\ Len(conn[c].kept) \in Nat /\ HeldLimit \in Nat
  BY HeldInt, ConnsAssumption, SMTT(30) DEF ConnSound, Sound
<1>2. Sound(conn[c]) /\ DOMAIN conn = Conns /\ DOMAIN conn[c] = DOMAIN Fresh
  BY DEF ConnSound, Sound
<1>3. c \in Handlers /\ held' = held - Len(conn[c].kept)
      /\ UNCHANGED <<server, active, streams, users>>
  BY DEF Emit, EmitBatch, At, Handlers, Handling
<1>4. /\ conn'[c].pc \in {"leaving", "watch"} /\ conn'[c].kept = <<>>
      /\ conn'[c].slot = conn[c].slot /\ conn'[c].stream = conn[c].stream
  <2> DEFINE kept == conn[c].kept
             batch == SortSeq(kept, ByTie)
             new == IF plan[c].kind = "distinct" THEN Unseen(batch, conn[c].seen) ELSE batch
             seen == conn[c].seen \union TypesIn(new)
             sent1 == conn[c].sent \o kept
             sent2 == conn[c].sent \o new
             watched2 == conn[c].watched \o new
             seen1 == TypesIn(kept)
             cursor1 == conn[c].upper
  <2>1. \/ conn' = [conn EXCEPT ![c].pc = "leaving", ![c].kept = <<>>]
        \/ conn' = [conn EXCEPT ![c].pc = "watch", ![c].watch = TRUE,
                                ![c].sent = sent1, ![c].kept = <<>>,
                                ![c].seen = seen1, ![c].cursor = cursor1]
        \/ conn' = [conn EXCEPT ![c].pc = "watch", ![c].kept = <<>>, ![c].seen = seen,
                                ![c].cursor = cursor1,
                                ![c].sent = sent2, ![c].watched = watched2]
    BY DEF Emit, EmitBatch
  <2> HIDE DEF seen, sent1, sent2, watched2, seen1, cursor1
  <2> QED
    BY <1>2, <2>1, SMTT(30) DEF Fresh
<1>5. Len(<<>>) = 0
  OBVIOUS
<1>6. held' = held + Len(conn'[c].kept) - Len(conn[c].kept) /\ held' <= HeldLimit
  BY <1>1, <1>3, <1>4, <1>5, SMTT(30)
<1> QED
  BY <1>3, <1>4, <1>6 DEF Within, Handling

\* The other steps of the server within a query.
LEMMA ServerWithin ==
    ASSUME ConnSound, Slots, NEW c \in Conns, UNCHANGED plan,
           CaptureCursor(c) \/ Scan(c) \/ RowsVisited(c) \/ Wake(c) \/ WatchEnds(c)
    PROVE  Within(c)
<1>1. DOMAIN conn = Conns /\ DOMAIN conn[c] = DOMAIN Fresh
  BY DEF ConnSound, Sound
<1>2. c \in Handlers
  BY DEF CaptureCursor, Scan, RowsVisited, Wake, WatchEnds, At, Handlers, Handling
<1>3. CASE WatchEnds(c)
  BY <1>2, <1>3, LeaveWithin DEF WatchEnds
<1>4. CASE CaptureCursor(c) \/ Scan(c) \/ RowsVisited(c) \/ Wake(c)
  <2>1. UNCHANGED <<plan, slotVars>>
    BY <1>4 DEF CaptureCursor, Scan, RowsVisited, Wake
  <2> DEFINE Kept == /\ conn'[c].pc \in {"capture", "discover", "watch", "visit", "scan", "emit"}
                     /\ conn'[c].slot = conn[c].slot /\ conn'[c].stream = conn[c].stream
                     /\ conn'[c].kept = conn[c].kept
  <2>2. ASSUME CaptureCursor(c) PROVE Kept
    <3> DEFINE s == Head(conn[c].todo)
               first == IF conn[c].watch THEN conn[c].first
                        ELSE [conn[c].first EXCEPT ![s] = Highest(s)]
               upper == [conn[c].upper EXCEPT ![s] = Highest(s)]
               todo == IF Len(conn[c].todo) = 1 THEN StoresOf(c) ELSE Tail(conn[c].todo)
    <3>1. PICK pc \in {"capture", "watch", "discover"} :
            conn' = [conn EXCEPT ![c].upper = upper, ![c].todo = todo, ![c].types = {},
                                 ![c].first = first, ![c].pc = pc]
      BY <2>2 DEF CaptureCursor
    <3> HIDE DEF first, upper, todo
    <3> QED
      BY <1>1, <3>1 DEF Fresh
  <2>3. ASSUME Scan(c) PROVE Kept
    <3>1. PICK found \in SetToSeqs(Matching(c, Head(conn[c].todo))),
               pc \in {"visit", "scan"} :
            conn' = [conn EXCEPT ![c].rows = @ \o found, ![c].todo = Tail(@), ![c].pc = pc]
      BY <2>3 DEF Scan
    <3> QED
      BY <1>1, <3>1 DEF Fresh
  <2>4. ASSUME RowsVisited(c) PROVE Kept
    BY <1>1, <2>4 DEF RowsVisited, Go, Fresh
  <2>5. ASSUME Wake(c) PROVE Kept
    BY <1>1, <2>5 DEF Wake, Fresh
  <2>6. Kept
    BY <1>4, <2>2, <2>3, <2>4, <2>5
  <2> QED
    BY <1>2, <2>1, <2>6, QuietWithin DEF Handling
<1> QED
  BY <1>3, <1>4

\* The steps that check access.
LEMMA AccessWithin ==
    ASSUME ConnSound, Slots, NEW c \in Conns, AccessStep(c)
    PROVE  Within(c)
<1>1. DOMAIN conn = Conns /\ DOMAIN conn[c] = DOMAIN Fresh /\ UNCHANGED plan
  BY DEF ConnSound, Sound, AccessStep, indexRest, rest
<1>2. c \in Handlers
  BY DEF AccessStep, Begin, Discover, AuthorizeEnds, AuthorizeNext, Authorized, VisitRow,
         Visited, AuthorizeFails, RequestIndex, Administered, At, Handlers, Handling
<1> DEFINE Kept(pc) == /\ conn'[c].pc = pc
                       /\ conn'[c].slot = conn[c].slot /\ conn'[c].stream = conn[c].stream
                       /\ conn'[c].kept = conn[c].kept
<1>3. ASSUME Leave(c) PROVE Within(c)
  BY <1>1, <1>2, <1>3, LeaveWithin
<1>4. ASSUME NEW pc \in Handling \ {"identify", "request", "leaving", "exiting"},
             Kept(pc), UNCHANGED slotVars
      PROVE  Within(c)
  BY <1>1, <1>2, <1>4, QuietWithin
<1>5. ASSUME NEW pc \in Handling \ {"identify", "request", "leaving", "exiting"},
             Go(c, pc), UNCHANGED slotVars
      PROVE  Within(c)
  <2>1. Kept(pc)
    BY <1>1, <1>5 DEF Go, Fresh
  <2> QED
    BY <1>4, <1>5, <2>1
<1>6. CASE Begin(c)
  <2> DEFINE at == IF Streaming(c) THEN "capture" ELSE "discover"
             seen == signal[plan[c].source]
             todo == StoresOf(c)
  <2>1. /\ conn' = [conn EXCEPT ![c].pc = at, ![c].observed = seen,
                                ![c].evaluated = TRUE, ![c].todo = todo]
        /\ UNCHANGED slotVars /\ at \in {"capture", "discover"}
    BY <1>6 DEF Begin
  <2> HIDE DEF at, seen, todo
  <2>2. Kept(at)
    BY <1>1, <2>1 DEF Fresh
  <2> QED
    BY <1>4, <2>1, <2>2 DEF Handling
<1>7. CASE Discover(c)
  <2> DEFINE last == Len(conn[c].todo) = 1
             types == conn[c].types \union catalog[Head(conn[c].todo)]
             todo == IF last THEN SetToSeq(types) ELSE Tail(conn[c].todo)
             gen == IF last THEN generation ELSE conn[c].gen
             at == IF last THEN "authorize" ELSE conn[c].pc
  <2>1. /\ conn' = [conn EXCEPT ![c].types = types, ![c].todo = todo, ![c].allowed = {},
                                ![c].gen = gen, ![c].pc = at]
        /\ UNCHANGED slotVars /\ at \in {"authorize", "discover"}
    BY <1>7 DEF Discover, At
  <2> HIDE DEF types, todo, gen, at
  <2>2. Kept(at)
    BY <1>1, <2>1 DEF Fresh
  <2> QED
    BY <1>4, <2>1, <2>2 DEF Handling
<1>8. CASE AuthorizeEnds(c)
  <2> DEFINE lists == SetToSeq(conn[c].types)
             stores == StoresOf(c)
  <2>1. /\ UNCHANGED slotVars /\ conn[c].pc = "authorize"
        /\ \/ conn' = [conn EXCEPT ![c].pc = "scan", ![c].todo = stores]
           \/ conn' = [conn EXCEPT ![c].todo = lists, ![c].allowed = {},
                                   ![c].gen = generation]
    BY <1>8 DEF AuthorizeEnds, At
  <2> HIDE DEF lists, stores
  <2>2. Kept("scan") \/ Kept("authorize")
    BY <1>1, <2>1, SMTT(30) DEF Fresh
  <2> QED
    BY <1>4, <2>1, <2>2 DEF Handling
<1>9. CASE Authorized(c)
  <2> DEFINE allowed == IF verdicts'[c].of[<<"may", Head(conn[c].todo)>>] = "allowed"
                        THEN conn[c].allowed \union {Head(conn[c].todo)}
                        ELSE conn[c].allowed
             todo == Tail(conn[c].todo)
  <2>1. /\ UNCHANGED slotVars
        /\ conn' = [conn EXCEPT ![c].pc = "authorize", ![c].todo = todo,
                                ![c].allowed = allowed]
    BY <1>9 DEF Authorized
  <2> HIDE DEF allowed, todo
  <2>2. Kept("authorize")
    BY <1>1, <2>1 DEF Fresh
  <2> QED
    BY <1>4, <2>1, <2>2 DEF Handling
<1>10. CASE AuthorizeNext(c) \/ VisitRow(c) \/ RequestIndex(c)
  BY <1>5, <1>10 DEF AuthorizeNext, VisitRow, RequestIndex, Handling
<1>11. CASE AuthorizeFails(c)
  BY <1>3, <1>11 DEF AuthorizeFails
<1>12. CASE Administered(c)
  BY <1>3, <1>5, <1>12 DEF Administered, Handling
<1>13. CASE Visited(c)
  <2> DEFINE row == Head(conn[c].rows)
             left == Tail(conn[c].rows)
             sent == Append(conn[c].sent, row)
             kept == Append(conn[c].kept, row)
             passed == [conn EXCEPT ![c].pc = "visit", ![c].rows = left]
  <2>1. \/ conn' = passed /\ UNCHANGED slotVars
        \/ conn' = [passed EXCEPT ![c].sent = Append(@, row)] /\ UNCHANGED slotVars
        \/ Leave(c)
        \/ /\ conn' = [passed EXCEPT ![c].kept = Append(@, row)]
           /\ held < HeldLimit /\ held' = held + 1
           /\ UNCHANGED <<server, active, streams, users>>
    <3>1. held \in Int /\ HeldLimit \in Nat
      BY HeldInt, ConnsAssumption
    <3>2. \/ conn' = passed /\ UNCHANGED slotVars
          \/ conn' = [passed EXCEPT ![c].sent = Append(@, row)] /\ UNCHANGED slotVars
          \/ Leave(c)
          \/ /\ conn' = [passed EXCEPT ![c].kept = Append(@, row)]
             /\ ~(held >= HeldLimit) /\ held' = held + 1
             /\ UNCHANGED <<server, active, streams, users>>
      BY <1>13 DEF Visited
    <3>3. ~(held >= HeldLimit) => held < HeldLimit
      BY <3>1, SMTT(30)
    <3> QED
      BY <3>2, <3>3
  <2>2. CASE conn' = passed /\ UNCHANGED slotVars
    <3> HIDE DEF left
    <3>1. Kept("visit")
      BY <1>1, <2>2 DEF Fresh
    <3> QED
      BY <1>4, <2>2, <3>1 DEF Handling
  <2>3. CASE conn' = [passed EXCEPT ![c].sent = Append(@, row)] /\ UNCHANGED slotVars
    <3> HIDE DEF left, row
    <3>1. Kept("visit")
      BY <1>1, <2>3 DEF Fresh
    <3> QED
      BY <1>4, <2>3, <3>1 DEF Handling
  <2>4. CASE /\ conn' = [passed EXCEPT ![c].kept = Append(@, row)]
             /\ held < HeldLimit /\ held' = held + 1
             /\ UNCHANGED <<server, active, streams, users>>
    <3>1. /\ conn'[c].pc = "visit" /\ conn'[c].kept = kept
          /\ conn'[c].slot = conn[c].slot /\ conn'[c].stream = conn[c].stream
      <4> HIDE DEF left, row
      <4> QED
        BY <1>1, <2>4 DEF Fresh
    <3>2. Len(kept) = Len(conn[c].kept) + 1 /\ Len(conn[c].kept) \in Nat
      <4>1. conn[c].pc = "visiting" /\ Sound(conn[c])
        BY <1>13 DEF Visited, At, ConnSound
      <4>2. conn[c].kept \in Seq(StoredRows) /\ row \in StoredRows
        BY <4>1, SMTT(30) DEF Sound
      <4> HIDE DEF row
      <4> QED
        BY <4>2, SMTT(30)
    <3>3. held \in Int /\ HeldLimit \in Nat
      BY HeldInt, ConnsAssumption
    <3> HIDE DEF kept
    <3>4. held' = held + Len(conn'[c].kept) - Len(conn[c].kept) /\ held' <= HeldLimit
      <4> DEFINE n == Len(conn[c].kept)
                 m == Len(conn'[c].kept)
      <4>1. n \in Nat /\ m = n + 1 /\ held' = held + 1 /\ held < HeldLimit
        BY <2>4, <3>1, <3>2
      <4> HIDE DEF n, m
      <4>2. held' = held + m - n /\ held' <= HeldLimit
        BY <3>3, <4>1, SMTT(30)
      <4> QED
        BY <4>2 DEF n, m
    <3> QED
      BY <1>1, <1>2, <2>4, <3>1, <3>4 DEF Within, Handling
  <2> QED
    BY <1>3, <2>1, <2>2, <2>3, <2>4
<1> QED
  BY <1>6, <1>7, <1>8, <1>9, <1>10, <1>11, <1>12, <1>13 DEF AccessStep

\* The steps that count a query: a stream takes its slot.
LEMMA CountMovesSlots ==
    ASSUME ConnSound, Slots, NEW c \in Conns, CountStep(c)
    PROVE  Moves(c)
<1>1. DOMAIN conn = Conns /\ DOMAIN conn[c] = DOMAIN Fresh /\ UNCHANGED plan
  BY DEF ConnSound, Sound, CountStep, rest
<1>2. c \in Handlers
  BY DEF CountStep, Request, PrioritizeField, OfferRecompute, At, Handlers, Handling
<1>3. ASSUME Leave(c) PROVE Moves(c)
  BY <1>1, <1>2, <1>3, LeaveWithin, WithinMoves
<1>4. ASSUME NEW pc \in {"begin", "offer"}, Go(c, pc), UNCHANGED slotVars PROVE Moves(c)
  <2>1. /\ conn'[c].pc = pc
        /\ conn'[c].slot = conn[c].slot /\ conn'[c].stream = conn[c].stream
        /\ conn'[c].kept = conn[c].kept
    BY <1>1, <1>4 DEF Go, Fresh
  <2> QED
    BY <1>1, <1>2, <1>4, <2>1, QuietWithin, WithinMoves DEF Handling
<1>5. CASE PrioritizeField(c) \/ OfferRecompute(c)
  BY <1>3, <1>4, <1>5 DEF PrioritizeField, OfferRecompute
<1>6. CASE Request(c)
  <2>1. CASE Leave(c) \/ (Go(c, "begin") /\ UNCHANGED slotVars)
    BY <1>3, <1>4, <2>1
  <2>2. CASE /\ ~(streams >= MaxStreams)
             /\ conn' = [conn EXCEPT ![c].pc = "begin", ![c].stream = TRUE]
             /\ streams' = streams + 1
             /\ UNCHANGED <<server, active, users, held>>
    <3>1. conn[c].pc = "request" /\ ~conn[c].stream
      BY <1>6 DEF Request, At, Slots, Placed, Handling
    <3>2. /\ conn'[c].pc = "begin" /\ conn'[c].stream = TRUE
          /\ conn'[c].slot = conn[c].slot /\ conn'[c].kept = conn[c].kept
      BY <1>1, <2>2 DEF Fresh
    <3>3. /\ c \in Handlers' /\ c \notin Streamers /\ c \in Streamers'
          /\ \A u : c \in Owners(u) <=> c \in Owners(u)'
      BY <1>1, <1>2, <3>1, <3>2 DEF Handlers, Streamers, Owners, Handling
    <3>4. /\ active \in Int /\ streams \in Int /\ users \in [Users -> Int]
          /\ active <= MaxActive /\ streams <= MaxStreams
          /\ \A u \in Users : users[u] <= MaxPerUser
      BY SlotTypes
    <3>5. MaxStreams \in Nat /\ held \in Int /\ held <= HeldLimit
          /\ Len(conn[c].kept) \in Nat
      BY ConnsAssumption, HeldInt, SMTT(30) DEF ConnSound, Sound
    <3>6. /\ active' = active + Bit(c \in Handlers') - Bit(c \in Handlers)
          /\ streams' = streams + Bit(c \in Streamers') - Bit(c \in Streamers)
          /\ streams' <= MaxStreams
          /\ held' = held + Len(conn'[c].kept) - Len(conn[c].kept)
      <4>1. /\ Bit(c \in Handlers') = 1 /\ Bit(c \in Handlers) = 1
            /\ Bit(c \in Streamers') = 1 /\ Bit(c \in Streamers) = 0
        BY <1>2, <3>3 DEF Bit
      <4>2. active' = active /\ streams' = streams + 1 /\ ~(streams >= MaxStreams)
            /\ held' = held
        BY <2>2
      <4>3. Len(conn'[c].kept) = Len(conn[c].kept)
        BY <3>2
      <4> QED
        BY <3>4, <3>5, <4>1, <4>2, <4>3, SMTT(30)
    <3>7. ASSUME NEW u \in Users
          PROVE  users'[u] = users[u] + Bit(c \in Owners(u)') - Bit(c \in Owners(u))
      <4>1. users[u] \in Int /\ (c \in Owners(u) <=> c \in Owners(u)') /\ users'[u] = users[u]
        BY <2>2, <3>3, <3>4
      <4> QED
        BY <4>1, SMTT(30) DEF Bit
    <3>8. Placed(c)'
      BY <1>1, <3>2 DEF Placed, Slots, Handling
    <3>9. server' # "stopped"
      BY <1>2, <2>2 DEF Slots, SlotsExact, SlotsGiven
    <3> QED
      BY <1>1, <2>2, <3>4, <3>5, <3>6, <3>7, <3>8, <3>9 DEF Moves
  <2> QED
    BY <1>6, <2>1, <2>2 DEF Request
<1> QED
  BY <1>5, <1>6 DEF CountStep

\* At the door: a connection arrives, is let in with a query slot or sent away.
LEMMA DoorMoves ==
    ASSUME ConnSound, Slots, NEW c \in Conns, UNCHANGED plan,
           Knock(c) \/ Accept(c) \/ SpawnFails(c)
    PROVE  Moves(c)
<1>1. DOMAIN conn = Conns /\ DOMAIN conn[c] = DOMAIN Fresh /\ Len(conn[c].kept) \in Nat
  BY SMTT(30) DEF ConnSound, Sound
<1>2. PICK pc \in {"knock", "identify", "gone"} :
        /\ Go(c, pc)
        /\ active' = IF pc = "identify" THEN active + 1 ELSE active
        /\ pc = "identify" => active < MaxActive
  BY DEF Knock, Accept, SpawnFails, slotVars
<1>3. /\ conn'[c].pc = pc /\ conn'[c].slot = conn[c].slot
      /\ conn'[c].stream = conn[c].stream /\ conn'[c].kept = conn[c].kept
  BY <1>1, <1>2 DEF Go, Fresh
<1>4. UNCHANGED <<streams, users, held>> /\ server' # "stopped"
  BY DEF Knock, Accept, SpawnFails, slotVars
<1>5. conn[c].pc \in {"absent", "knock"} /\ ~conn[c].slot /\ ~conn[c].stream
  BY DEF Knock, Accept, SpawnFails, At, Slots, Placed, Handling
<1>6. /\ c \notin Handlers /\ (c \in Handlers' <=> pc = "identify")
      /\ c \notin Streamers /\ c \notin Streamers'
      /\ \A u : c \notin Owners(u) /\ c \notin Owners(u)'
  BY <1>3, <1>5 DEF Handlers, Streamers, Owners, Handling
<1>7. /\ active \in Int /\ streams \in Int /\ users \in [Users -> Int]
      /\ active <= MaxActive /\ streams <= MaxStreams
      /\ \A u \in Users : users[u] <= MaxPerUser
  BY SlotTypes
<1>8. held \in Int /\ held <= HeldLimit /\ MaxActive \in Nat
  BY HeldInt, ConnsAssumption
<1>9. /\ active' = active + Bit(c \in Handlers') - Bit(c \in Handlers)
      /\ active' <= MaxActive
  BY <1>2, <1>6, <1>7, <1>8, SMTT(30) DEF Bit
<1>10. streams' = streams + Bit(c \in Streamers') - Bit(c \in Streamers)
  BY <1>4, <1>6, <1>7, SMTT(30) DEF Bit
<1>11. ASSUME NEW u \in Users
       PROVE  users'[u] = users[u] + Bit(c \in Owners(u)') - Bit(c \in Owners(u))
  <2>1. users[u] \in Int /\ users'[u] = users[u] /\ c \notin Owners(u) /\ c \notin Owners(u)'
    BY <1>4, <1>6, <1>7
  <2> QED
    BY <2>1, SMTT(30) DEF Bit
<1>12. held' = held + Len(conn'[c].kept) - Len(conn[c].kept)
  <2>1. held' = held /\ Len(conn'[c].kept) = Len(conn[c].kept)
    BY <1>3, <1>4
  <2> QED
    BY <1>1, <1>8, <2>1, SMTT(30)
<1>13. Placed(c)'
  BY <1>3, <1>5 DEF Placed
<1> QED
  BY <1>4, <1>7, <1>8, <1>9, <1>10, <1>11, <1>12, <1>13 DEF Moves

\* The caller is counted, unless it has its share already.
LEMMA IdentifyMoves ==
    ASSUME ConnSound, Slots, NEW c \in Conns, UNCHANGED plan, Identify(c)
    PROVE  Moves(c)
<1> DEFINE u == plan[c].user
<1>1. DOMAIN conn = Conns /\ DOMAIN conn[c] = DOMAIN Fresh /\ Len(conn[c].kept) \in Nat
  BY SMTT(30) DEF ConnSound, Sound
<1>2. conn[c].pc = "identify" /\ ~conn[c].slot /\ ~conn[c].stream /\ c \in Handlers
  BY DEF Identify, At, Slots, Placed, Handlers, Handling
<1>3. CASE Leave(c)
  BY <1>2, <1>3, LeaveWithin, WithinMoves
<1>4. CASE /\ ~(u \in Users /\ users[u] >= MaxPerUser)
           /\ conn' = [conn EXCEPT ![c].pc = "request", ![c].slot = u \in Users]
           /\ users' = IF u \in Users THEN [users EXCEPT ![u] = @ + 1] ELSE users
           /\ UNCHANGED <<server, active, streams, held>>
  <2>1. /\ conn'[c].pc = "request" /\ conn'[c].slot = (u \in Users)
        /\ conn'[c].stream = conn[c].stream /\ conn'[c].kept = conn[c].kept
    BY <1>1, <1>4 DEF Fresh
  <2>2. /\ c \in Handlers' /\ c \notin Streamers /\ c \notin Streamers'
        /\ \A v : c \notin Owners(v)
        /\ \A v \in Users : c \in Owners(v)' <=> v = u
    BY <1>2, <2>1 DEF Handlers, Streamers, Owners, Handling
  <2>3. /\ active \in Int /\ streams \in Int /\ users \in [Users -> Int]
        /\ active <= MaxActive /\ streams <= MaxStreams
        /\ \A v \in Users : users[v] <= MaxPerUser
    BY SlotTypes
  <2>4. held \in Int /\ held <= HeldLimit /\ MaxPerUser \in Nat
    BY HeldInt, ConnsAssumption
  <2>5. /\ active' = active + Bit(c \in Handlers') - Bit(c \in Handlers)
        /\ streams' = streams + Bit(c \in Streamers') - Bit(c \in Streamers)
    BY <1>2, <1>4, <2>2, <2>3, SMTT(30) DEF Bit
  <2>6. ASSUME NEW v \in Users
        PROVE  /\ users'[v] = users[v] + Bit(c \in Owners(v)') - Bit(c \in Owners(v))
               /\ users'[v] <= MaxPerUser
    <3>1. CASE v = u
      <4>1. users[v] \in Int /\ users'[v] = users[v] + 1 /\ ~(users[v] >= MaxPerUser)
        BY <1>4, <2>3, <3>1
      <4>2. Bit(c \in Owners(v)') = 1 /\ Bit(c \in Owners(v)) = 0
        BY <2>2, <3>1 DEF Bit
      <4> QED
        BY <2>4, <4>1, <4>2, SMTT(30)
    <3>2. CASE v # u
      <4>1. users[v] \in Int /\ users'[v] = users[v] /\ users[v] <= MaxPerUser
        BY <1>4, <2>3, <3>2
      <4>2. Bit(c \in Owners(v)') = 0 /\ Bit(c \in Owners(v)) = 0
        BY <2>2, <3>2 DEF Bit
      <4> QED
        BY <4>1, <4>2, SMTT(30)
    <3> QED
      BY <3>1, <3>2
  <2>7. users' \in [Users -> Int]
    BY <1>4, <2>3, SMTT(30)
  <2>8. held' = held + Len(conn'[c].kept) - Len(conn[c].kept)
    BY <1>1, <1>4, <2>1, <2>4, SMTT(30)
  <2>9. Placed(c)'
    BY <1>2, <2>1 DEF Placed, Handling
  <2>10. server' # "stopped"
    BY <1>2, <1>4 DEF Slots, SlotsExact, SlotsGiven
  <2> QED
    BY <1>4, <2>3, <2>4, <2>5, <2>6, <2>7, <2>8, <2>9, <2>10 DEF Moves
<1> QED
  BY <1>3, <1>4 DEF Identify

\* A handler gives back its slots, and last its query slot.
LEMMA ReleaseMoves ==
    ASSUME ConnSound, Slots, NEW c \in Conns, UNCHANGED plan, Release(c)
    PROVE  Moves(c)
<1> DEFINE u == plan[c].user
<1>1. DOMAIN conn = Conns /\ DOMAIN conn[c] = DOMAIN Fresh /\ Len(conn[c].kept) \in Nat
      /\ conn[c].slot \in BOOLEAN /\ conn[c].stream \in BOOLEAN
  BY SMTT(30) DEF ConnSound, Sound
<1>2. /\ conn[c].pc = "leaving" /\ c \in Handlers /\ conn[c].kept = <<>>
      /\ conn[c].slot => u \in Users
  BY DEF Release, At, Slots, Placed, Handlers, Handling
<1>3. /\ conn'[c].pc = "exiting" /\ conn'[c].slot = FALSE
      /\ conn'[c].stream = FALSE /\ conn'[c].kept = conn[c].kept
  BY <1>1 DEF Release, Fresh
<1>4. /\ c \in Handlers' /\ c \notin Streamers' /\ (c \in Streamers <=> conn[c].stream)
      /\ \A v : c \notin Owners(v)' /\ (c \in Owners(v) <=> conn[c].slot /\ v = u)
  BY <1>2, <1>3 DEF Handlers, Streamers, Owners, Handling
<1>5. /\ active \in Int /\ streams \in Int /\ users \in [Users -> Int]
      /\ active <= MaxActive /\ streams <= MaxStreams
      /\ \A v \in Users : users[v] <= MaxPerUser
  BY SlotTypes
<1>6. held \in Int /\ held <= HeldLimit /\ MaxPerUser \in Nat /\ MaxStreams \in Nat
  BY HeldInt, ConnsAssumption
<1>7. /\ streams' = IF conn[c].stream THEN streams - 1 ELSE streams
      /\ users' = IF conn[c].slot THEN [users EXCEPT ![u] = @ - 1] ELSE users
      /\ UNCHANGED <<server, active, held>>
  BY DEF Release
<1>8. active' = active + Bit(c \in Handlers') - Bit(c \in Handlers) /\ active' <= MaxActive
  BY <1>2, <1>4, <1>5, <1>7, SMTT(30) DEF Bit
<1>9. streams' = streams + Bit(c \in Streamers') - Bit(c \in Streamers)
      /\ streams' <= MaxStreams
  BY <1>4, <1>5, <1>6, <1>7, SMTT(30) DEF Bit
<1>10. ASSUME NEW v \in Users
       PROVE  /\ users'[v] = users[v] + Bit(c \in Owners(v)') - Bit(c \in Owners(v))
              /\ users'[v] <= MaxPerUser
  <2>1. CASE conn[c].slot /\ v = u
    <3>1. users[v] \in Int /\ users'[v] = users[v] - 1 /\ users[v] <= MaxPerUser
      BY <1>5, <1>7, <2>1
    <3>2. Bit(c \in Owners(v)') = 0 /\ Bit(c \in Owners(v)) = 1
      BY <1>4, <2>1 DEF Bit
    <3> QED
      BY <1>6, <3>1, <3>2, SMTT(30)
  <2>2. CASE ~(conn[c].slot /\ v = u)
    <3>1. users[v] \in Int /\ users'[v] = users[v] /\ users[v] <= MaxPerUser
      BY <1>5, <1>7, <2>2
    <3>2. Bit(c \in Owners(v)') = 0 /\ Bit(c \in Owners(v)) = 0
      BY <1>4, <2>2 DEF Bit
    <3> QED
      BY <3>1, <3>2, SMTT(30)
  <2> QED
    BY <2>1, <2>2
<1>11. users' \in [Users -> Int]
  <2>1. \A v \in Users : users[v] - 1 \in Int
    BY <1>5, SMTT(30)
  <2>2. [users EXCEPT ![u] = @ - 1] \in [Users -> Int]
    BY <1>5, <2>1
  <2> QED
    BY <1>5, <1>7, <2>2
<1>12. held' = held + Len(conn'[c].kept) - Len(conn[c].kept)
  BY <1>1, <1>3, <1>6, <1>7, SMTT(30)
<1>13. Placed(c)'
  BY <1>2, <1>3 DEF Placed
<1>14. server' # "stopped"
  BY <1>2, <1>7 DEF Slots, SlotsExact, SlotsGiven
<1> QED
  BY <1>6, <1>7, <1>8, <1>9, <1>10, <1>11, <1>12, <1>13, <1>14 DEF Moves

LEMMA ExitMoves ==
    ASSUME ConnSound, Slots, NEW c \in Conns, UNCHANGED plan, Exit(c)
    PROVE  Moves(c)
<1>1. DOMAIN conn = Conns
  BY DEF ConnSound
<1>2. /\ conn[c].pc = "exiting" /\ ~conn[c].slot /\ ~conn[c].stream /\ c \in Handlers
      /\ conn[c].kept = <<>>
  BY DEF Exit, At, Slots, Placed, Handlers, Handling
<1>3. /\ conn'[c].pc = "gone" /\ conn'[c].slot = FALSE /\ conn'[c].stream = FALSE
      /\ conn'[c].kept = <<>>
  BY <1>1 DEF Exit, Fresh
<1>4. /\ c \notin Handlers' /\ c \notin Streamers /\ c \notin Streamers'
      /\ \A v : c \notin Owners(v) /\ c \notin Owners(v)'
  BY <1>2, <1>3 DEF Handlers, Streamers, Owners, Handling
<1>5. /\ active \in Int /\ streams \in Int /\ users \in [Users -> Int]
      /\ active <= MaxActive /\ streams <= MaxStreams
      /\ \A v \in Users : users[v] <= MaxPerUser
  BY SlotTypes
<1>6. held \in Int /\ held <= HeldLimit /\ MaxActive \in Nat /\ Len(<<>>) = 0
  BY HeldInt, ConnsAssumption
<1>7. active' = active - 1 /\ UNCHANGED <<server, streams, users, held>>
  BY DEF Exit
<1>8. active' = active + Bit(c \in Handlers') - Bit(c \in Handlers) /\ active' <= MaxActive
  BY <1>2, <1>4, <1>5, <1>6, <1>7, SMTT(30) DEF Bit
<1>9. streams' = streams + Bit(c \in Streamers') - Bit(c \in Streamers)
  BY <1>4, <1>5, <1>7, SMTT(30) DEF Bit
<1>10. ASSUME NEW v \in Users
       PROVE  users'[v] = users[v] + Bit(c \in Owners(v)') - Bit(c \in Owners(v))
  <2>1. users[v] \in Int /\ users'[v] = users[v] /\ c \notin Owners(v) /\ c \notin Owners(v)'
    BY <1>4, <1>5, <1>7
  <2> QED
    BY <2>1, SMTT(30) DEF Bit
<1>11. held' = held + Len(conn'[c].kept) - Len(conn[c].kept)
  BY <1>2, <1>3, <1>6, <1>7, SMTT(30)
<1>12. Placed(c)'
  BY <1>3 DEF Placed
<1>13. server' # "stopped"
  BY <1>2, <1>7 DEF Slots, SlotsExact, SlotsGiven
<1> QED
  BY <1>5, <1>6, <1>7, <1>8, <1>9, <1>10, <1>11, <1>12, <1>13 DEF Moves

LEMMA HandlerMoves ==
    ASSUME ConnSound, Slots, NEW c \in Conns, Arrive(c) \/ HandlerStep(c) \/ FaultStep(c)
    PROVE  Moves(c)
<1>1. UNCHANGED plan
  BY DEF Arrive, HandlerStep, FaultStep, ServerStep, AccessStep, CountStep, indexRest, rest
<1>2. CASE Arrive(c)
  BY <1>1, <1>2, DoorMoves DEF Arrive
<1>3. CASE FaultStep(c)
  <2>1. ASSUME HandlerFails(c) PROVE Moves(c)
    <3>1. c \in Handlers /\ Leave(c)
      BY <2>1 DEF HandlerFails, Handlers, Handling
    <3> QED
      BY <1>1, <3>1, LeaveWithin, WithinMoves
  <2> QED
    BY <1>1, <1>3, <2>1, DoorMoves DEF FaultStep
<1>4. CASE ServerStep(c)
  <2>1. CASE Accept(c) \/ Release(c) \/ Exit(c) \/ Identify(c)
    BY <1>1, <2>1, DoorMoves, ReleaseMoves, ExitMoves, IdentifyMoves
  <2>2. CASE Emit(c) \/ EmitBatch(c)
    BY <1>1, <2>2, EmitWithin, WithinMoves
  <2>3. CASE CaptureCursor(c) \/ Scan(c) \/ RowsVisited(c) \/ Wake(c) \/ WatchEnds(c)
    BY <1>1, <2>3, ServerWithin, WithinMoves
  <2> QED
    BY <1>4, <2>1, <2>2, <2>3 DEF ServerStep
<1>5. CASE AccessStep(c)
  BY <1>5, AccessWithin, WithinMoves
<1>6. CASE CountStep(c)
  BY <1>6, CountMovesSlots
<1> QED
  BY <1>2, <1>3, <1>4, <1>5, <1>6 DEF HandlerStep

LEMMA SlotsInit == Init => Slots
<1> SUFFICES ASSUME Init PROVE Slots
  OBVIOUS
<1>1. /\ conn = [c \in Conns |-> Fresh] /\ server = "accept" /\ active = 0 /\ streams = 0
      /\ users = [u \in Users |-> 0] /\ held = 0
  BY DEF Init, ServerInit
<1>2. Handlers = {} /\ Streamers = {} /\ \A u : Owners(u) = {}
  BY <1>1 DEF Handlers, Streamers, Owners, Fresh, Handling
<1>3. /\ Cardinality({}) = 0 /\ IsFiniteSet(Conns)
      /\ MaxActive \in Nat /\ MaxStreams \in Nat /\ MaxPerUser \in Nat /\ HeldLimit \in Nat
  BY FS_EmptySet, ConnsAssumption
<1>4. SlotsGiven
  <2>1. /\ active = Cardinality(Handlers) /\ streams = Cardinality(Streamers)
        /\ \A u \in Users : users[u] = Cardinality(Owners(u)) /\ users[u] = 0
    BY <1>1, <1>2, <1>3
  <2> QED
    BY <1>1, <1>2, <1>3, <2>1, SMTT(30) DEF SlotsGiven, Streamers, Owners
<1>5. MemoryExact
  <2> DEFINE f == [c \in Conns |-> Len(conn[c].kept)]
  <2>1. f = [c \in Conns |-> 0]
    BY <1>1 DEF Fresh
  <2>2. SumFunction([c \in Conns |-> 0]) = 0
    BY <1>3, SumZero, SMTT(30)
  <2> QED
    BY <1>1, <2>1, <2>2 DEF MemoryExact
<1>6. \A c \in Conns : Placed(c)
  BY <1>1 DEF Placed, Fresh
<1>7. plan \in [Conns -> [user : Callers,
                          kind : {"none", "newest", "sorted", "stream",
                                  "distinct", "index"},
                          source : Sources, fields : SUBSET Fields]]
  BY ScenesAssumption DEF Init
<1>8. users \in [Users -> Int]
  BY <1>1, SMTT(30)
<1> QED
  BY <1>4, <1>5, <1>6, <1>7, <1>8 DEF Slots, SlotsExact

\* Who asks what is settled from the start.
LEMMA PlanStays ==
    ASSUME [Next]_vars
    PROVE  UNCHANGED plan
<1>1. ASSUME NEW c \in Conns, Arrive(c) \/ HandlerStep(c) \/ FaultStep(c)
      PROVE  UNCHANGED plan
  BY <1>1 DEF Arrive, HandlerStep, FaultStep, ServerStep, AccessStep, CountStep,
              indexRest, rest
<1>2. ASSUME NEW s \in Stores, RowStored(s) \/ CommitTold(s) \/ RetentionStep(s)
      PROVE  UNCHANGED plan
  BY <1>2 DEF RowStored, CommitTold, RetentionStep, indexRest, rest
<1>3. ListenerStep \/ DescriptorStep \/ WatchFault \/ PublisherStep
      \/ StopAsked \/ SupervisorStep => UNCHANGED plan
  BY DEF ListenerStep, DescriptorStep, WatchFault, PublisherStep, StopAsked,
         SupervisorStep, ThreadEnded, StopPolicy, others, indexRest, rest
<1>4. ASSUME NEW r \in Readers, ResolutionStep(r) PROVE UNCHANGED plan
  BY <1>4 DEF ResolutionStep, indexRest, rest
<1>5. ASSUME NEW p \in Patterns, NEW v \in Values, DescriptorWritten(p, v)
      PROVE  UNCHANGED plan
  BY <1>5 DEF DescriptorWritten
<1>6. ConfigStep \/ ConfigFault \/ IndexStep \/ Pressure => UNCHANGED plan
  BY DEF ConfigStep, ConfigFault, IndexStep, Pressure, aside, rest
<1>7. ASSUME NEW w \in WriterSet, ShardStep(w) \/ Calm(w) PROVE UNCHANGED plan
  BY <1>7 DEF ShardStep, Calm, aside, rest
<1>8. UNCHANGED vars => UNCHANGED plan
  BY DEF vars
<1> QED
  BY <1>1, <1>2, <1>3, <1>4, <1>5, <1>6, <1>7, <1>8 DEF Next

\* The inductive invariant of the slots.
SlotsInv == StoreTypes /\ ConnSound /\ Slots

LEMMA SlotsStep == SlotsInv /\ [Next]_vars => SlotsInv'
<1> SUFFICES ASSUME SlotsInv, [Next]_vars PROVE SlotsInv'
  OBVIOUS
<1>1. StoreTypes /\ ConnSound /\ Slots
  BY DEF SlotsInv
<1>2. StoreTypes' /\ ConnSound'
  BY <1>1, StoreStep, ConnStep
<1>3. Slots'
  <2>1. ASSUME NEW c \in Conns, Arrive(c) \/ HandlerStep(c) \/ FaultStep(c) PROVE Slots'
    BY <1>1, <2>1, HandlerAlters, HandlerMoves, MovesKeep
  <2>2. UNCHANGED plan
    BY PlanStays
  <2>3. CASE ListenerStep
    <3>1. UNCHANGED <<conn, active, streams, users, held>>
      BY <2>3 DEF ListenerStep, StopListening, ListenerEnds
    <3>2. server' = "stopped" => active = 0
      BY <2>3 DEF ListenerStep, StopListening, ListenerEnds
    <3>3. active = 0 => Handlers = {}
      <4>1. IsFiniteSet(Conns) /\ Handlers \subseteq Conns /\ active = Cardinality(Handlers)
        BY <1>1, ConnsAssumption DEF Handlers, Slots, SlotsExact, SlotsGiven
      <4> QED
        BY <4>1, FS_Subset, FS_EmptySet
    <3>4. Handlers' = Handlers
      BY <3>1 DEF Handlers
    <3>5. SlotsGiven'
      BY <1>1, <2>2, <3>1, <3>2, <3>3, <3>4 DEF Slots, SlotsExact, SlotsGiven
    <3>6. MemoryExact'
      BY <1>1, <3>1 DEF Slots, SlotsExact, MemoryExact
    <3>7. \A c \in Conns : Placed(c)'
      BY <1>1, <2>2, <3>1 DEF Slots, Placed
    <3> QED
      BY <1>1, <2>2, <3>1, <3>5, <3>6, <3>7 DEF Slots, SlotsExact
  <2>4. CASE UNCHANGED serverVars
    <3>1. UNCHANGED <<conn, server, active, streams, users, held>>
      BY <2>4 DEF serverVars
    <3>2. SlotsGiven' /\ MemoryExact' /\ \A c \in Conns : Placed(c)'
      BY <1>1, <2>2, <3>1
         DEF Slots, SlotsExact, SlotsGiven, MemoryExact, Handlers, Placed
    <3> QED
      BY <1>1, <2>2, <3>1, <3>2 DEF Slots, SlotsExact
  <2> QED
    BY <2>1, <2>3, <2>4, ServerFrame
<1> QED
  BY <1>2, <1>3 DEF SlotsInv

\* The inductive invariant of the slots holds throughout.
THEOREM SlotsHold == Spec => []SlotsInv
<1>1. Init => SlotsInv
  BY StoreInit, ConnInit, SlotsInit DEF SlotsInv
<1> QED
  BY <1>1, SlotsStep, PTL DEF Spec

\* Whichever way a handler ends, at whatever step and however the handlers
\* interleave, it gives back the query slot, the streaming slot, the user's
\* share and the memory it took, each exactly once: every count is that of the
\* handlers there are, no bound is passed, and a listener that has stopped in
\* order leaves none behind (query/mod.rs, run, CounterGuard and UserSlot;
\* executor.rs, Held).
THEOREM NoSlotLeaks == Spec => []SlotsExact
<1>1. SlotsInv => SlotsExact
  BY DEF SlotsInv, Slots
<1> QED
  BY <1>1, SlotsHold, PTL

-----------------------------------------------------------------------------
(* The last run of the policy. *)

\* A listener that has ended does not begin again.
LEMMA EndedStays ==
    ASSUME [Next]_vars, server \in {"stopped", "failed"}
    PROVE  server' = server
<1>1. ASSUME NEW c \in Conns, Arrive(c) \/ HandlerStep(c) \/ FaultStep(c)
      PROVE  server' = server
  <2>1. ASSUME Leave(c) PROVE server' = server
    BY <2>1 DEF Leave
  <2>2. CASE Arrive(c) \/ FaultStep(c)
    BY <2>1, <2>2 DEF Arrive, FaultStep, Knock, SpawnFails, HandlerFails
  <2>3. CASE ServerStep(c)
    BY <2>1, <2>3 DEF ServerStep, Accept, Release, Exit, Identify, CaptureCursor, Scan,
                      RowsVisited, Emit, EmitBatch, Wake, WatchEnds, slotVars
  <2>4. CASE AccessStep(c)
    BY <2>1, <2>4 DEF AccessStep, Begin, Discover, AuthorizeEnds, AuthorizeNext, Authorized,
                      VisitRow, Visited, AuthorizeFails, RequestIndex, Administered, slotVars
  <2>5. CASE CountStep(c)
    BY <2>1, <2>5 DEF CountStep, Request, PrioritizeField, OfferRecompute, slotVars
  <2> QED
    BY <1>1, <2>2, <2>3, <2>4, <2>5 DEF HandlerStep
<1>2. ListenerStep \/ UNCHANGED serverVars => server' = server
  BY DEF ListenerStep, StopListening, ListenerEnds, serverVars
<1> QED
  BY <1>1, <1>2, ServerFrame

\* What moves the counts, the desired set and the policy thread.
LEMMA PolicyFrame ==
    ASSUME [Next]_vars
    PROVE  \/ \E c \in Conns : CountStep(c)
           \/ IndexStep \/ StopPolicy
           \/ policyq' = Offered(policyq) /\ UNCHANGED <<counts, desired, saved, policy>>
           \/ \E f \in Fields : WindowEnds(f)
           \/ UNCHANGED <<counts, desired, saved, policyq, policy>>
<1> DEFINE Same == UNCHANGED <<counts, desired, saved, policyq, policy>>
<1>1. ASSUME NEW c \in Conns,
             Arrive(c) \/ ServerStep(c) \/ AccessStep(c) \/ FaultStep(c)
      PROVE  Same
  BY <1>1 DEF Arrive, FaultStep, ServerStep, AccessStep, indexRest, policyVars
<1>2. ASSUME NEW s \in Stores, RowStored(s) \/ CommitTold(s) \/ RetentionStep(s)
      PROVE  Same
  BY <1>2 DEF RowStored, CommitTold, RetentionStep, indexRest, policyVars
<1>3. ListenerStep \/ DescriptorStep \/ WatchFault \/ PublisherStep
      \/ StopAsked \/ ThreadEnded => Same
  BY DEF ListenerStep, DescriptorStep, WatchFault, PublisherStep, StopAsked,
         ThreadEnded, others, indexRest, policyVars
<1>4. ASSUME NEW r \in Readers, ResolutionStep(r) PROVE Same
  BY <1>4 DEF ResolutionStep, indexRest, policyVars
<1>5. ASSUME NEW p \in Patterns, NEW v \in Values, DescriptorWritten(p, v) PROVE Same
  BY <1>5 DEF DescriptorWritten, policyVars
<1>6. ConfigStep => \/ Same
                    \/ policyq' = Offered(policyq)
                       /\ UNCHANGED <<counts, desired, saved, policy>>
  BY DEF ConfigStep, ConfigTell, policyVars
<1>7. ConfigFault => Same
  BY DEF ConfigFault, policyVars
<1>8. Pressure => Same \/ \E f \in Fields : WindowEnds(f)
  BY DEF Pressure, EventsQueued, writerOnly, policyVars
<1>9. ASSUME NEW w \in WriterSet, ShardStep(w) \/ Calm(w) PROVE Same
  BY <1>9 DEF ShardStep, Calm, WriterStep, TakePolicy, DeferPolicy, Converge, ConvergeIdle,
              CommitBatch, Quiet, writerOnly, policyVars
<1>10. UNCHANGED vars => Same
  BY DEF vars, policyVars
<1> QED
  BY <1>1, <1>2, <1>3, <1>4, <1>5, <1>6, <1>7, <1>8, <1>9, <1>10
     DEF Next, HandlerStep, SupervisorStep

\* What is counted, saved and asked of the policy is set down together with
\* the slots: a listener that stopped in order has no handler that counts.
LastInv == SlotsInv /\ LastRun

\* A handler at work is the work of a listener that has not stopped in order.
LEMMA CountsWhileServing ==
    ASSUME SlotsInv, NEW c \in Conns, CountStep(c)
    PROVE  server # "stopped"
<1>1. conn[c].pc \in Handling
  BY DEF At, CountStep, Request, PrioritizeField, OfferRecompute, Handling
<1> QED
  BY <1>1 DEF SlotsInv, Slots, SlotsExact, SlotsGiven, Handlers

\* A step of the policy thread: the last run saves what it has counted.
LEMMA PolicyLast ==
    ASSUME LastRun, PolicyStep, server' = server
    PROVE  LastRun'
<1>1. /\ DOMAIN policy = {"pc", "todo", "final", "create", "drop"}
      /\ DOMAIN saved = {"counts", "desired", "elapsed"}
      /\ policyq \in {<<>>, <<"recompute">>, <<"stop">>}
      /\ policy.final \in BOOLEAN
      /\ policyq = <<"stop">> \/ policy.final => server \in {"stopped", "failed"}
      /\ policy.pc \in {"checkpoint", "stopped"} =>
             /\ policy.final
             /\ server = "stopped" => saved.counts = counts /\ saved.desired = desired
  BY DEF LastRun
<1>2. CASE PolicyReceive
  <2>1. policyq' = <<>> /\ (Head(policyq) = "stop" => policyq = <<"stop">>)
    <3>1. policyq \in {<<"recompute">>, <<"stop">>} /\ policyq' = Tail(policyq)
      BY <1>1, <1>2 DEF PolicyReceive
    <3>2. CASE policyq = <<"recompute">>
      BY <3>1, <3>2, SMTT(30)
    <3>3. CASE policyq = <<"stop">>
      BY <3>1, <3>3, SMTT(30)
    <3> QED
      BY <3>1, <3>2, <3>3
  <2>2. /\ DOMAIN policy' = {"pc", "todo", "final", "create", "drop"}
        /\ policy'.pc = "read"
        /\ policy'.final = (Head(policyq) = "stop")
    BY <1>1, <1>2 DEF PolicyReceive
  <2>3. saved' = saved
    BY <1>2 DEF PolicyReceive, policyOnly
  <2> QED
    BY <1>1, <2>1, <2>2, <2>3 DEF LastRun
<1>3. CASE PolicyTimeout
  BY <1>1, <1>3 DEF PolicyTimeout, policyOnly, LastRun
<1>4. CASE PolicyRead
  <2>1. /\ DOMAIN policy' = {"pc", "todo", "final", "create", "drop"}
        /\ policy'.pc = "run"
        /\ policy'.final = policy.final
    BY <1>1, <1>4 DEF PolicyRead
  <2>2. saved' = saved /\ policyq' = policyq
    BY <1>4 DEF PolicyRead, policyOnly
  <2> QED
    BY <1>1, <2>1, <2>2 DEF LastRun
<1>5. CASE Recompute
  <2>1. /\ DOMAIN policy' = {"pc", "todo", "final", "create", "drop"}
        /\ policy'.pc = IF policy.final THEN "checkpoint" ELSE "broadcast"
        /\ policy'.final = policy.final
    BY <1>1, <1>5 DEF Recompute
  <2>2. PICK C, D : /\ counts' = C /\ desired' = D
                    /\ saved' = [counts |-> C, desired |-> D, elapsed |-> {}]
                    /\ policyq' = policyq
    BY <1>5 DEF Recompute
  <2>3. DOMAIN saved' = {"counts", "desired", "elapsed"}
        /\ saved'.counts = counts' /\ saved'.desired = desired'
    BY <2>2
  <2> QED
    BY <1>1, <2>1, <2>2, <2>3 DEF LastRun
<1>6. CASE RecomputeFails
  <2>1. /\ DOMAIN policy' = {"pc", "todo", "final", "create", "drop"}
        /\ policy'.pc = "failed"
        /\ policy'.final = policy.final
    BY <1>1, <1>6 DEF RecomputeFails
  <2>2. saved' = saved /\ policyq' = policyq
    BY <1>6 DEF RecomputeFails
  <2> QED
    BY <1>1, <2>1, <2>2 DEF LastRun
<1>7. CASE BroadcastDesired
  <2>1. /\ DOMAIN policy' = {"pc", "todo", "final", "create", "drop"}
        /\ policy'.pc \in {"wait", "broadcast"}
        /\ policy'.final = policy.final
    BY <1>1, <1>7 DEF BroadcastDesired
  <2>2. saved' = saved /\ policyq' = policyq
    BY <1>7 DEF BroadcastDesired
  <2> QED
    BY <1>1, <2>1, <2>2 DEF LastRun
<1>8. CASE PolicyCheckpoint
  <2>1. /\ DOMAIN policy' = {"pc", "todo", "final", "create", "drop"}
        /\ policy'.pc = "stopped"
        /\ policy'.final = policy.final
        /\ policy.pc = "checkpoint"
    BY <1>1, <1>8 DEF PolicyCheckpoint
  <2>2. saved' = saved /\ policyq' = policyq /\ counts' = counts /\ desired' = desired
    BY <1>8 DEF PolicyCheckpoint, policyOnly
  <2> QED
    BY <1>1, <2>1, <2>2 DEF LastRun
<1> QED
  BY <1>2, <1>3, <1>4, <1>5, <1>6, <1>7, <1>8 DEF PolicyStep

LEMMA LastInit ==
    ASSUME Init PROVE LastRun
BY SMTT(30) DEF Init, PolicyInit, LastRun

LEMMA LastStep ==
    ASSUME LastInv, [Next]_vars
    PROVE  LastRun'
<1>1. /\ DOMAIN policy = {"pc", "todo", "final", "create", "drop"}
      /\ DOMAIN saved = {"counts", "desired", "elapsed"}
      /\ policyq \in {<<>>, <<"recompute">>, <<"stop">>}
      /\ policy.final \in BOOLEAN
      /\ policyq = <<"stop">> \/ policy.final => server \in {"stopped", "failed"}
      /\ policy.pc \in {"checkpoint", "stopped"} =>
             /\ policy.final
             /\ server = "stopped" => saved.counts = counts /\ saved.desired = desired
  BY DEF LastInv, LastRun
<1>2. server \in {"stopped", "failed"} => server' = server
  BY EndedStays
\* A channel asked for another run keeps a stop that is in it.
<1>3. ASSUME NEW q, q = Offered(policyq)
      PROVE  /\ q \in {<<>>, <<"recompute">>, <<"stop">>}
             /\ q = <<"stop">> => policyq = <<"stop">>
  BY <1>1, <1>3 DEF Offered
<1>4. ASSUME NEW c \in Conns, CountStep(c) PROVE LastRun'
  <2>1. server # "stopped"
    BY <1>4, CountsWhileServing DEF LastInv
  <2>2. server' # "stopped"
    <3>1. server' = server
      BY <1>4 DEF CountStep, Request, PrioritizeField, OfferRecompute, slotVars, Leave
    <3> QED
      BY <2>1, <3>1
  <2>3. policyq' \in {policyq, Offered(policyq)} /\ saved' = saved /\ policy' = policy
    BY <1>4 DEF CountStep, PrioritizeField, OfferRecompute
  <2> QED
    BY <1>1, <1>2, <1>3, <2>1, <2>2, <2>3 DEF LastRun
<1>5. ASSUME IndexStep PROVE LastRun'
  <2>1. server' = server
    BY <1>5 DEF IndexStep, aside, serverVars
  <2> QED
    BY <1>5, <2>1, PolicyLast DEF IndexStep, LastInv
<1>6. ASSUME StopPolicy PROVE LastRun'
  <2>1. /\ policyq' = <<"stop">> /\ server \in {"stopped", "failed"}
        /\ UNCHANGED <<counts, desired, saved, policy>>
    BY <1>6 DEF StopPolicy, others
  <2> QED
    BY <1>1, <1>2, <2>1 DEF LastRun
<1>7. ASSUME policyq' \in {policyq, Offered(policyq)},
             UNCHANGED <<counts, desired, saved, policy>>
      PROVE  LastRun'
  BY <1>1, <1>2, <1>3, <1>7 DEF LastRun
<1>8. ASSUME NEW f \in Fields, WindowEnds(f) PROVE LastRun'
  <2>1. UNCHANGED <<counts, desired, policyq, policy>>
    BY <1>8 DEF WindowEnds
  <2>2. /\ DOMAIN saved' = {"counts", "desired", "elapsed"}
        /\ saved'.counts = saved.counts /\ saved'.desired = saved.desired
    BY <1>1, <1>8 DEF WindowEnds
  <2> QED
    BY <1>1, <1>2, <2>1, <2>2 DEF LastRun
<1> QED
  BY <1>4, <1>5, <1>6, <1>7, <1>8, PolicyFrame

\* The last run of the policy is after the last query, and saves what it
\* computed (pipeline.rs, the order in which supervise joins its threads;
\* indexing.rs, run).
THEOREM LastHolds == Spec => []LastInv
<1>1. Init => LastRun
  BY LastInit
<1>2. SlotsInv /\ LastRun /\ [Next]_vars => LastRun'
  BY LastStep DEF LastInv
<1>3. Spec => []SlotsInv
  BY SlotsHold
<1> QED
  BY <1>1, <1>2, <1>3, PTL DEF Spec, LastInv

\* Whatever way the threads interleave, a service that ends in order has saved
\* every count and the desired set it last computed: nothing is counted after
\* the last write (pipeline.rs, supervise; indexing.rs, run).
THEOREM NothingCountedUnsaved == Spec => []StopFlushed
<1>1. LastInv => StopFlushed
  BY DEF LastInv, LastRun, StopFlushed
<1> QED
  BY <1>1, LastHolds, PTL

-----------------------------------------------------------------------------
(* The configuration. *)

LEMMA PairKeys == Create \in Pair /\ Drop \in Pair /\ Create # Drop
BY SMTT(30) DEF Pair, Create, Drop

\* The two thresholds are neither paths nor quadwords, and a reload does not
\* defer them.
LEMMA PairApart ==
    \A k \in Pair : k \notin Deferred /\ k \notin Paths /\ k \notin DOMAIN Qwords
BY SMTT(30) DEF Pair, Create, Drop, Deferred, Paths, Qwords

LEMMA Defaults == Loaded[Create][1] = 100 /\ Loaded[Drop][1] = 10
BY SMTT(30) DEF Loaded, Create, Drop

\* However the thresholds are stored, the ones that are read are in order.
LEMMA ReadInOrder ==
    ASSUME NEW v, v[Create].n \in Nat, v[Drop].n \in Nat
    PROVE  ReadPair(v)[Drop] < ReadPair(v)[Create]
<1> DEFINE read == [k \in Pair |-> ReadDword(v[k], k)]
<1>1. read[Create] \in Nat /\ read[Drop] \in Nat
  BY PairKeys, Defaults, SMTT(30) DEF ReadDword
<1>2. ReadPair(v) = IF read[Drop] >= read[Create]
                    THEN [k \in Pair |-> IF k = Create THEN 100 ELSE 10]
                    ELSE read
  BY DEF ReadPair
<1> HIDE DEF read
<1>3. CASE read[Drop] >= read[Create]
  <2>1. ReadPair(v)[Create] = 100 /\ ReadPair(v)[Drop] = 10
    BY <1>2, <1>3, PairKeys
  <2> QED
    BY <2>1, SMTT(30)
<1>4. CASE ~(read[Drop] >= read[Create])
  BY <1>1, <1>2, <1>4, SMTT(30)
<1> QED
  BY <1>3, <1>4

\* What is in force after values are loaded, and after a reload of them.
LEMMA LoadedForce ==
    ASSUME NEW v
    PROVE  /\ DOMAIN FromValues(v).force = DOMAIN v
           /\ \A k \in DOMAIN v : k \in Pair => FromValues(v).force[k] = ReadPair(v)[k]
BY DEF FromValues

LEMMA ReloadForce ==
    ASSUME NEW x, NEW v
    PROVE  /\ DOMAIN Reload(x, v).force = DOMAIN v
           /\ \A k \in DOMAIN v :
                 Reload(x, v).force[k] =
                    IF k \in Retained(x, v) THEN x.force[k]
                    ELSE FromValues(Adjusted(x, v)).force[k]
BY DEF Reload

\* Whether the stored thresholds can be taken does not depend on those in
\* force: what has the wrong type is refused in any case.
LEMMA PairVerdict ==
    ASSUME NEW x, NEW y, NEW v
    PROVE  PairInvalid(x, v) = PairInvalid(y, v)
<1>1. CASE \E k \in Pair : ~ValidDword(v[k], k)
  BY <1>1 DEF PairInvalid
<1>2. CASE \A k \in Pair : ValidDword(v[k], k)
  <2>1. \A k \in Pair : v[k].ty \in {"absent", "dword"}
    BY <1>2 DEF ValidDword
  <2>2. \A k \in Pair : Configured(x, v[k], k) = Configured(y, v[k], k)
    BY <2>1 DEF Configured
  <2> QED
    BY <2>2, PairKeys DEF PairInvalid
<1> QED
  BY <1>1, <1>2

\* What a reload leaves as it is, and what it makes of the rest, does not
\* depend on what is in force.
LEMMA RetainedSame ==
    ASSUME NEW x, NEW y, NEW v
    PROVE  Retained(x, v) = Retained(y, v)
BY PairVerdict DEF Retained

LEMMA AdjustedSame ==
    ASSUME NEW x, NEW y, NEW v, NEW k \in DOMAIN v, k \notin Retained(x, v),
           Pair \subseteq DOMAIN v
    PROVE  /\ FromValues(Adjusted(x, v)).force[k] = FromValues(Adjusted(y, v)).force[k]
           /\ k \in Pair => \A j \in Pair : Adjusted(x, v)[j] = v[j]
<1>1. k \notin Paths /\ (k \in Pair => ~PairInvalid(x, v) /\ ~PairInvalid(y, v))
  BY PairVerdict DEF Retained, Deferred
<1>2. /\ DOMAIN Adjusted(x, v) = DOMAIN v /\ DOMAIN Adjusted(y, v) = DOMAIN v
      /\ Adjusted(x, v)[k] = v[k] /\ Adjusted(y, v)[k] = v[k]
  BY <1>1 DEF Adjusted
<1>3. ASSUME k \in Pair, NEW j \in Pair
      PROVE  Adjusted(x, v)[j] = v[j] /\ Adjusted(y, v)[j] = v[j]
  <2>1. j \in DOMAIN v /\ j \notin Paths
    BY PairApart
  <2> QED
    BY <1>1, <1>3, <2>1 DEF Adjusted
<1>4. k \in Pair => ReadPair(Adjusted(x, v)) = ReadPair(Adjusted(y, v))
  <2> HAVE k \in Pair
  <2>1. \A j \in Pair : Adjusted(x, v)[j] = Adjusted(y, v)[j]
    BY <1>3
  <2>2. [j \in Pair |-> ReadDword(Adjusted(x, v)[j], j)]
        = [j \in Pair |-> ReadDword(Adjusted(y, v)[j], j)]
    BY <2>1
  <2> QED
    BY <2>2 DEF ReadPair
<1>5. FromValues(Adjusted(x, v)).force[k] = FromValues(Adjusted(y, v)).force[k]
  BY <1>2, <1>4 DEF FromValues
<1> QED
  BY <1>3, <1>5

\* A second reload of the same values changes nothing.
LEMMA ReloadSettles ==
    ASSUME NEW x, NEW v, Pair \subseteq DOMAIN v
    PROVE  AppliedChanges(Reload(x, v), Reload(Reload(x, v), v)) = {}
<1> DEFINE y == Reload(x, v)
           z == Reload(y, v)
<1>1. DOMAIN y.force = DOMAIN v
  BY ReloadForce
<1>2. Retained(y, v) = Retained(x, v)
  BY RetainedSame
<1>3. ASSUME NEW k \in DOMAIN v PROVE z.force[k] = y.force[k]
  <2>1. CASE k \in Retained(x, v)
    BY <1>2, <2>1, ReloadForce
  <2>2. CASE k \notin Retained(x, v)
    <3>1. /\ z.force[k] = FromValues(Adjusted(y, v)).force[k]
          /\ y.force[k] = FromValues(Adjusted(x, v)).force[k]
      BY <1>2, <2>2, ReloadForce
    <3> HIDE DEF y
    <3>2. FromValues(Adjusted(x, v)).force[k] = FromValues(Adjusted(y, v)).force[k]
      BY <2>2, AdjustedSame, SMTT(30)
    <3> QED
      BY <3>1, <3>2
  <2> QED
    BY <2>1, <2>2
<1> HIDE DEF y, z
<1>4. AppliedChanges(y, z) = {}
  BY <1>1, <1>3 DEF AppliedChanges
<1> QED
  BY <1>4 DEF y, z

\* A reload keeps the thresholds in order.
LEMMA ReloadInOrder ==
    ASSUME NEW x, x.force[Drop] < x.force[Create], NEW v \in Contents
    PROVE  Reload(x, v).force[Drop] < Reload(x, v).force[Create]
<1>1. Pair \subseteq DOMAIN v /\ \A k \in DOMAIN v : v[k].n \in Nat
  BY ContentsAssumption
<1>2. Create \in DOMAIN v /\ Drop \in DOMAIN v
  BY <1>1, PairKeys
<1>3. Create \in Retained(x, v) <=> Drop \in Retained(x, v)
  BY <1>2, PairKeys, PairApart DEF Retained
<1>4. CASE Create \in Retained(x, v)
  <2>1. /\ Reload(x, v).force[Drop] = x.force[Drop]
        /\ Reload(x, v).force[Create] = x.force[Create]
    BY <1>2, <1>3, <1>4, ReloadForce
  <2> QED
    BY <2>1
<1>5. CASE Create \notin Retained(x, v)
  <2> DEFINE a == Adjusted(x, v)
  <2>1. a[Create] = v[Create] /\ a[Drop] = v[Drop] /\ DOMAIN a = DOMAIN v
    BY <1>1, <1>2, <1>5, AdjustedSame, PairKeys DEF Adjusted
  <2>2. a[Create].n \in Nat /\ a[Drop].n \in Nat
    BY <1>1, <1>2, <2>1
  <2>3. /\ Reload(x, v).force[Drop] = FromValues(a).force[Drop]
        /\ Reload(x, v).force[Create] = FromValues(a).force[Create]
    BY <1>2, <1>3, <1>5, ReloadForce
  <2> HIDE DEF a
  <2>4. /\ FromValues(a).force[Drop] = ReadPair(a)[Drop]
        /\ FromValues(a).force[Create] = ReadPair(a)[Create]
    BY <1>2, <2>1, LoadedForce, PairKeys
  <2>5. ReadPair(a)[Drop] < ReadPair(a)[Create]
    BY <2>2, ReadInOrder
  <2> QED
    BY <2>3, <2>4, <2>5
<1> QED
  BY <1>4, <1>5

\* Who changes the configuration, and who the policy thread.
LEMMA ConfigFrame ==
    ASSUME [Next]_vars
    PROVE  \/ (ConfigStep \/ ConfigFault) /\ policy' = policy
           \/ IndexStep /\ UNCHANGED configVars
           \/ UNCHANGED configVars /\ policy' = policy
<1>1. ASSUME NEW c \in Conns,
             Arrive(c) \/ ServerStep(c) \/ AccessStep(c) \/ FaultStep(c) \/ CountStep(c)
      PROVE  UNCHANGED configVars /\ policy' = policy
  BY <1>1 DEF Arrive, FaultStep, ServerStep, AccessStep, CountStep, indexRest,
                     policyVars
<1>2. ASSUME NEW s \in Stores, RowStored(s) \/ CommitTold(s) \/ RetentionStep(s)
      PROVE  UNCHANGED configVars /\ policy' = policy
  BY <1>2 DEF RowStored, CommitTold, RetentionStep, indexRest, policyVars
<1>3. ListenerStep \/ DescriptorStep \/ WatchFault \/ PublisherStep \/ StopAsked
      \/ SupervisorStep => UNCHANGED configVars /\ policy' = policy
  BY DEF ListenerStep, DescriptorStep, WatchFault, PublisherStep, StopAsked,
         SupervisorStep, ThreadEnded, StopPolicy, others, indexRest, policyVars
<1>4. ASSUME NEW r \in Readers, ResolutionStep(r)
      PROVE  UNCHANGED configVars /\ policy' = policy
  BY <1>4 DEF ResolutionStep, indexRest, policyVars
<1>5. ASSUME NEW p \in Patterns, NEW v \in Values, DescriptorWritten(p, v)
      PROVE  UNCHANGED configVars /\ policy' = policy
  BY <1>5 DEF DescriptorWritten, policyVars
<1>6. ConfigStep \/ ConfigFault => policy' = policy
  BY DEF ConfigStep, ConfigFault, ConfigTell, policyVars
<1>7. IndexStep => UNCHANGED configVars
  BY DEF IndexStep, PolicyStep, PolicyReceive, PolicyTimeout, PolicyRead, Recompute,
         RecomputeFails, BroadcastDesired, PolicyCheckpoint, policyOnly
<1>8. Pressure => UNCHANGED configVars /\ policy' = policy
  BY DEF Pressure, WindowEnds, EventsQueued, writerOnly, policyVars
<1>9. ASSUME NEW w \in WriterSet, ShardStep(w) \/ Calm(w)
      PROVE  UNCHANGED configVars /\ policy' = policy
  BY <1>9 DEF ShardStep, Calm, WriterStep, TakePolicy, DeferPolicy, Converge,
                     ConvergeIdle, CommitBatch, Quiet, writerOnly, policyVars
<1>10. UNCHANGED vars => UNCHANGED configVars /\ policy' = policy
  BY DEF vars, policyVars
<1> QED
  BY <1>1, <1>2, <1>3, <1>4, <1>5, <1>6, <1>7, <1>8, <1>9, <1>10
     DEF Next, HandlerStep

\* A step of the configuration watch, or of what is outside its hands.
LEMMA WatchUpToDate ==
    ASSUME UpToDate, ConfigStep \/ ConfigFault, policy' = policy
    PROVE  UpToDate'
<1>1. /\ stored \in Contents
      /\ \A x \in {conf, fresh} :
             DOMAIN x.force = DOMAIN stored /\ x.force[Drop] < x.force[Create]
      /\ DOMAIN cwatch = {"pc", "back"} /\ cwatch.back \in {"poll", "degraded"}
      /\ cwatch.pc = "poll" => cwatch.back = "poll"
      /\ policy.pc = "run" => policy.drop < policy.create
  BY DEF UpToDate
<1>2. Pair \subseteq DOMAIN stored
  BY <1>1, ContentsAssumption
\* Where the watch thread goes.
<1>3. ASSUME NEW pc, cwatch' = [cwatch EXCEPT !.pc = pc]
      PROVE  cwatch'.pc = pc /\ cwatch'.back = cwatch.back
             /\ DOMAIN cwatch' = {"pc", "back"}
  BY <1>1, <1>3
<1>4. ASSUME NEW pc, NEW back, cwatch' = [pc |-> pc, back |-> back]
      PROVE  cwatch'.pc = pc /\ cwatch'.back = back /\ DOMAIN cwatch' = {"pc", "back"}
  BY <1>4
<1>5. CASE ConfigArm \/ ConfigRearm
  <2>1. cwatch' = [pc |-> "reload", back |-> "poll"]
        /\ UNCHANGED <<stored, conf, fresh, notified, unread>>
    BY <1>5 DEF ConfigArm, ConfigRearm
  <2>2. cwatch'.pc = "reload" /\ cwatch'.back = "poll" /\ DOMAIN cwatch' = {"pc", "back"}
    BY <1>4, <2>1
  <2> QED
    BY <1>1, <2>1, <2>2 DEF UpToDate
<1>6. CASE ConfigPoll \/ ConfigRearmFails
  <2>1. cwatch' = [cwatch EXCEPT !.pc = "reload"]
        /\ UNCHANGED <<stored, conf, fresh, unread>>
    BY <1>6 DEF ConfigPoll, ConfigRearmFails
  <2>2. cwatch'.pc = "reload" /\ cwatch'.back = cwatch.back
        /\ DOMAIN cwatch' = {"pc", "back"}
    BY <1>3, <2>1
  <2> QED
    BY <1>1, <2>1, <2>2 DEF UpToDate
<1>7. CASE ConfigStop
  <2>1. cwatch' = [cwatch EXCEPT !.pc = "stopped"]
        /\ UNCHANGED <<stored, conf, fresh, notified, unread>>
    BY <1>7 DEF ConfigStop
  <2>2. cwatch'.pc = "stopped" /\ cwatch'.back = cwatch.back
        /\ DOMAIN cwatch' = {"pc", "back"}
    BY <1>3, <2>1
  <2> QED
    BY <1>1, <2>1, <2>2 DEF UpToDate
<1>8. CASE ConfigDegrade
  <2>1. cwatch' = [pc |-> "degraded", back |-> "degraded"]
        /\ UNCHANGED <<stored, conf, fresh, unread>>
    BY <1>8 DEF ConfigDegrade
  <2>2. cwatch'.pc = "degraded" /\ cwatch'.back = "degraded"
        /\ DOMAIN cwatch' = {"pc", "back"}
    BY <1>4, <2>1
  <2> QED
    BY <1>1, <2>1, <2>2 DEF UpToDate
\* What is read is in force, or about to be published.
<1>9. CASE ConfigRead
  <2> DEFINE next == Reload(conf, stored)
  <2>1. UNCHANGED <<stored, conf, notified>>
        /\ IF AppliedChanges(conf, next) = {}
           THEN cwatch' = [cwatch EXCEPT !.pc = cwatch.back] /\ fresh' = fresh
           ELSE cwatch' = [cwatch EXCEPT !.pc = "publish"] /\ fresh' = next
    BY <1>9 DEF ConfigRead, Return
  <2>2. CASE AppliedChanges(conf, next) = {}
    <3>1. cwatch'.pc = cwatch.back /\ cwatch'.back = cwatch.back
          /\ DOMAIN cwatch' = {"pc", "back"}
      BY <1>3, <2>1, <2>2
    <3> QED
      BY <1>1, <2>1, <2>2, <3>1 DEF UpToDate
  <2>3. CASE AppliedChanges(conf, next) # {}
    <3>1. cwatch'.pc = "publish" /\ cwatch'.back = cwatch.back
          /\ DOMAIN cwatch' = {"pc", "back"}
      BY <1>3, <2>1, <2>3
    <3>2. DOMAIN next.force = DOMAIN stored /\ next.force[Drop] < next.force[Create]
      BY <1>1, ReloadForce, ReloadInOrder
    <3> QED
      BY <1>1, <2>1, <2>3, <3>1, <3>2 DEF UpToDate
  <2> QED
    BY <2>2, <2>3
<1>10. CASE ConfigUnreadable
  <2>1. cwatch' = [cwatch EXCEPT !.pc = cwatch.back] /\ unread'
        /\ UNCHANGED <<stored, conf, fresh, notified>>
    BY <1>10 DEF ConfigUnreadable, Return
  <2>2. cwatch'.pc = cwatch.back /\ cwatch'.back = cwatch.back
        /\ DOMAIN cwatch' = {"pc", "back"}
    BY <1>3, <2>1
  <2> QED
    BY <1>1, <2>1, <2>2 DEF UpToDate
\* What is published is what the registry said: another reload of it would
\* change nothing.
<1>11. CASE ConfigPublish
  <2>1. /\ cwatch' = [cwatch EXCEPT !.pc = "tell"] /\ conf' = fresh
        /\ cwatch.pc = "publish"
        /\ UNCHANGED <<stored, fresh, notified, unread>>
    BY <1>11 DEF ConfigPublish
  <2>2. cwatch'.pc = "tell" /\ cwatch'.back = cwatch.back
        /\ DOMAIN cwatch' = {"pc", "back"}
    BY <1>3, <2>1
  <2>3. cwatch.back = "poll" /\ ~notified =>
            AppliedChanges(fresh, Reload(fresh, stored)) = {}
    <3>1. AppliedChanges(Reload(conf, stored), Reload(Reload(conf, stored), stored)) = {}
      BY <1>2, ReloadSettles
    <3>2. cwatch.back = "poll" /\ ~notified => fresh = Reload(conf, stored)
      BY <2>1 DEF UpToDate
    <3> QED
      BY <3>1, <3>2
  <2> QED
    BY <1>1, <2>1, <2>2, <2>3 DEF UpToDate
<1>12. CASE ConfigTold
  <2>1. /\ cwatch' = [cwatch EXCEPT !.pc = cwatch.back] /\ cwatch.pc = "tell"
        /\ UNCHANGED <<stored, conf, fresh, notified, unread>>
    BY <1>12 DEF ConfigTold, Return
  <2>2. cwatch'.pc = cwatch.back /\ cwatch'.back = cwatch.back
        /\ DOMAIN cwatch' = {"pc", "back"}
    BY <1>3, <2>1
  <2> QED
    BY <1>1, <2>1, <2>2 DEF UpToDate
<1>13. CASE ConfigSignal
  BY <1>13 DEF ConfigSignal, UpToDate
\* A write the watch does not see is one it will read when it is armed.
<1>14. ASSUME NEW values \in Contents, ConfigWrite(values) PROVE UpToDate'
  <2>1. /\ stored' = values /\ UNCHANGED <<conf, fresh, cwatch, unread>>
        /\ cwatch.pc # "arm" /\ cwatch.back = "poll" => notified'
    BY <1>14 DEF ConfigWrite, Armed
  <2>2. DOMAIN values = DOMAIN stored
    BY <1>1, ContentsAssumption
  <2> QED
    BY <1>1, <2>1, <2>2 DEF UpToDate
<1> QED
  BY <1>5, <1>6, <1>7, <1>8, <1>9, <1>10, <1>11, <1>12, <1>13, <1>14
     DEF ConfigStep, ConfigFault, ConfigTell

LEMMA ConfigBegins ==
    ASSUME Init PROVE UpToDate
<1>1. /\ stored \in Contents /\ conf = FromValues(stored) /\ fresh = conf
      /\ cwatch = [pc |-> "arm", back |-> "poll"]
      /\ policy.pc = "broadcast"
  <2>1. ConfigInit /\ \E count, set : PolicyInit(count, set)
    BY DEF Init
  <2>2. policy = [pc |-> "broadcast", todo |-> Writers, final |-> FALSE,
                  create |-> 0, drop |-> 0]
    BY <2>1 DEF PolicyInit
  <2>3. policy.pc = "broadcast"
    BY <2>2, SMTT(30)
  <2>4. stored \in Contents
    BY <2>1 DEF ConfigInit
  <2> QED
    BY <2>1, <2>3, <2>4 DEF ConfigInit
<1>2. Create \in DOMAIN stored /\ Drop \in DOMAIN stored
      /\ \A k \in DOMAIN stored : stored[k].n \in Nat
  BY <1>1, ContentsAssumption, PairKeys
<1>3. /\ DOMAIN conf.force = DOMAIN stored
      /\ conf.force[Drop] = ReadPair(stored)[Drop]
      /\ conf.force[Create] = ReadPair(stored)[Create]
  BY <1>1, <1>2, LoadedForce, PairKeys
<1>4. conf.force[Drop] < conf.force[Create]
  BY <1>2, <1>3, ReadInOrder
<1> QED
  BY <1>1, <1>3, <1>4 DEF UpToDate

LEMMA ConfigStays ==
    ASSUME LastInv, UpToDate, [Next]_vars
    PROVE  UpToDate'
<1>1. ASSUME ConfigStep \/ ConfigFault, policy' = policy PROVE UpToDate'
  BY <1>1, WatchUpToDate
<1>2. ASSUME UNCHANGED configVars, policy'.pc = "run" => policy'.drop < policy'.create
      PROVE  UpToDate'
  BY <1>2 DEF configVars, UpToDate
<1>3. ASSUME IndexStep PROVE policy'.pc = "run" => policy'.drop < policy'.create
  <2>1. DOMAIN policy = {"pc", "todo", "final", "create", "drop"}
    BY DEF LastInv, LastRun
  <2>2. CASE PolicyRead
    <3>1. policy'.create = conf.force[Create] /\ policy'.drop = conf.force[Drop]
      BY <2>1, <2>2 DEF PolicyRead
    <3> QED
      BY <3>1 DEF UpToDate
  <2>3. CASE PolicyReceive \/ PolicyTimeout
    <3>1. policy'.pc = "read"
      BY <2>1, <2>3 DEF PolicyReceive, PolicyTimeout
    <3> QED
      BY <3>1
  <2>4. CASE Recompute \/ RecomputeFails \/ PolicyCheckpoint
    <3>1. policy'.pc \in {"checkpoint", "broadcast", "failed", "stopped"}
      BY <2>1, <2>4 DEF Recompute, RecomputeFails, PolicyCheckpoint
    <3> QED
      BY <3>1
  <2>5. CASE BroadcastDesired
    <3>1. policy'.pc \in {"wait", "broadcast"}
      BY <2>1, <2>5 DEF BroadcastDesired
    <3> QED
      BY <3>1
  <2> QED
    BY <1>3, <2>2, <2>3, <2>4, <2>5 DEF IndexStep, PolicyStep
<1>4. policy' = policy => (policy'.pc = "run" => policy'.drop < policy'.create)
  BY DEF UpToDate
<1> QED
  BY <1>1, <1>2, <1>3, <1>4, ConfigFrame

\* Whatever is written to the registry and whenever, a watch that waits with
\* nothing to be told has in force what the registry holds, and no run of the
\* policy has a drop threshold that reaches the create threshold (config.rs,
\* ConfigWatch::run and apply_reload; indexing.rs, run).
THEOREM ConfigurationCurrent == Spec => []ConfigCurrent
<1>1. Init => UpToDate
  BY ConfigBegins
<1>2. LastInv /\ UpToDate /\ [Next]_vars => UpToDate'
  BY ConfigStays
<1>3. UpToDate => ConfigCurrent
  BY DEF UpToDate, ConfigCurrent
<1> QED
  BY <1>1, <1>2, <1>3, LastHolds, PTL DEF Spec

=============================================================================
