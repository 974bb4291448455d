----------------------------- MODULE QueryServer -----------------------------
(***************************************************************************)
(* The query socket: the listener, one handler thread per connection with  *)
(* the slots and memory it takes, and the life of a query from the access  *)
(* check to the watch phase of a stream (src/eventd/src/query/mod.rs,      *)
(* src/eventd/src/query/executor.rs).                                      *)
(*                                                                         *)
(* A connection has a plan: who asks, and what.  "newest" hands each row   *)
(* over as it is read; "sorted" gathers its rows first; "stream" and       *)
(* "distinct" go on to watch, the first in the default order, the second   *)
(* for the values of the type field; "index" asks for an index.  What the  *)
(* default order or a SORT makes of the rows is not modelled here, so a    *)
(* scan yields them in any order.  Memory is counted in granules, one for  *)
(* each row or value gathered.                                             *)
(***************************************************************************)
EXTENDS Authorization, QueryStores, IndexPolicy

CONSTANTS Conns,        \* connections
          Shards,       \* the event shards, in order
          LogStores,    \* the log store alone, as a sequence
          MaxActive,    \* MaxConcurrentQueries
          MaxPerUser,   \* MaxQueriesPerUser
          MaxStreams,   \* MaxStreamingQueries
          MaxDistinct,  \* MaxDistinctStreamValues
          HeldLimit     \* MaxQueryHeldBytes, in granules

ASSUME ConnsAssumption ==
    /\ Conns \subseteq Readers \ {Publisher} /\ IsFiniteSet(Conns)
    /\ Types \subseteq Identifiers
    /\ Stores = Range(Shards) \union Range(LogStores)
    /\ Shards \in Seq(Stores) /\ Shards # <<>>
    /\ LogStores \in Seq(Stores) /\ LogStores # <<>>
    /\ MaxActive \in Nat /\ MaxPerUser \in Nat /\ MaxStreams \in Nat
    /\ HeldLimit \in Nat

VARIABLES plan,     \* what each connection asks
          conn,     \* each connection's handler
          server,   \* the listener
          active,   \* query slots taken
          streams,  \* streaming slots taken
          users,    \* each user's slots
          held      \* memory taken by all queries

serverVars == <<conn, server, active, streams, users, held>>

Users == {"user", "other"}

\* SYSTEM is not counted, and Anonymous is not served.
Callers == Users \union {"system", "anonymous"}

Streaming(c) == plan[c].kind \in {"stream", "distinct"}

\* In the default order each record is handed over as it is read.
NewestFirst(c) == ~conn[c].watch /\ plan[c].kind \in {"newest", "stream"}

StoresOf(c) == IF plan[c].source = "logs" THEN LogStores ELSE Shards

NoCursor == [s \in Stores |-> 0]

Unbounded == 1000000

Fresh == [pc |-> "absent", slot |-> FALSE, stream |-> FALSE, watch |-> FALSE,
          evaluated |-> FALSE, observed |-> 0, cursor |-> NoCursor,
          upper |-> [s \in Stores |-> Unbounded], todo |-> <<>>, types |-> {},
          allowed |-> {}, gen |-> 0, rows |-> <<>>, kept |-> <<>>,
          sent |-> <<>>, watched |-> <<>>, seen |-> {}, first |-> NoCursor]

ServerInit ==
    /\ conn = [c \in Conns |-> Fresh]
    /\ server = "accept"
    /\ active = 0
    /\ streams = 0
    /\ users = [u \in Users |-> 0]
    /\ held = 0

\* Where a handler with a query slot may be.
Handling == {"identify", "request", "administer", "prioritize", "offer",
             "begin", "capture", "discover", "authorize", "authorizing",
             "scan", "visit", "visiting", "emit", "watch", "leaving", "exiting"}

slotVars == <<server, active, streams, users, held>>

At(c, pc) == conn[c].pc = pc
Go(c, pc) == conn' = [conn EXCEPT ![c].pc = pc]

-----------------------------------------------------------------------------
(* The listener. *)

Knock(c) ==
    /\ At(c, "absent")
    /\ server = "accept"
    /\ Go(c, "knock")
    /\ UNCHANGED slotVars

\* A slot is taken for the handler, or the connection is refused.
Accept(c) ==
    /\ server = "accept"
    /\ ~stopping
    /\ At(c, "knock")
    /\ IF active < MaxActive
       THEN Go(c, "identify") /\ active' = active + 1
       ELSE Go(c, "gone") /\ UNCHANGED active
    /\ UNCHANGED <<server, streams, users, held>>

\* No thread can be started: the slot is given back and the listener ends.
SpawnFails(c) ==
    /\ server = "accept"
    /\ ~stopping
    /\ At(c, "knock")
    /\ active < MaxActive
    /\ Spend("spawn")
    /\ Go(c, "gone")
    /\ server' = "failed"
    /\ UNCHANGED <<active, streams, users, held>>

\* Told to stop, it waits for the handlers.
StopListening ==
    /\ server = "accept"
    /\ stopping
    /\ server' = "waiting"
    /\ UNCHANGED <<conn, active, streams, users, held>>

\* A mutation of ListenerEnds: it does not wait for the handlers.
ListenerLeaves ==
    /\ server = "waiting"
    /\ server' = "stopped"
    /\ UNCHANGED <<conn, active, streams, users, held>>

ListenerEnds ==
    /\ server = "waiting"
    /\ active = 0
    /\ server' = "stopped"
    /\ UNCHANGED <<conn, active, streams, users, held>>

-----------------------------------------------------------------------------
(* A handler's way out. *)

\* A mutation of Leave: what was gathered is not given back.
LeaveHolding(c) ==
    /\ conn' = [conn EXCEPT ![c].pc = "leaving", ![c].kept = <<>>,
                            ![c].rows = <<>>, ![c].todo = <<>>]
    /\ UNCHANGED slotVars

\* Whatever ends a handler, it drops what it gathered, its slots and last,
\* with its thread, the query slot.
Leave(c) ==
    /\ conn' = [conn EXCEPT ![c].pc = "leaving", ![c].kept = <<>>,
                            ![c].rows = <<>>, ![c].todo = <<>>]
    /\ held' = held - Len(conn[c].kept)
    /\ UNCHANGED <<server, active, streams, users>>

Release(c) ==
    LET u == plan[c].user IN
    /\ At(c, "leaving")
    /\ conn' = [conn EXCEPT ![c].pc = "exiting", ![c].slot = FALSE,
                            ![c].stream = FALSE]
    /\ streams' = IF conn[c].stream THEN streams - 1 ELSE streams
    /\ users' = IF conn[c].slot THEN [users EXCEPT ![u] = @ - 1] ELSE users
    /\ UNCHANGED <<server, active, held>>

Exit(c) ==
    /\ At(c, "exiting")
    /\ conn' = [conn EXCEPT ![c] = [Fresh EXCEPT !.pc = "gone"]]
    /\ active' = active - 1
    /\ UNCHANGED <<server, streams, users, held>>

\* A peer that cannot be identified or hangs up, a malformed request, the
\* deadline, a store or a socket that fails: each ends the handler.
HandlerFails(c) ==
    /\ conn[c].pc \in {"identify", "request", "capture", "discover", "scan",
                       "visit", "emit", "watch"}
    /\ Spend("fail")
    /\ Leave(c)

-----------------------------------------------------------------------------
(* From the connection to the query. *)

Identify(c) ==
    LET u == plan[c].user IN
    /\ At(c, "identify")
    /\ IF u = "anonymous" \/ (u \in Users /\ users[u] >= MaxPerUser)
       THEN Leave(c)
       ELSE /\ conn' = [conn EXCEPT ![c].pc = "request", ![c].slot = u \in Users]
            /\ users' = IF u \in Users THEN [users EXCEPT ![u] = @ + 1] ELSE users
            /\ UNCHANGED <<server, active, streams, held>>

\* The query is parsed.  Its predicates are counted, and a stream needs a
\* slot of its own.
Request(c) ==
    /\ At(c, "request")
    /\ plan[c].kind # "index"
    /\ IF plan[c].source = "events" THEN RecordQuery(plan[c].fields)
       ELSE UNCHANGED <<counts, elapsed>>
    /\ IF ~Streaming(c) THEN Go(c, "begin") /\ UNCHANGED slotVars
       ELSE IF streams >= MaxStreams THEN Leave(c)
       ELSE /\ conn' = [conn EXCEPT ![c].pc = "begin", ![c].stream = TRUE]
            /\ streams' = streams + 1
            /\ UNCHANGED <<server, active, users, held>>

\* INDEX needs the administrator's right.
RequestIndex(c) ==
    /\ At(c, "request")
    /\ plan[c].kind = "index"
    /\ Resolve(c, Admin)
    /\ Go(c, "administer")
    /\ UNCHANGED slotVars

Administered(c) ==
    /\ At(c, "administer")
    /\ look[c].pc \in {"done", "error"}
    /\ look' = [look EXCEPT ![c] = Idle]
    /\ IF look[c].pc = "done" /\ Verdict(look[c].found) = "allowed"
       THEN Go(c, "prioritize") /\ UNCHANGED slotVars
       ELSE Leave(c)
    /\ UNCHANGED <<registry, generation, healthy, resolved, watch, pending>>

\* The field is counted as wanted, and then the policy is asked to run.
PrioritizeField(c) ==
    /\ At(c, "prioritize")
    /\ \A f \in plan[c].fields : Prioritize(f)
    /\ Go(c, "offer")
    /\ UNCHANGED <<slotVars, policyq>>

OfferRecompute(c) ==
    /\ At(c, "offer")
    /\ policyq' = Offered(policyq)
    /\ Leave(c)
    /\ UNCHANGED <<counts, elapsed>>

-----------------------------------------------------------------------------
(* One evaluation of the query: the initial one, and each of a watch. *)

\* The commit generation is read first, then the evaluation time.  A stream
\* captures how far each store goes; any other query has no upper bound.
Begin(c) ==
    /\ At(c, "begin")
    /\ conn' = [conn EXCEPT ![c].pc = IF Streaming(c) THEN "capture" ELSE "discover",
                            ![c].observed = signal[plan[c].source],
                            ![c].evaluated = TRUE,
                            ![c].todo = StoresOf(c)]
    /\ verdicts' = [verdicts EXCEPT ![c] = NoVerdicts(generation)]
    /\ UNCHANGED slotVars

\* The highest identifier of one store after the other.  A watch that finds
\* nothing new goes back to waiting.
CaptureCursor(c) ==
    LET s == Head(conn[c].todo)
        upper == [conn[c].upper EXCEPT ![s] = Highest(s)]
        last == Len(conn[c].todo) = 1
        same == \A t \in Range(StoresOf(c)) : upper[t] = conn[c].cursor[t]
    IN
    /\ At(c, "capture")
    /\ conn' = [conn EXCEPT ![c].upper = upper,
                            ![c].todo = IF last THEN StoresOf(c) ELSE Tail(@),
                            ![c].types = {},
                            ![c].first = IF conn[c].watch THEN @
                                         ELSE [@ EXCEPT ![s] = Highest(s)],
                            ![c].pc = IF ~last THEN "capture"
                                      ELSE IF conn[c].watch /\ same THEN "watch"
                                      ELSE "discover"]
    /\ UNCHANGED slotVars

\* The catalogue of one store after the other.
Discover(c) ==
    LET s == Head(conn[c].todo)
        types == conn[c].types \union catalog[s]
        last == Len(conn[c].todo) = 1
    IN
    /\ At(c, "discover")
    /\ conn' = [conn EXCEPT ![c].types = types,
                            ![c].todo = IF last THEN SetToSeq(types) ELSE Tail(@),
                            ![c].allowed = {},
                            ![c].gen = IF last THEN generation ELSE @,
                            ![c].pc = IF last THEN "authorize" ELSE @]
    /\ verdicts' = IF last THEN [verdicts EXCEPT ![c] = Refreshed(@)] ELSE verdicts
    /\ UNCHANGED slotVars

\* One identifier after the other is checked; a generation that has moved
\* meanwhile starts the checks again.
AuthorizeNext(c) ==
    /\ At(c, "authorize")
    /\ conn[c].todo # <<>>
    /\ CheckBegin(c, "may", Head(conn[c].todo))
    /\ Go(c, "authorizing")
    /\ UNCHANGED slotVars

Authorized(c) ==
    LET id == Head(conn[c].todo) IN
    /\ At(c, "authorizing")
    /\ \/ look[c].pc = "idle" /\ UNCHANGED <<cacheVars, verdicts>>
       \/ CheckEnd(c, "may")
    /\ conn' = [conn EXCEPT ![c].pc = "authorize", ![c].todo = Tail(@),
                            ![c].allowed = IF verdicts'[c].of[<<"may", id>>] = "allowed"
                                           THEN @ \union {id} ELSE @]
    /\ UNCHANGED slotVars

\* A mutation of AuthorizeEnds: the generation is not read again.
AuthorizeEndsNever(c) ==
    /\ At(c, "authorize")
    /\ conn[c].todo = <<>>
    /\ IF generation = conn[c].gen
       THEN /\ conn' = [conn EXCEPT ![c].pc = "scan", ![c].todo = StoresOf(c)]
            /\ UNCHANGED verdicts
       ELSE /\ conn' = [conn EXCEPT ![c].todo = SetToSeq(conn[c].types),
                                    ![c].allowed = {}]
            /\ verdicts' = [verdicts EXCEPT ![c] = Refreshed(@)]
    /\ UNCHANGED slotVars

AuthorizeEnds(c) ==
    /\ At(c, "authorize")
    /\ conn[c].todo = <<>>
    /\ IF generation = conn[c].gen
       THEN /\ conn' = [conn EXCEPT ![c].pc = "scan", ![c].todo = StoresOf(c)]
            /\ UNCHANGED verdicts
       ELSE /\ conn' = [conn EXCEPT ![c].todo = SetToSeq(conn[c].types),
                                    ![c].allowed = {}, ![c].gen = generation]
            /\ verdicts' = [verdicts EXCEPT ![c] = Refreshed(@)]
    /\ UNCHANGED slotVars

\* A registry that cannot be read fails the query.
AuthorizeFails(c) ==
    /\ conn[c].pc \in {"authorizing", "visiting"}
    /\ look[c].pc = "error"
    /\ look' = [look EXCEPT ![c] = Idle]
    /\ Leave(c)
    /\ UNCHANGED <<registry, generation, healthy, resolved, watch, pending>>

\* What one read of a store finds: in the initial result nothing stamped at
\* or after the evaluation time.
Matching(c, s) ==
    {row \in Between(s, conn[c].cursor[s], conn[c].upper[s]) :
        row.type \in conn[c].allowed /\ (conn[c].watch \/ c \notin row.after)}

\* The next store is read.  In the default order all of them are before the
\* first row is looked at.
Scan(c) ==
    LET s == Head(conn[c].todo)
        visit == ~NewestFirst(c) \/ Len(conn[c].todo) = 1
    IN
    /\ At(c, "scan")
    /\ conn[c].todo # <<>>
    /\ \E found \in SetToSeqs(Matching(c, s)) :
         conn' = [conn EXCEPT ![c].rows = @ \o found, ![c].todo = Tail(@),
                              ![c].pc = IF visit THEN "visit" ELSE "scan"]
    /\ UNCHANGED slotVars

VisitRow(c) ==
    /\ At(c, "visit")
    /\ conn[c].rows # <<>>
    /\ CheckBegin(c, "row", Head(conn[c].rows).type)
    /\ Go(c, "visiting")
    /\ UNCHANGED slotVars

\* A distinct stream's first result holds one row for each value.
Keeps(c, row) ==
    plan[c].kind # "distinct" \/ conn[c].watch
    \/ row.type \notin {conn[c].kept[i].type : i \in 1..Len(conn[c].kept)}

\* The row is refused, handed over, or gathered if there is memory for it.
Visited(c) ==
    LET row == Head(conn[c].rows)
        passed == [conn EXCEPT ![c].pc = "visit", ![c].rows = Tail(@)]
    IN
    /\ At(c, "visiting")
    /\ \/ look[c].pc = "idle" /\ UNCHANGED <<cacheVars, verdicts>>
       \/ CheckEnd(c, "row")
    /\ IF verdicts'[c].of[<<"row", row.type>>] # "allowed" \/ ~Keeps(c, row)
       THEN conn' = passed /\ UNCHANGED slotVars
       ELSE IF NewestFirst(c)
       THEN /\ conn' = [passed EXCEPT ![c].sent = Append(@, row)]
            /\ UNCHANGED slotVars
       ELSE IF held >= HeldLimit THEN Leave(c)
       ELSE /\ conn' = [passed EXCEPT ![c].kept = Append(@, row)]
            /\ held' = held + 1
            /\ UNCHANGED <<server, active, streams, users>>

RowsVisited(c) ==
    /\ At(c, "visit")
    /\ conn[c].rows = <<>>
    /\ Go(c, IF conn[c].todo = <<>> THEN "emit" ELSE "scan")
    /\ UNCHANGED slotVars

-----------------------------------------------------------------------------
(* The result, and the watch. *)

\* Store by store in the order of the shards, then by identifier.
Ordinal(s) == CHOOSE i \in 1..Len(Shards \o LogStores) : (Shards \o LogStores)[i] = s

\* A mutation of ByTie: rows are taken as they come.
ByNothing(a, b) == Ordinal(a.store) < Ordinal(b.store)

ByTie(a, b) ==
    \/ Ordinal(a.store) < Ordinal(b.store)
    \/ a.store = b.store /\ a.id < b.id

TypesIn(s) == {s[i].type : i \in 1..Len(s)}

\* The first row of each value not seen yet.
Unseen(s, seen) ==
    LET pick == {i \in 1..Len(s) : s[i].type \notin seen
                                   /\ \A j \in 1..(i - 1) : s[j].type # s[i].type}
    IN  [n \in 1..Cardinality(pick) |-> s[SetToSortSeq(pick, <)[n]]]

\* Mutations of Emit: the commit generation is read only now, and the values
\* sent are not kept.
EmitObserving(c) ==
    LET seen == TypesIn(conn[c].kept) IN
    /\ At(c, "emit")
    /\ ~conn[c].watch
    /\ held' = held - Len(conn[c].kept)
    /\ conn' = IF Streaming(c) /\ Cardinality(seen) <= MaxDistinct
               THEN [conn EXCEPT ![c].pc = "watch", ![c].watch = TRUE,
                                 ![c].observed = signal[plan[c].source],
                                 ![c].sent = @ \o conn[c].kept, ![c].kept = <<>>,
                                 ![c].seen = seen, ![c].cursor = conn[c].upper]
               ELSE [conn EXCEPT ![c].pc = "leaving", ![c].kept = <<>>]
    /\ UNCHANGED <<server, active, streams, users>>

EmitUnseeded(c) ==
    LET seen == TypesIn(conn[c].kept) IN
    /\ At(c, "emit")
    /\ ~conn[c].watch
    /\ held' = held - Len(conn[c].kept)
    /\ conn' = IF Streaming(c) /\ Cardinality(seen) <= MaxDistinct
               THEN [conn EXCEPT ![c].pc = "watch", ![c].watch = TRUE,
                                 ![c].sent = @ \o conn[c].kept, ![c].kept = <<>>,
                                 ![c].cursor = conn[c].upper]
               ELSE [conn EXCEPT ![c].pc = "leaving", ![c].kept = <<>>]
    /\ UNCHANGED <<server, active, streams, users>>

\* The initial result is out.  A distinct stream keeps the values it sent;
\* with too many of them, as for any query that does not watch, that is all.
Emit(c) ==
    LET seen == TypesIn(conn[c].kept) IN
    /\ At(c, "emit")
    /\ ~conn[c].watch
    /\ held' = held - Len(conn[c].kept)
    /\ conn' = IF Streaming(c) /\ Cardinality(seen) <= MaxDistinct
               THEN [conn EXCEPT ![c].pc = "watch", ![c].watch = TRUE,
                                 ![c].sent = @ \o conn[c].kept, ![c].kept = <<>>,
                                 ![c].seen = seen, ![c].cursor = conn[c].upper]
               ELSE [conn EXCEPT ![c].pc = "leaving", ![c].kept = <<>>]
    /\ UNCHANGED <<server, active, streams, users>>

\* A watch batch goes out in the order of the stores, and the cursor moves.
EmitBatch(c) ==
    LET batch == SortSeq(conn[c].kept, ByTie)
        new == IF plan[c].kind = "distinct" THEN Unseen(batch, conn[c].seen) ELSE batch
        seen == conn[c].seen \union TypesIn(new)
    IN
    /\ At(c, "emit")
    /\ conn[c].watch
    /\ held' = held - Len(conn[c].kept)
    /\ conn' = IF plan[c].kind = "distinct" /\ Cardinality(seen) > MaxDistinct
               THEN [conn EXCEPT ![c].pc = "leaving", ![c].kept = <<>>]
               ELSE [conn EXCEPT ![c].pc = "watch", ![c].kept = <<>>, ![c].seen = seen,
                                 ![c].cursor = conn[c].upper,
                                 ![c].sent = @ \o new, ![c].watched = @ \o new]
    /\ UNCHANGED <<server, active, streams, users>>

\* A mutation of Wake: the generation seen is not kept.
WakeForgetful(c) ==
    /\ At(c, "watch")
    /\ ~stopping
    /\ signal[plan[c].source] # conn[c].observed
    /\ conn' = [conn EXCEPT ![c].pc = "capture", ![c].todo = StoresOf(c)]
    /\ UNCHANGED slotVars

\* A commit since the generation last seen leads to another evaluation.
Wake(c) ==
    LET now == signal[plan[c].source] IN
    /\ At(c, "watch")
    /\ ~stopping
    /\ now # conn[c].observed
    /\ conn' = [conn EXCEPT ![c].pc = "capture", ![c].observed = now,
                            ![c].todo = StoresOf(c)]
    /\ UNCHANGED slotVars

\* A mutation of WatchEnds: only a commit makes the handler look.
WatchEndsLate(c) ==
    /\ At(c, "watch")
    /\ stopping
    /\ signal[plan[c].source] # conn[c].observed
    /\ Leave(c)

\* Shutdown ends a watch.
WatchEnds(c) ==
    /\ At(c, "watch")
    /\ stopping
    /\ Leave(c)

=============================================================================
