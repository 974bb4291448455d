--------------------------- MODULE DescriptorCache ---------------------------
(***************************************************************************)
(* The cache of security descriptors (src/eventd/src/query/security.rs),   *)
(* the registry it is read from, and the thread that watches the registry. *)
(*                                                                         *)
(* An identifier resolves to the first of its candidate patterns that      *)
(* holds a descriptor.  The walk reads one registry key per step, so a     *)
(* change may fall between two reads of one walk.  What the cache relies   *)
(* on is its generation: a walk that began under an earlier generation is  *)
(* thrown away, and the watch thread raises the generation after every     *)
(* notification.  The administration descriptor is resolved by the same    *)
(* protocol from a single key; it is the identifier Admin here.            *)
(***************************************************************************)
EXTENDS Naturals, Sequences

CONSTANTS Patterns,     \* registry keys that may hold a descriptor
          Identifiers,  \* event types, origins, metric names, and Admin
          Admin,        \* the administration descriptor's identifier
          Candidates,   \* the patterns each identifier is resolved through
          Readers       \* the threads that resolve identifiers

ASSUME CandidatesAssumption ==
    /\ Admin \in Identifiers
    /\ Candidates \in [Identifiers -> Seq(Patterns)]

VARIABLES registry,    \* what each key holds
          generation,  \* the cache's generation
          healthy,     \* whether the watch stands behind the cache
          resolved,    \* the outcome cached for each identifier
          watch,       \* where the watch thread is
          pending,     \* a change has been notified and not yet read
          look         \* each reader's resolution in progress

cacheVars == <<registry, generation, healthy, resolved, watch, pending, look>>

\* A key without a descriptor, one whose value is no descriptor, and two
\* descriptors, told apart by whether they grant the right asked about.
Values == {"none", "invalid", "grants", "denies"}

Missing == [pattern |-> "none", value |-> "none"]

Unresolved == [pattern |-> "none", value |-> "unresolved"]

\* The positions of id's candidates that hold a value.
Holding(reg, id) ==
    {i \in 1..Len(Candidates[id]) : reg[Candidates[id][i]] # "none"}

First(S) == CHOOSE i \in S : \A j \in S : i <= j

Found(reg, id, i) ==
    [pattern |-> Candidates[id][i], value |-> reg[Candidates[id][i]]]

\* What resolving id against one state of the registry yields.
Resolution(reg, id) ==
    IF Holding(reg, id) = {} THEN Missing
    ELSE Found(reg, id, First(Holding(reg, id)))

Idle == [pc |-> "idle", id |-> Admin, gen |-> 0, at |-> 1, found |-> Missing]

CacheInit ==
    /\ registry \in [Patterns -> Values]
    /\ generation = 0
    /\ healthy = TRUE
    /\ resolved = [id \in Identifiers |-> Unresolved]
    /\ watch = "off"
    /\ pending = FALSE
    /\ look = [r \in Readers |-> Idle]

-----------------------------------------------------------------------------
(* One resolution. *)

Begun(id) == [Idle EXCEPT !.pc = "read", !.id = id]

\* Under the read lock: a cached outcome is the answer, an unhealthy cache
\* answers that nothing is granted, and otherwise the generation is kept.
LookUp(r) ==
    LET id == look[r].id IN
    /\ look[r].pc = "read"
    /\ look' = [look EXCEPT ![r] =
                  IF resolved[id] # Unresolved
                  THEN [@ EXCEPT !.pc = "done", !.found = resolved[id]]
                  ELSE IF ~healthy
                  THEN [@ EXCEPT !.pc = "done", !.found = Missing]
                  ELSE [@ EXCEPT !.pc = "walk", !.gen = generation, !.at = 1]]
    /\ UNCHANGED <<registry, generation, healthy, resolved, watch, pending>>

ResolveLookUp(r) == look[r].id # Admin /\ LookUp(r)

AdminLookUp(r) == look[r].id = Admin /\ LookUp(r)

\* One candidate's key is read: no descriptor there leads to the next one.
Walk(r) ==
    LET c == Candidates[look[r].id]
        i == look[r].at
    IN
    /\ look[r].pc = "walk"
    /\ look' = [look EXCEPT ![r] =
                  IF i > Len(c)
                  THEN [@ EXCEPT !.pc = "insert", !.found = Missing]
                  ELSE IF registry[c[i]] = "invalid"
                  THEN [@ EXCEPT !.pc = "error"]
                  ELSE IF registry[c[i]] = "none"
                  THEN [@ EXCEPT !.at = i + 1]
                  ELSE [@ EXCEPT !.pc = "insert",
                                 !.found = Found(registry, look[r].id, i)]]
    /\ UNCHANGED <<registry, generation, healthy, resolved, watch, pending>>

\* A mutation of Insert: the generation is not looked at again.
InsertAnyway(r) ==
    /\ look[r].pc = "insert"
    /\ look' = [look EXCEPT ![r].pc = "done"]
    /\ resolved' = [resolved EXCEPT ![look[r].id] = look[r].found]
    /\ UNCHANGED <<registry, generation, healthy, watch, pending>>

\* Under the write lock: a walk of an earlier generation is done again.
Insert(r) ==
    /\ look[r].pc = "insert"
    /\ IF generation # look[r].gen \/ ~healthy
       THEN /\ look' = [look EXCEPT ![r].pc = "read"]
            /\ UNCHANGED resolved
       ELSE /\ look' = [look EXCEPT ![r].pc = "done"]
            /\ resolved' = [resolved EXCEPT ![look[r].id] = look[r].found]
    /\ UNCHANGED <<registry, generation, healthy, watch, pending>>

ResolveInsert(r) == look[r].id # Admin /\ Insert(r)

AdminInsert(r) == look[r].id = Admin /\ Insert(r)

\* The reader starts resolving id; what the protocol above answers is found
\* once pc is "done", or the registry could not be read and pc is "error".
Resolve(r, id) ==
    /\ look[r].pc = "idle"
    /\ look' = [look EXCEPT ![r] = Begun(id)]
    /\ UNCHANGED <<registry, generation, healthy, resolved, watch, pending>>

ResolveStep(r) ==
    \/ ResolveLookUp(r) \/ AdminLookUp(r)
    \/ Walk(r)
    \/ ResolveInsert(r) \/ AdminInsert(r)

-----------------------------------------------------------------------------
(* The watch thread and the registry. *)

Emptied(health) ==
    /\ generation' = generation + 1
    /\ healthy' = health
    /\ resolved' = [id \in Identifiers |-> Unresolved]

Invalidate == Emptied(TRUE)

\* A mutation of FailWatch: what is cached stays.
FailQuietly ==
    /\ generation' = generation + 1
    /\ healthy' = FALSE
    /\ UNCHANGED resolved

FailWatch == Emptied(FALSE)

\* The key is open and asked to notify: from here on no change is missed.
WatchArm ==
    /\ watch = "off"
    /\ watch' = "armed"
    /\ UNCHANGED <<registry, generation, healthy, resolved, pending, look>>

WatchArmed ==
    /\ watch = "armed"
    /\ Invalidate
    /\ watch' = "poll"
    /\ UNCHANGED <<registry, pending, look>>

\* The notifications are read, and the cache is emptied after that.
WatchRead ==
    /\ watch = "poll"
    /\ pending
    /\ pending' = FALSE
    /\ watch' = "changed"
    /\ UNCHANGED <<registry, generation, healthy, resolved, look>>

WatchChanged ==
    /\ watch = "changed"
    /\ Invalidate
    /\ watch' = "poll"
    /\ UNCHANGED <<registry, pending, look>>

\* The key cannot be opened, or the watch on it closes: its notifications go
\* with it.
WatchError ==
    /\ watch \in {"off", "poll"}
    /\ watch' = "failed"
    /\ pending' = FALSE
    /\ UNCHANGED <<registry, generation, healthy, resolved, look>>

WatchFailed ==
    /\ watch = "failed"
    /\ FailWatch
    /\ watch' = "off"
    /\ UNCHANGED <<registry, pending, look>>

WatchStop ==
    /\ watch \in {"off", "poll"}
    /\ watch' = "stopped"
    /\ UNCHANGED <<registry, generation, healthy, resolved, pending, look>>

WatchStep == WatchArm \/ WatchArmed \/ WatchRead \/ WatchChanged \/ WatchFailed

\* Someone writes a descriptor, or removes one.
RegistryChange(p, v) ==
    /\ registry[p] # v
    /\ registry' = [registry EXCEPT ![p] = v]
    /\ pending' = (pending \/ watch \in {"armed", "poll", "changed"})
    /\ UNCHANGED <<generation, healthy, resolved, watch, look>>

\* The reader has used its answer.
Answered(r) ==
    /\ look[r].pc \in {"done", "error"}
    /\ look' = [look EXCEPT ![r] = Idle]
    /\ UNCHANGED <<registry, generation, healthy, resolved, watch, pending>>

CacheNext ==
    \/ \E r \in Readers : ResolveStep(r) \/ Answered(r)
    \/ \E r \in Readers, id \in Identifiers : Resolve(r, id)
    \/ WatchStep \/ WatchError \/ WatchStop
    \/ \E p \in Patterns, v \in Values : RegistryChange(p, v)

\* The cache with its readers, its watch and the registry, whatever the readers
\* resolve and why.  The handlers and the metric thread use it this way only
\* (security.rs, resolve_with, admin_with and the watch thread), so what is
\* proved of it holds in the composition.
CacheSpec == CacheInit /\ [][CacheNext]_cacheVars

-----------------------------------------------------------------------------
(* What the cache promises. *)

\* The watch stands and has told of every change.
Told == watch = "poll" /\ ~pending

\* While the watch stands and has told of every change, what is cached is
\* what the registry says now: a walk torn by a change, or begun before one,
\* is never found in the cache once the change has been taken in.  While the
\* watch is known to have failed nothing is cached: what cannot be kept current
\* is not answered from memory (security.rs, resolve_with and admin_with against
\* invalidate and fail_watch).
CacheCurrent ==
    /\ watch = "poll" /\ ~pending =>
           \A id \in Identifiers :
               resolved[id] # Unresolved => resolved[id] = Resolution(registry, id)
    /\ ~healthy => \A id \in Identifiers : resolved[id] = Unresolved

=============================================================================
