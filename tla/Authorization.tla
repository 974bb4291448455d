---------------------------- MODULE Authorization ----------------------------
(***************************************************************************)
(* The verdicts each thread keeps in front of the descriptor cache: those  *)
(* of one query (AuthorizationCache in src/eventd/src/query/executor.rs)   *)
(* and those of the metric thread, which asks whether a producer may       *)
(* publish a name (src/eventd/src/write_security.rs).                      *)
(*                                                                         *)
(* A verdict belongs to the descriptor generation its cache was last       *)
(* brought up to.  A query refreshes before every use and files what it    *)
(* then resolves under that generation, although a change may have been    *)
(* taken in between; the metric thread asks again until the generation     *)
(* stood still, and its cache has a bound.                                 *)
(***************************************************************************)
EXTENDS DescriptorCache, FiniteSets

CONSTANTS Publisher,  \* the metric thread
          Datagrams,  \* the names each datagram in turn would publish
          Capacity    \* the bound on the metric thread's verdicts

ASSUME PublisherAssumption ==
    /\ Publisher \in Readers
    /\ Datagrams \in Seq(Seq(Identifiers))
    /\ Capacity \in Nat

VARIABLES verdicts,  \* each thread's verdicts and their generation
          pub        \* the metric thread's datagram in progress

authVars == <<verdicts, pub>>

\* A query asks of an identifier whether its records may be visible at all,
\* and of each record whether it is; the two verdicts are kept apart.
Checks == {"may", "row"}

NoVerdicts(gen) ==
    [gen |-> gen, of |-> [x \in Checks \X Identifiers |-> "unknown"]]

Known(v) == {x \in DOMAIN v.of : v.of[x] # "unknown"}

\* An access check against what was resolved: no descriptor grants nothing.
Verdict(found) == IF found.value = "grants" THEN "allowed" ELSE "refused"

AuthInit ==
    /\ verdicts = [r \in Readers |-> NoVerdicts(0)]
    /\ pub = [pc |-> "idle", left |-> Datagrams, names |-> <<>>, gen |-> 0,
              admitted |-> <<>>]

Refreshed(v) == IF v.gen # generation THEN NoVerdicts(generation) ELSE v

-----------------------------------------------------------------------------
(* A query's check of one identifier. *)

\* A mutation of CheckBegin: the walk starts without the look under the lock.
CheckBeginWalking(r, check, id) ==
    LET v == Refreshed(verdicts[r]) IN
    /\ look[r].pc = "idle"
    /\ verdicts' = [verdicts EXCEPT ![r] = v]
    /\ look' = IF v.of[<<check, id>>] = "unknown"
               THEN [look EXCEPT ![r] = [Begun(id) EXCEPT !.pc = "walk"]] ELSE look
    /\ UNCHANGED <<registry, generation, healthy, resolved, watch, pending>>

\* A verdict at hand is used; otherwise the identifier is resolved.
CheckBegin(r, check, id) ==
    LET v == Refreshed(verdicts[r]) IN
    /\ look[r].pc = "idle"
    /\ verdicts' = [verdicts EXCEPT ![r] = v]
    /\ look' = IF v.of[<<check, id>>] = "unknown"
               THEN [look EXCEPT ![r] = Begun(id)] ELSE look
    /\ UNCHANGED <<registry, generation, healthy, resolved, watch, pending>>

\* The resolution has ended; its verdict is filed.
CheckEnd(r, check) ==
    /\ look[r].pc = "done"
    /\ verdicts' = [verdicts EXCEPT ![r].of[<<check, look[r].id>>] =
                                       Verdict(look[r].found)]
    /\ look' = [look EXCEPT ![r] = Idle]
    /\ UNCHANGED <<registry, generation, healthy, resolved, watch, pending>>

-----------------------------------------------------------------------------
(* The metric thread. *)

\* A datagram arrives: the verdicts are brought up to the generation.
PubReceive ==
    /\ pub.pc = "idle"
    /\ pub.left # <<>>
    /\ pub' = [pub EXCEPT !.pc = "name", !.left = Tail(@),
                          !.names = Head(pub.left), !.admitted = <<>>]
    /\ verdicts' = [verdicts EXCEPT ![Publisher] = Refreshed(@)]
    /\ UNCHANGED cacheVars

Judged(name, verdict) ==
    [pub EXCEPT !.pc = "name", !.names = Tail(@),
                !.admitted = IF verdict = "allowed" THEN Append(@, name)
                             ELSE @]

\* A record whose name has a verdict is kept or rejected by it.
PubKnown ==
    LET known == verdicts[Publisher].of[<<"may", Head(pub.names)>>] IN
    /\ pub.pc = "name"
    /\ pub.names # <<>>
    /\ known # "unknown"
    /\ pub' = Judged(Head(pub.names), known)
    /\ UNCHANGED <<cacheVars, verdicts>>

\* The generation is read before the name is resolved.
PubCheck ==
    /\ \/ /\ pub.pc = "name"
          /\ pub.names # <<>>
          /\ verdicts[Publisher].of[<<"may", Head(pub.names)>>] = "unknown"
       \/ pub.pc = "again"
    /\ pub' = [pub EXCEPT !.pc = "check", !.gen = generation]
    /\ Resolve(Publisher, Head(pub.names))
    /\ UNCHANGED verdicts

\* A mutation of Filed: a full cache takes one more.
FiledOver(v, gen, name, verdict) ==
    LET synced == IF v.gen # gen THEN NoVerdicts(gen) ELSE v
    IN  IF Capacity = 0 THEN synced
        ELSE [synced EXCEPT !.of[<<"may", name>>] = verdict]

\* A verdict of a newer generation discards the older ones, and a full cache
\* is emptied to make room.
Filed(v, gen, name, verdict) ==
    LET synced == IF v.gen # gen THEN NoVerdicts(gen) ELSE v
        room == IF Cardinality(Known(synced)) = Capacity
                THEN NoVerdicts(gen) ELSE synced
    IN  IF Capacity = 0 THEN synced
        ELSE [room EXCEPT !.of[<<"may", name>>] = verdict]

\* A mutation of PubChecked: the verdict is filed under the generation found
\* after the check.
PubCheckedOnce ==
    LET name == Head(pub.names)
        verdict == Verdict(look[Publisher].found)
    IN
    /\ pub.pc = "check"
    /\ look[Publisher].pc = "done"
    /\ look' = [look EXCEPT ![Publisher] = Idle]
    /\ pub' = Judged(name, verdict)
    /\ verdicts' = [verdicts EXCEPT ![Publisher] =
                      Filed(@, generation, name, verdict)]
    /\ UNCHANGED <<registry, generation, healthy, resolved, watch, pending>>

\* The check counts only if the generation is still the one read before it.
PubChecked ==
    LET name == Head(pub.names)
        verdict == Verdict(look[Publisher].found)
    IN
    /\ pub.pc = "check"
    /\ look[Publisher].pc = "done"
    /\ look' = [look EXCEPT ![Publisher] = Idle]
    /\ IF generation # pub.gen
       THEN /\ pub' = [pub EXCEPT !.pc = "again"]
            /\ UNCHANGED verdicts
       ELSE /\ pub' = Judged(name, verdict)
            /\ verdicts' = [verdicts EXCEPT ![Publisher] =
                              Filed(@, pub.gen, name, verdict)]
    /\ UNCHANGED <<registry, generation, healthy, resolved, watch, pending>>

\* A registry that cannot be read rejects the whole datagram.
PubError ==
    /\ pub.pc = "check"
    /\ look[Publisher].pc = "error"
    /\ look' = [look EXCEPT ![Publisher] = Idle]
    /\ pub' = [pub EXCEPT !.pc = "idle", !.names = <<>>, !.admitted = <<>>]
    /\ UNCHANGED <<registry, generation, healthy, resolved, watch, pending,
                   verdicts>>

\* The datagram's admitted records go on to the batch.
PubAdmit ==
    /\ pub.pc = "name"
    /\ pub.names = <<>>
    /\ pub' = [pub EXCEPT !.pc = "idle", !.admitted = <<>>]
    /\ UNCHANGED <<cacheVars, verdicts>>

PubStep ==
    PubReceive \/ PubKnown \/ PubCheck \/ PubChecked \/ PubError \/ PubAdmit

=============================================================================
