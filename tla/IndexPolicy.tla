----------------------------- MODULE IndexPolicy -----------------------------
(***************************************************************************)
(* Adaptive indexing: the counters queries raise, the policy thread that   *)
(* turns them into the desired set (src/eventd/src/indexing.rs), and the   *)
(* shard writers that move their indexes toward it                         *)
(* (src/eventd/src/writer.rs, src/eventd-core/src/shard.rs).               *)
(*                                                                         *)
(* A writer's queue holds event batches and desired sets.  An event batch  *)
(* stands for the messages one commit takes and is told apart by its size  *)
(* alone, which decides whether the writer sheds indexes.  Fields are      *)
(* numbers, in the order of their paths; an index has its field's number.  *)
(***************************************************************************)
EXTENDS Configuration, Integers, Listings

CONSTANTS Fields,      \* field paths queries filter on
          Uncounted,   \* event.time and payload: never counted
          Unindexed,   \* fields no index can be built for
          Writers,     \* the shard writers, in order
          QueueCap     \* the bound on a writer's queue

ASSUME FieldsAssumption ==
    /\ Fields \subseteq Nat
    /\ Uncounted \subseteq Fields
    /\ Unindexed \subseteq Fields
    /\ QueueCap \in Nat \ {0}

VARIABLES counts,       \* queries counted for each field in its window
          elapsed,      \* the fields whose window has ended
          desired,      \* the desired set, highest priority first
          saved,        \* what the metadata database holds of these
          policyq,      \* the policy thread's channel, of one message
          policy,       \* the policy thread
          wq,           \* each writer's queue
          writer,       \* each writer: idle, or converging on a set
          wdesired,     \* the set each writer last took
          unconverged,  \* the writers that may be short of it
          busy,         \* the writers with a large batch in the window
          material      \* the indexes each shard has

policyVars == <<counts, elapsed, desired, saved, policyq, policy>>

writerVars == <<wq, writer, wdesired, unconverged, busy, material>>

WriterSet == Range(Writers)

PolicyInit(count, set) ==
    /\ counts = count
    /\ elapsed = {}
    /\ desired = set
    /\ saved = [counts |-> count, desired |-> set, elapsed |-> {}]
    /\ policyq = <<>>
    /\ policy = [pc |-> "broadcast", todo |-> Writers, final |-> FALSE,
                 create |-> 0, drop |-> 0]
    /\ wq = [w \in WriterSet |-> <<>>]
    /\ writer = [w \in WriterSet |-> [pc |-> "idle", set |-> <<>>]]
    /\ wdesired = [w \in WriterSet |-> <<>>]
    /\ unconverged = {}
    /\ busy = {}
    /\ material = [w \in WriterSet |-> Range(set) \ Unindexed]

-----------------------------------------------------------------------------
(* The counters. *)

\* The count a field has once a window that has ended is begun anew.
Rotated(f) == IF f \in elapsed THEN 0 ELSE counts[f]

RecordFields(fields, increment) ==
    LET counted == fields \ Uncounted IN
    /\ counts' = [f \in Fields |-> IF f \in counted THEN Rotated(f) + increment
                                   ELSE counts[f]]
    /\ elapsed' = elapsed \ counted

RecordQuery(fields) == RecordFields(fields, 1)

\* A mutation of Prioritize: an INDEX command counts as one query.
PrioritizeOnce(f) == RecordFields({f}, 1)

Prioritize(f) == RecordFields({f}, conf.force[Create])

\* A channel of one message keeps the message it has, and one nobody reads
\* from takes none.
Offered(q) == IF q = <<>> /\ policy.pc \notin {"stopped", "failed"}
              THEN <<"recompute">> ELSE q

WindowEnds(f) ==
    /\ f \notin elapsed
    /\ Spend("window")
    /\ elapsed' = elapsed \union {f}
    /\ saved' = [saved EXCEPT !.elapsed = @ \union {f}]
    /\ UNCHANGED <<counts, desired, policyq, policy, writerVars, configVars,
                   stopping>>

\* A mutation of ConfigTell: the policy is not asked to run.
ConfigTellNobody ==
    /\ ConfigTold
    /\ UNCHANGED <<policyVars, writerVars>>

\* An applied configuration asks for a run of the policy.
ConfigTell ==
    /\ ConfigTold
    /\ policyq' = Offered(policyq)
    /\ UNCHANGED <<counts, elapsed, desired, saved, policy, writerVars>>

-----------------------------------------------------------------------------
(* The policy thread. *)

policyOnly == <<counts, elapsed, desired, saved, writerVars, configVars,
                stopping>>

PolicyReceive ==
    /\ policy.pc = "wait"
    /\ policyq # <<>>
    /\ policyq' = Tail(policyq)
    /\ policy' = [policy EXCEPT !.pc = "read", !.final = Head(policyq) = "stop"]
    /\ UNCHANGED <<policyOnly, budget>>

\* The interval ends without a message.
PolicyTimeout ==
    /\ policy.pc = "wait"
    /\ policyq = <<>>
    /\ budget["interval"] > 0
    /\ policy' = [policy EXCEPT !.pc = "read", !.final = FALSE]
    /\ UNCHANGED <<policyOnly, policyq, budget>>

\* The thresholds are read after the wait.
PolicyRead ==
    /\ policy.pc = "read"
    /\ policy' = [policy EXCEPT !.pc = "run", !.create = conf.force[Create],
                                !.drop = conf.force[Drop]]
    /\ UNCHANGED <<policyOnly, policyq, budget>>

\* A field in the set stays while its count reaches the drop threshold; one
\* outside it needs the create threshold.
WantedFields(count, set, create, drop) ==
    {f \in Fields : IF f \in Range(set) THEN count[f] >= drop
                    ELSE count[f] >= create}

\* Highest count first, then by path.
Prioritized(fields, count) ==
    SetToSortSeq(fields, LAMBDA f, g : \/ count[f] > count[g]
                                       \/ count[f] = count[g] /\ f < g)

\* Counters and desired set are written together; then the set is in force.
Recompute ==
    LET count == [f \in Fields |-> Rotated(f)]
        set == Prioritized(WantedFields(count, desired, policy.create,
                                        policy.drop), count)
    IN
    /\ policy.pc = "run"
    /\ counts' = count
    /\ elapsed' = {}
    /\ desired' = set
    /\ saved' = [counts |-> count, desired |-> set, elapsed |-> {}]
    /\ policy' = IF policy.final THEN [policy EXCEPT !.pc = "checkpoint"]
                 ELSE [policy EXCEPT !.pc = "broadcast", !.todo = Writers]
    /\ UNCHANGED <<policyq, writerVars, configVars, stopping, budget>>

\* The database refuses: the thread ends, and eventd with it.
RecomputeFails ==
    /\ policy.pc = "run"
    /\ Spend("metadata")
    /\ counts' = [f \in Fields |-> Rotated(f)]
    /\ elapsed' = {}
    /\ policy' = [policy EXCEPT !.pc = "failed"]
    /\ UNCHANGED <<desired, saved, policyq, writerVars, configVars, stopping>>

Published(q, set) == IF Len(q) < QueueCap THEN Append(q, [kind |-> "policy", set |-> set])
                     ELSE q

\* One writer after the other is handed the set; a full queue goes without.
BroadcastDesired ==
    LET w == Head(policy.todo) IN
    /\ policy.pc = "broadcast"
    /\ policy.todo # <<>>
    /\ wq' = [wq EXCEPT ![w] = Published(@, desired)]
    /\ policy' = [policy EXCEPT !.todo = Tail(@),
                                !.pc = IF Len(policy.todo) = 1 THEN "wait" ELSE @]
    /\ UNCHANGED <<counts, elapsed, desired, saved, policyq, writer, wdesired,
                   unconverged, busy, material, configVars, stopping, budget>>

\* The last run is followed by the sequence checkpoints and the reply.
PolicyCheckpoint ==
    /\ policy.pc = "checkpoint"
    /\ policy' = [policy EXCEPT !.pc = "stopped"]
    /\ UNCHANGED <<policyOnly, policyq, budget>>

PolicyStep ==
    \/ PolicyReceive \/ PolicyTimeout \/ PolicyRead \/ Recompute
    \/ RecomputeFails \/ BroadcastDesired \/ PolicyCheckpoint

-----------------------------------------------------------------------------
(* The writers. *)

writerOnly == <<policyVars, configVars, stopping>>

\* A drain hands over events, in a batch of some size.
EventsQueued(w, size) ==
    /\ Len(wq[w]) < QueueCap
    /\ Spend("batch")
    /\ wq' = [wq EXCEPT ![w] = Append(@, [kind |-> size, set |-> <<>>])]
    /\ UNCHANGED <<writerOnly, writer, wdesired, unconverged, busy, material>>

Wanted(set) == Range(set) \ Unindexed

\* One convergence action toward a set: an unwanted index goes first, then
\* the first one missing is built, unless something arrives meanwhile.
ConvergeIndexes(w, set) ==
    LET has == material[w]
        unwanted == has \ Wanted(set)
        missing == SelectSeq(set, LAMBDA f : f \in Wanted(set) \ has)
        last == CHOOSE f \in unwanted : \A g \in unwanted : g <= f
    IN  IF unwanted # {} THEN {[has |-> has \ {last}, more |-> TRUE]}
        ELSE IF missing = <<>> THEN {[has |-> has, more |-> FALSE]}
        ELSE {[has |-> has \union {Head(missing)}, more |-> TRUE]}
             \union IF wq[w] = <<>> THEN {}
                    ELSE {[has |-> has, more |-> TRUE]}

\* A corrupt shard is replaced by an empty one; any other failure is logged.
ConvergeFaults(w) ==
    {[has |-> {}, more |-> TRUE], [has |-> material[w], more |-> FALSE]}

\* The outcomes of a convergence action, each with the budget it leaves.
ConvergeOnce(w, set) ==
    {<<o, budget>> : o \in ConvergeIndexes(w, set)}
    \union IF budget["shard"] = 0 THEN {}
           ELSE {<<o, [budget EXCEPT !["shard"] = @ - 1]>> : o \in ConvergeFaults(w)}

\* The end of handling a desired set: kept, and queued again behind what
\* came in meanwhile.
Concluded(w, set, retry) ==
    /\ writer' = [writer EXCEPT ![w] = [pc |-> "idle", set |-> <<>>]]
    /\ wdesired' = [wdesired EXCEPT ![w] = set]
    /\ IF retry THEN wq' = [wq EXCEPT ![w] = Published(@, set)] ELSE UNCHANGED wq

\* A desired set is taken with nothing behind it.
TakePolicy(w) ==
    LET message == Head(wq[w]) IN
    /\ writer[w].pc = "idle"
    /\ wq[w] # <<>>
    /\ message.kind = "policy"
    /\ Len(wq[w]) = 1
    /\ wq' = [wq EXCEPT ![w] = <<>>]
    /\ writer' = [writer EXCEPT ![w] = [pc |-> "converge", set |-> message.set]]
    /\ unconverged' = unconverged \union {w}
    /\ UNCHANGED <<writerOnly, budget, wdesired, busy, material>>

\* One with something behind it is put at the back of the queue.
DeferPolicy(w) ==
    LET message == Head(wq[w]) IN
    /\ writer[w].pc = "idle"
    /\ Len(wq[w]) > 1
    /\ message.kind = "policy"
    /\ wq' = [wq EXCEPT ![w] = Published(Tail(@), message.set)]
    /\ wdesired' = [wdesired EXCEPT ![w] = message.set]
    /\ unconverged' = unconverged \union {w}
    /\ UNCHANGED <<writerOnly, budget, writer, busy, material>>

Converge(w) ==
    LET set == writer[w].set IN
    /\ writer[w].pc = "converge"
    /\ \E o \in ConvergeOnce(w, set) :
         /\ material' = [material EXCEPT ![w] = o[1].has]
         /\ budget' = o[2]
         /\ IF ~o[1].more THEN Concluded(w, set, FALSE)
            ELSE IF wq[w] # <<>> THEN Concluded(w, set, TRUE)
            ELSE UNCHANGED <<writer, wdesired, wq>>
    /\ UNCHANGED <<writerOnly, unconverged, busy>>

\* A writer with nothing to do, and no large batch of late, takes one action.
ConvergeIdle(w) ==
    /\ writer[w].pc = "idle"
    /\ w \in unconverged \ busy
    /\ wq[w] = <<>>
    /\ \E o \in ConvergeOnce(w, wdesired[w]) :
         /\ material' = [material EXCEPT ![w] = o[1].has]
         /\ budget' = o[2]
         /\ unconverged' = IF o[1].more THEN unconverged ELSE unconverged \ {w}
    /\ UNCHANGED <<writerOnly, wq, writer, wdesired, busy>>

\* The lowest-priority index of the set that the shard has.
Lowest(w) ==
    LET held == SelectSeq(wdesired[w], LAMBDA f : f \in material[w])
    IN  IF held = <<>> THEN {} ELSE {Last(held)}

\* A mutation of CommitBatch: shed indexes are not missed.
CommitBatchBlithely(w) ==
    LET size == Head(wq[w]).kind
        large == IF size = "small" THEN busy ELSE busy \union {w}
    IN
    /\ writer[w].pc = "idle"
    /\ wq[w] # <<>>
    /\ size # "policy"
    /\ wq' = [wq EXCEPT ![w] = Tail(@)]
    /\ busy' = large
    /\ \/ size = "full" /\ material' = [material EXCEPT ![w] = {}]
       \/ w \in large /\ material' = [material EXCEPT ![w] = @ \ Lowest(w)]
       \/ UNCHANGED material
    /\ UNCHANGED <<writerOnly, budget, writer, wdesired, unconverged>>

\* A batch is committed.  A full one while a ring is close to its end sheds
\* every index; when too many have been large, one is shed.
CommitBatch(w) ==
    LET size == Head(wq[w]).kind
        large == IF size = "small" THEN busy ELSE busy \union {w}
        shed(indexes) ==
            /\ material' = [material EXCEPT ![w] = @ \ indexes]
            /\ unconverged' = IF indexes = {} THEN unconverged
                              ELSE unconverged \union {w}
    IN
    /\ writer[w].pc = "idle"
    /\ wq[w] # <<>>
    /\ size # "policy"
    /\ wq' = [wq EXCEPT ![w] = Tail(@)]
    /\ busy' = large
    /\ \/ size = "full" /\ shed(material[w])
       \/ w \in large /\ shed(Lowest(w))
       \/ UNCHANGED <<material, unconverged>>
    /\ UNCHANGED <<writerOnly, budget, writer, wdesired>>

\* The last large batch leaves the shedding window.
Quiet(w) ==
    /\ w \in busy
    /\ busy' = busy \ {w}
    /\ UNCHANGED <<writerOnly, budget, wq, writer, wdesired, unconverged, material>>

WriterStep(w) ==
    \/ TakePolicy(w) \/ DeferPolicy(w) \/ Converge(w) \/ ConvergeIdle(w)
    \/ CommitBatch(w)

=============================================================================
