---------------------------- MODULE IngestState ----------------------------
(***************************************************************************)
(* The state that the threads of the event path share, and the per-CPU     *)
(* kernel rings they read.                                                  *)
(*                                                                         *)
(* An event is named by its key <<cpu, sequence>>; its header and payload  *)
(* are left out.  A store is the set of keys its rows describe: "rows" are *)
(* stored events, "lost" the keys that eventd.events.lost rows name,       *)
(* "receipts" the keys its receipt ranges cover.                           *)
(*                                                                         *)
(* The kernel side (KMES) is not in this repository.  A ring is the set of *)
(* sequences that survive in it.  A ring position is written as the        *)
(* sequence of the event that starts there, so the tail is the oldest      *)
(* survivor, the write position is one past the newest, and "tail_pos >    *)
(* read_position" says that the event at read_position has been            *)
(* overwritten.                                                            *)
(***************************************************************************)
EXTENDS Integers, Sequences, FiniteSets, ChannelOps

CONSTANTS
    Cpus,           \* logical CPUs, one ring and one drain thread each
    Shards,         \* active event shards, one writer each
    ShardOrder,     \* ShardOrder[c]: the shards of CPU c, in stripe order
    StripeLength,   \* handoffs sent to one shard before moving to the next
    QueueSlots,     \* capacity of a handoff queue
    MaxBatch,       \* max_batch_size
    RingCapacity,   \* events that a ring holds
    ReservedTypes,  \* keys whose event claims a type that eventd itself writes
    MaxSeq,         \* bound: MaxSeq[c] events that the kernel emits on CPU c
    Supervisor,     \* the supervising thread, as the sender of a message
    Retention,      \* the retention thread, as the sender of a message
    Faults,         \* kinds of fault that the environment may inject
    FaultBudgets    \* bound: how many of each, one choice per behaviour

Key == Cpus \X (Nat \ {0})
Owners == Cpus \cup {Supervisor, Retention}

ASSUME ConstantsAssumption ==
    /\ StripeLength \in Nat \ {0}
    /\ QueueSlots \in Nat \ {0}
    /\ MaxBatch \in Nat \ {0}
    /\ RingCapacity \in Nat \ {0}
    /\ MaxSeq \in [Cpus -> Nat]
    /\ ReservedTypes \subseteq Key
    /\ FaultBudgets \subseteq [Faults -> Nat]
    /\ Supervisor \notin Cpus
    /\ Retention \notin Cpus
    /\ Supervisor # Retention

ASSUME RoutingAssumption ==
    \A c \in Cpus : /\ ShardOrder[c] \in Seq(Shards)
                    /\ ShardOrder[c] # <<>>
                    /\ \A i, j \in DOMAIN ShardOrder[c] :
                            ShardOrder[c][i] = ShardOrder[c][j] => i = j

VARIABLES
    \* KMES, per CPU
    head,        \* last sequence assigned
    ring,        \* sequences surviving in the current ring
    stale,       \* the ring that the drain has mapped was replaced
    frozen,      \* what survives in that replaced ring
    \* durable stores, per shard
    rows, lost, receipts,
    \* history, for the properties only
    retired,     \* keys whose row retention deleted, per shard
    quarantined, \* keys that were recorded in a database since quarantined
    dropped,     \* claims that a failed writer discarded in this run
    \* handoff queues, per shard, and replies to control messages
    queue, closed, replies,
    \* drain threads, per CPU
    dpc, pos, next, last, cur, router, recovered, final, boundary, base,
    mark, note,
    \* writer threads, per shard
    wpc, batch, ctl, pending,
    \* supervisor
    phase, stopping, coverage, smark,
    budget

kernelVars == <<head, ring, stale, frozen>>
storeVars  == <<rows, lost, receipts, retired, quarantined>>
chanVars   == <<queue, closed, replies>>
drainVars  == <<dpc, pos, next, last, cur, router, recovered, final,
                boundary, base, mark, note>>
writerVars == <<wpc, batch, ctl, pending, dropped>>
superVars  == <<phase, stopping, coverage, smark>>
vars == <<kernelVars, storeVars, chanVars, drainVars, writerVars, superVars,
          budget>>

(***************************************************************************)
(* Messages of the handoff queue.  An event message stores at most one key *)
(* and reports the gap it reveals.                                          *)
(***************************************************************************)
Message == [kind : {"none", "event", "barrier", "retain"}, from : Owners,
            stores : SUBSET Key, gaps : SUBSET Key, torn : BOOLEAN]

Control(k, p) ==
    [kind |-> k, from |-> p, stores |-> {}, gaps |-> {}, torn |-> FALSE]

NoMsg == Control("none", Supervisor)

EventMsg(c, st, gs, tn) ==
    [kind |-> "event", from |-> c, stores |-> st, gaps |-> gs, torn |-> tn]

\* The keys whose fate rests with the holder of the message.
Claims(m) == m.stores \cup m.gaps
BatchClaims(b) == UNION {Claims(b[i]) : i \in DOMAIN b}
BatchStores(b) == UNION {b[i].stores : i \in DOMAIN b}
BatchGaps(b)   == UNION {b[i].gaps : i \in DOMAIN b}
QueueClaims(q) == UNION {Claims(q[i].msg) : i \in DOMAIN q}

Room(s) == Len(queue[s]) < QueueSlots

Spend(f) == /\ f \in Faults
            /\ budget[f] > 0
            /\ budget' = [budget EXCEPT ![f] = @ - 1]

(***************************************************************************)
(* The kernel.                                                             *)
(***************************************************************************)
MinOf(S) == CHOOSE x \in S : \A y \in S : x <= y
MaxOf(S) == CHOOSE x \in S : \A y \in S : y <= x

\* The ring behind the drain's mapping.
Mapped(c) == IF stale[c] THEN frozen[c] ELSE ring[c]

WritePos(c) == IF Mapped(c) = {} THEN 1 ELSE MaxOf(Mapped(c)) + 1
TailPos(c)  == IF Mapped(c) = {} THEN 1 ELSE MinOf(Mapped(c))

\* The event read from position s has been overwritten since.
Lapped(c, s) == s \notin Mapped(c)

\* An event is emitted; a full ring overwrites its oldest survivor.
Emit(c) ==
    /\ head[c] < MaxSeq[c]
    /\ head' = [head EXCEPT ![c] = @ + 1]
    /\ ring' = [ring EXCEPT ![c] =
                    (IF Cardinality(@) < RingCapacity THEN @ ELSE @ \ {MinOf(@)})
                        \cup {head[c] + 1}]
    /\ UNCHANGED <<stale, frozen, storeVars, chanVars, drainVars, writerVars,
                   superVars, budget>>

\* A sequence is consumed by an event that the kernel could not place.
StructuralDrop(c) ==
    /\ head[c] < MaxSeq[c]
    /\ Spend("drop")
    /\ head' = [head EXCEPT ![c] = @ + 1]
    /\ UNCHANGED <<ring, stale, frozen, storeVars, chanVars, drainVars,
                   writerVars, superVars>>

\* The ring is replaced.  A shrink discards oldest survivors; the newest one
\* is always carried over.  A drain that has the old ring mapped keeps it.
Resize(c) ==
    /\ Spend("resize")
    /\ \E k \in IF ring[c] = {} THEN {0} ELSE ring[c] :
           ring' = [ring EXCEPT ![c] = {n \in @ : k <= n}]
    /\ IF phase # "down" /\ ~stale[c]
       THEN /\ stale' = [stale EXCEPT ![c] = TRUE]
            /\ frozen' = [frozen EXCEPT ![c] = ring[c]]
       ELSE UNCHANGED <<stale, frozen>>
    /\ UNCHANGED <<head, storeVars, chanVars, drainVars, writerVars, superVars>>

Kernel == \E c \in Cpus : Emit(c) \/ StructuralDrop(c) \/ Resize(c)
=============================================================================
