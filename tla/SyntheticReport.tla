--------------------------- MODULE SyntheticReport ---------------------------
(***************************************************************************)
(* Events about the daemon itself: each is offered to the shards in order  *)
(* until one stores it, by the supervisor directly or, for the store       *)
(* threads, by a reporter's worker that is waited for when the reporter is *)
(* dropped (src/eventd/src/pipeline.rs, writer.rs,                         *)
(* src/eventd-core/src/shard.rs).                                          *)
(*                                                                         *)
(* A writer answers one message at a time; what it meets in its store is   *)
(* any outcome, the faults as often as the budget allows.  It ends only by *)
(* a failure.  A queue is its slots in order, each held or published; the  *)
(* wait for room is HandoffQueue's.                                        *)
(***************************************************************************)
EXTENDS Integers, Sequences, FiniteSets, FiniteSetsExt, SequencesExt, TLC

CONSTANTS Writers,      \* the number of shards
          Reports,      \* events that the reporter's owner reports, at most
          StoreFaults   \* how many commits meet a fault, at most

ASSUME CountsAssumption == Writers \in Nat /\ Reports \in Nat

VARIABLES mailbox,      \* each shard's queue: who holds or published a message in it
          writer,       \* each writer: running, ended, draining its queue, gone
          rows,         \* the events stored in each shard, in order
          offer,        \* each sender's attempt: the event, the shard, the reply
          backlog,      \* events sent to the worker
          worker,       \* none, running or joined
          owner,        \* the reporter's owner: working, dropping, gone
          reported,     \* how many events were reported
          fate,         \* what became of each event
          storeFaults,  \* faults still to come
          denied,       \* <<event, shard>>: stored there, and answered with an error
          lost          \* events that were in a shard when it was replaced

shardVars == <<rows, denied, lost>>
reporterVars == <<backlog, worker, owner, reported>>
syntheticVars == <<mailbox, writer, offer, fate, storeFaults, shardVars, reporterVars>>

Shards == 1..Writers
Main == 0                       \* the event that the supervisor commits itself
Events == Main..Reports
Senders == {"supervisor", "worker"}
Idle == [event |-> -1, shard |-> 0, reply |-> "none"]

SyntheticBegin(writers, budget) ==
    /\ mailbox = [s \in Shards |-> <<>>]
    /\ writer = [s \in Shards |-> IF writers THEN "running" ELSE "gone"]
    /\ rows = [s \in Shards |-> <<>>]
    /\ offer = [x \in Senders |-> Idle]
    /\ backlog = <<>> /\ worker = "none" /\ owner = IF writers THEN "working" ELSE "gone"
    /\ reported = 0
    /\ fate = [e \in Events |-> "none"]
    /\ storeFaults = budget
    /\ denied = {} /\ lost = {}

SyntheticInit == SyntheticBegin(TRUE, StoreFaults)
SyntheticIdle == SyntheticBegin(FALSE, 0)

(***************************************************************************)
(* commit_synthetic_fallback                                               *)
(***************************************************************************)
StartOffer(x, e) == [offer EXCEPT ![x] = [event |-> e, shard |-> 0, reply |-> "refused"]]

\* reserve() fails once the queue is closed.
Open(s) == writer[s] \in {"running", "ended"}

\* A permit of the next shard's queue; a closed one is passed over.
OfferNext(x) ==
    /\ offer[x].reply = "refused"
    /\ LET next == offer[x].shard + 1
       IN  IF next > Writers
           THEN /\ fate' = [fate EXCEPT ![offer[x].event] = "logged"]
                /\ offer' = [offer EXCEPT ![x] = Idle]
                /\ UNCHANGED mailbox
           ELSE /\ offer' = [offer EXCEPT ![x].shard = next,
                                          ![x].reply = IF Open(next) THEN "held" ELSE "refused"]
                /\ mailbox' = IF Open(next) THEN [mailbox EXCEPT ![next] = Append(@, x)] ELSE mailbox
                /\ UNCHANGED fate
    /\ UNCHANGED <<writer, storeFaults, shardVars, reporterVars>>

\* The message is published in the slot reserved for it.
PublishSynthetic(x) ==
    /\ offer[x].reply = "held"
    /\ offer' = [offer EXCEPT ![x].reply = "waiting"]
    /\ UNCHANGED <<mailbox, writer, fate, storeFaults, shardVars, reporterVars>>

\* Mutation: the offer goes on after a shard stored the event.
AcceptedGoesOn(x) ==
    /\ offer[x].reply = "ok"
    /\ offer' = [offer EXCEPT ![x].reply = "refused"]
    /\ UNCHANGED <<mailbox, writer, fate, storeFaults, shardVars, reporterVars>>

Accepted(x) ==
    /\ offer[x].reply = "ok"
    /\ fate' = [fate EXCEPT ![offer[x].event] = "stored"]
    /\ offer' = [offer EXCEPT ![x] = Idle]
    /\ UNCHANGED <<mailbox, writer, storeFaults, shardVars, reporterVars>>

\* The message was dropped without an answer: the reply channel is closed.
Disconnected(x) ==
    /\ offer[x].reply = "waiting"
    /\ x \notin ToSet(mailbox[offer[x].shard])
    /\ offer' = [offer EXCEPT ![x].reply = "refused"]
    /\ UNCHANGED <<mailbox, writer, fate, storeFaults, shardVars, reporterVars>>

(***************************************************************************)
(* handle_synthetic, with what commit_synthetic meets.                     *)
(***************************************************************************)
Offered(s) == offer[Head(mailbox[s])].event

Answer(s, reply) ==
    /\ mailbox' = [mailbox EXCEPT ![s] = Tail(@)]
    /\ offer' = [offer EXCEPT ![Head(mailbox[s])].reply = reply]

Fault == storeFaults > 0 /\ storeFaults' = storeFaults - 1

Ends(s) == writer' = [writer EXCEPT ![s] = "ended"]

\* The writer has a published message; one still held keeps it waiting.
Published(s) == mailbox[s] # <<>> /\ offer[Head(mailbox[s])].reply = "waiting"

Handling(s) == writer[s] = "running" /\ Published(s)

\* recover_corruption, replace_corrupt: the shard starts again, empty.
Old(s, replaced) == IF replaced THEN <<>> ELSE rows[s]

\* The shard has the rows q, after it was replaced or not.
Leave(s, replaced, q) ==
    /\ rows' = [rows EXCEPT ![s] = q]
    /\ lost' = IF replaced THEN lost \union ToSet(rows[s]) ELSE lost

\* Stored, in the shard or after corruption in its replacement.
CommitSynthetic(s) ==
    /\ Handling(s)
    /\ \E replaced \in BOOLEAN :
         /\ IF replaced THEN Fault ELSE UNCHANGED storeFaults
         /\ Leave(s, replaced, Append(Old(s, replaced), Offered(s)))
    /\ Answer(s, "ok")
    /\ UNCHANGED <<writer, denied, fate, reporterVars>>

\* An error is answered.  The commit may have failed, or the checkpoint after it.
Refuse(s) ==
    \E replaced \in BOOLEAN :
        /\ \/ Leave(s, replaced, Old(s, replaced)) /\ UNCHANGED denied
           \/ /\ Leave(s, replaced, Append(Old(s, replaced), Offered(s)))
              /\ denied' = denied \union {<<Offered(s), s>>}
        /\ Answer(s, "refused")

\* Mutation: a full shard does not say so.
CommitCapacitySilent(s) ==
    /\ Handling(s) /\ Fault
    /\ Answer(s, "ok")
    /\ UNCHANGED <<writer, fate, shardVars, reporterVars>>

\* The disk is full.
CommitCapacity(s) ==
    /\ Handling(s) /\ Fault
    /\ Refuse(s)
    /\ UNCHANGED <<writer, fate, reporterVars>>

\* Any other failure is answered and ends the writer.
CommitFails(s) ==
    /\ Handling(s) /\ Fault
    /\ Refuse(s) /\ Ends(s)
    /\ UNCHANGED <<fate, reporterVars>>

\* The recovery from corruption fails: the writer ends without an answer.
RecoveryFails(s) ==
    /\ Handling(s) /\ Fault
    /\ \E replaced \in BOOLEAN : Leave(s, replaced, Old(s, replaced))
    /\ mailbox' = [mailbox EXCEPT ![s] = Tail(@)]
    /\ Ends(s)
    /\ UNCHANGED <<offer, denied, fate, reporterVars>>

\* Another message of the queue meets corruption, or ends the writer.
ElsewhereFails(s) ==
    /\ writer[s] = "running" /\ Fault
    /\ \/ Leave(s, TRUE, <<>>) /\ UNCHANGED writer
       \/ Ends(s) /\ UNCHANGED <<rows, lost>>
    /\ UNCHANGED <<mailbox, offer, denied, fate, reporterVars>>

(***************************************************************************)
(* WriterExit                                                              *)
(***************************************************************************)
\* A writer that ended closes its queue.
WriterClose(s) ==
    /\ writer[s] = "ended"
    /\ writer' = [writer EXCEPT ![s] = "draining"]
    /\ UNCHANGED <<mailbox, offer, fate, storeFaults, shardVars, reporterVars>>

\* pop_wait, until the queue is empty; the messages are dropped.
WriterDrain(s) ==
    /\ writer[s] = "draining" /\ Published(s)
    /\ mailbox' = [mailbox EXCEPT ![s] = Tail(@)]
    /\ UNCHANGED <<writer, offer, fate, storeFaults, shardVars, reporterVars>>

\* Mutation: the drain ends at a permit that is still held.
WriterGoneEarly(s) ==
    /\ writer[s] = "draining" /\ ~Published(s)
    /\ writer' = [writer EXCEPT ![s] = "gone"]
    /\ UNCHANGED <<mailbox, offer, fate, storeFaults, shardVars, reporterVars>>

WriterGone(s) ==
    /\ writer[s] = "draining" /\ mailbox[s] = <<>>
    /\ writer' = [writer EXCEPT ![s] = "gone"]
    /\ UNCHANGED <<mailbox, offer, fate, storeFaults, shardVars, reporterVars>>

(***************************************************************************)
(* SyntheticReporter and the supervisor.                                   *)
(***************************************************************************)
SuperviseCommit ==
    /\ owner # "gone"
    /\ fate[Main] = "none" /\ offer["supervisor"] = Idle
    /\ offer' = StartOffer("supervisor", Main)
    /\ UNCHANGED <<mailbox, writer, fate, storeFaults, shardVars, reporterVars>>

\* The worker is started for the first event; without one the event is logged.
Report ==
    /\ owner = "working" /\ reported < Reports
    /\ reported' = reported + 1
    /\ \/ /\ worker' = "running"
          /\ backlog' = Append(backlog, reported')
          /\ UNCHANGED fate
       \/ /\ worker = "none"
          /\ fate' = [fate EXCEPT ![reported'] = "logged"]
          /\ UNCHANGED <<worker, backlog>>
    /\ UNCHANGED <<mailbox, writer, offer, owner, storeFaults, shardVars>>

TakeReport ==
    /\ worker = "running" /\ backlog # <<>> /\ offer["worker"] = Idle
    /\ offer' = StartOffer("worker", Head(backlog))
    /\ backlog' = Tail(backlog)
    /\ UNCHANGED <<mailbox, writer, worker, owner, reported, fate, storeFaults, shardVars>>

\* Drop closes the channel and waits; the worker ends when it has sent all.
DropReporter ==
    /\ owner = "working"
    /\ owner' = "dropping"
    /\ UNCHANGED <<mailbox, writer, offer, backlog, worker, reported, fate, storeFaults, shardVars>>

\* Mutation: the worker is not waited for.
JoinNot ==
    /\ owner = "dropping"
    /\ owner' = "gone"
    /\ UNCHANGED <<mailbox, writer, offer, backlog, worker, reported, fate, storeFaults, shardVars>>

Join ==
    /\ owner = "dropping"
    /\ worker = "running" => backlog = <<>> /\ offer["worker"] = Idle
    /\ owner' = "gone"
    /\ worker' = "joined"
    /\ UNCHANGED <<mailbox, writer, offer, backlog, reported, fate, storeFaults, shardVars>>

SyntheticNext ==
    \/ \E x \in Senders : OfferNext(x) \/ PublishSynthetic(x) \/ Accepted(x) \/ Disconnected(x)
    \/ \E s \in Shards : \/ CommitSynthetic(s) \/ CommitCapacity(s) \/ CommitFails(s)
                         \/ RecoveryFails(s) \/ ElsewhereFails(s)
                         \/ WriterClose(s) \/ WriterDrain(s) \/ WriterGone(s)
    \/ SuperviseCommit \/ Report \/ TakeReport \/ DropReporter \/ Join

SyntheticSpec == SyntheticInit /\ [][SyntheticNext]_syntheticVars

(***************************************************************************)
(* Properties                                                              *)
(***************************************************************************)
\* Where an event is stored, but for the shards d that denied it.
Kept(r, d, e) ==
    UNION {{s} \X {i \in DOMAIN r[s] : r[s][i] = e} : s \in {t \in Shards : <<e, t>> \notin d}}

Copies(e) == Cardinality(Kept(rows, denied, e))

\* ONE RECORD FOR ONE OCCURRENCE.  However many shards were tried, whoever else
\* is committing and whichever way the commits fail, an event is stored once in
\* the shards that did not deny it: one counted as stored is there, until its
\* shard is replaced for corruption, and one logged as lost is not.  A shard that
\* answers with an error may have stored it all the same, when the checkpoint
\* after the commit fails, and then the next shard stores it again (pipeline.rs,
\* commit_synthetic_fallback; writer.rs, handle_synthetic; shard.rs,
\* commit_synthetic).
FateTrue ==
    \A e \in Events :
        /\ Copies(e) <= 1
        /\ fate[e] = "stored" => Copies(e) = 1 \/ e \in lost
        /\ fate[e] = "logged" => Copies(e) = 0

\* NO ONE IS LEFT WAITING.  Whoever waits for a reply has their message with a
\* writer that has yet to answer it or to drop it on its way out, or else the
\* reply channel is closed and they go on to the next shard: also one who held a
\* permit when the writer closed its queue, and published afterwards.  And when
\* the reporter is gone every event reported to it has been stored or logged
\* (writer.rs, WriterExit; pipeline.rs, SyntheticReporter::drop).
WaitersAnswered ==
    /\ \A x \in Senders : offer[x].reply = "waiting" =>
           LET s == offer[x].shard
           IN  IF x \in ToSet(mailbox[s]) THEN writer[s] # "gone" ELSE writer[s] # "running"
    /\ owner = "gone" => \A e \in 1..reported : fate[e] # "none"

(***************************************************************************)
(* The inductive invariant.  An event is with one sender at a time, who    *)
(* has one slot at most; until its sender has a yes, the event is in no    *)
(* shard, or in one that denied it.                                        *)
(***************************************************************************)
Offers == [event : Events \union {-1}, shard : 0..Writers,
           reply : {"none", "refused", "held", "waiting", "ok"}]

SyntheticTypes ==
    /\ mailbox \in [Shards -> Seq(Senders)]
    /\ writer \in [Shards -> {"running", "ended", "draining", "gone"}]
    /\ rows \in [Shards -> Seq(Events)]
    /\ offer \in [Senders -> Offers]
    /\ backlog \in Seq(Events)
    /\ worker \in {"none", "running", "joined"}
    /\ reported \in 0..Reports
    /\ fate \in [Events -> {"none", "stored", "logged"}]

InSlot == {"held", "waiting"}

\* A sender offers an event of its own that has no fate yet.
OffersOwn ==
    \A x \in Senders : offer[x] # Idle =>
        /\ offer[x].reply # "none"
        /\ offer[x].event \in IF x = "supervisor" THEN {Main} ELSE 1..reported
        /\ fate[offer[x].event] = "none"
        /\ offer[x].reply \in InSlot => offer[x].shard \in Shards

\* A slot that is still in its queue: its writer runs, or waits for the permit.
Due(o) == o.reply = "held" \/ (o.reply = "waiting" /\ writer[o.shard] = "running")

\* A queue has one slot for each sender that has a permit or waits on it, unless
\* its writer has ended.
MailWaitedFor ==
    /\ \A s \in Shards :
          /\ mailbox[s] # <<>> => writer[s] # "gone"
          /\ IsInjective(mailbox[s])
          /\ \A x \in ToSet(mailbox[s]) : offer[x].reply \in InSlot /\ offer[x].shard = s
    /\ \A x \in Senders : Due(offer[x]) => x \in ToSet(mailbox[offer[x].shard])

RowsTrue ==
    /\ \A e \in Events :
          /\ \A p, q \in Kept(rows, denied, e) : p = q
          /\ fate[e] = "stored" => Kept(rows, denied, e) # {} \/ e \in lost
          /\ fate[e] = "logged" => Kept(rows, denied, e) = {}
          /\ fate[e] = "none" /\ (\A x \in Senders : offer[x].event # e) =>
                 Kept(rows, denied, e) = {}
    /\ \A x \in Senders :
          /\ offer[x].reply \in {"refused"} \union InSlot =>
                 Kept(rows, denied, offer[x].event) = {}
          /\ offer[x].reply = "ok" =>
                 Kept(rows, denied, offer[x].event) # {} \/ offer[x].event \in lost

\* The shards that an offer has had its answer from.
Tried(o) == IF o.reply = "refused" THEN 1..o.shard ELSE 1..(o.shard - 1)

DeniedTried ==
    \A e \in Events, s \in Shards : <<e, s>> \in denied =>
        \/ fate[e] # "none"
        \/ \E x \in Senders : offer[x].event = e /\ s \in Tried(offer[x])

\* An event that was reported has its fate, or is on its way to it.
ReportsKept ==
    /\ IsInjective(backlog)
    /\ \A e \in ToSet(backlog) :
          e \in 1..reported /\ fate[e] = "none" /\ offer["worker"].event # e
    /\ \A e \in 1..reported :
          fate[e] = "none" => offer["worker"].event = e \/ e \in ToSet(backlog)
    /\ \A e \in Events : e > reported => fate[e] = "none"
    /\ worker # "running" => backlog = <<>> /\ offer["worker"] = Idle
    /\ owner = "gone" <=> worker = "joined"

SyntheticInv ==
    /\ SyntheticTypes /\ OffersOwn /\ MailWaitedFor /\ RowsTrue /\ DeniedTried
    /\ ReportsKept
=============================================================================
