---------------------------- MODULE ChannelOps ----------------------------
(***************************************************************************)
(* The handoff channel of one shard as a value: the sequence of its        *)
(* occupied slots, oldest first (eventd-core/src/queue.rs).  A slot is     *)
(* claimed by a producer when it reserves, and stays in claim order: the   *)
(* consumer reaches it only when it is the head, whatever is published     *)
(* behind it.  The claiming producer settles the slot once, by publishing  *)
(* a message or by dropping its permit, which cancels the slot.            *)
(*                                                                         *)
(* These operators are what both the abstract channel (BoundedChannel) and *)
(* the ingestion pipeline (EventIngest) are written in.                    *)
(***************************************************************************)
EXTENDS Naturals, Sequences

Reserved  == "reserved"
Published == "published"
Cancelled == "cancelled"

Entry(owners, messages) ==
    [owner : owners, state : {Reserved, Published, Cancelled}, msg : messages]

\* Inner::try_reserve: the slot at the tail now belongs to p.
Claim(q, p, blank) ==
    Append(q, [owner |-> p, state |-> Reserved, msg |-> blank])

HeldAt(q, p, i) == q[i].owner = p /\ q[i].state = Reserved

Holds(q, p) == \E i \in DOMAIN q : HeldAt(q, p, i)

Settle(q, p, st, m) ==
    [i \in DOMAIN q |->
        IF HeldAt(q, p, i)
        THEN [owner |-> p, state |-> st, msg |-> m]
        ELSE q[i]]

\* Permit::publish and Permit::drop.
Publish(q, p, m) == Settle(q, p, Published, m)
Cancel(q, p, blank) == Settle(q, p, Cancelled, blank)

\* reserve(..).publish(m), with nothing between the two.
Send(q, p, m) == Append(q, [owner |-> p, state |-> Published, msg |-> m])

\* What Inner::pop finds at the head.
HeadIs(q, st) == q # <<>> /\ Head(q).state = st
HeadMsg(q) == Head(q).msg
===========================================================================
