--------------------------- MODULE BoundedChannel ---------------------------
(***************************************************************************)
(* What a handoff queue promises to its users.  A claim takes the next     *)
(* place in line while there is room.  A granted claim is published or     *)
(* cancelled by its owner, any other claim is only ever cancelled; the     *)
(* consumer takes places in claim order and receives exactly the published *)
(* ones.  A closed channel grants nothing more, and reports itself drained *)
(* only when no granted claim is left.                                     *)
(***************************************************************************)
EXTENDS ChannelOps

CONSTANTS Producers, Capacity, Items, NoItem

VARIABLES
    chan,       \* claimed places, oldest first
    granted,    \* producers that hold a granted claim
    received,   \* items the consumer has received, oldest first
    shut,       \* the channel is closed
    drained     \* the consumer has been told so

channelVars == <<chan, granted, received, shut, drained>>

Init ==
    /\ chan = <<>> /\ granted = {} /\ received = <<>>
    /\ shut = FALSE /\ drained = FALSE

Take(p) ==
    /\ Len(chan) < Capacity
    /\ ~Holds(chan, p)
    /\ chan' = Claim(chan, p, NoItem)
    /\ UNCHANGED <<granted, received, shut, drained>>

Grant(p) ==
    /\ ~shut
    /\ Holds(chan, p)
    /\ granted' = granted \cup {p}
    /\ UNCHANGED <<chan, received, shut, drained>>

\* The holder will not publish after all.
Renounce(p) ==
    /\ granted' = granted \ {p}
    /\ UNCHANGED <<chan, received, shut, drained>>

Put(p) ==
    /\ p \in granted
    /\ Holds(chan, p)
    /\ \E v \in Items : chan' = Publish(chan, p, v)
    /\ granted' = granted \ {p}
    /\ UNCHANGED <<received, shut, drained>>

Abandon(p) ==
    /\ p \notin granted
    /\ Holds(chan, p)
    /\ chan' = Cancel(chan, p, NoItem)
    /\ UNCHANGED <<granted, received, shut, drained>>

Receive ==
    /\ HeadIs(chan, Published)
    /\ ~drained
    /\ received' = Append(received, HeadMsg(chan))
    /\ chan' = Tail(chan)
    /\ UNCHANGED <<granted, shut, drained>>

Pass ==
    /\ HeadIs(chan, Cancelled)
    /\ ~drained
    /\ chan' = Tail(chan)
    /\ UNCHANGED <<granted, received, shut, drained>>

Close ==
    /\ shut' = TRUE
    /\ UNCHANGED <<chan, granted, received, drained>>

ReportDrained ==
    /\ shut /\ chan = <<>>
    /\ drained' = TRUE
    /\ UNCHANGED <<chan, granted, received, shut>>

Next ==
    \/ \E p \in Producers : Take(p) \/ Grant(p) \/ Renounce(p) \/ Put(p) \/ Abandon(p)
    \/ Receive \/ Pass \/ Close \/ ReportDrained

Spec == Init /\ [][Next]_channelVars
=============================================================================
