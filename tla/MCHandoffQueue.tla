--------------------------- MODULE MCHandoffQueue ---------------------------
(***************************************************************************)
(* Small instances of the handoff queue.                                   *)
(***************************************************************************)
EXTENDS HandoffQueue, TLC

CONSTANTS p1, p2

Load(bytes, first, second) ==
    [capacity |-> bytes,
     calls |-> [p \in Producers |-> IF p = p1 THEN first ELSE second]]

\* Three items in all, one more than there are slots, and bytes for each.
ThreeItems == {Load(3, 2, 1)}

\* One producer, left over by one item when both slots are full; two
\* producers, with bytes for one item.
Contended == {Load(4, 3, 0), Load(1, 1, 1)}

UnitBytes == [p \in Producers |-> 1]
=============================================================================
