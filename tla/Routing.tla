------------------------------ MODULE Routing ------------------------------
(***************************************************************************)
(* Which shards a CPU writes to (eventd-core/src/routing.rs).              *)
(***************************************************************************)
EXTENDS Integers, Sequences

\* assigned_shards: every cpus-th shard from the CPU's ordinal on; a CPU with
\* none shares one.
AssignedShards(ordinal, cpus, shards) ==
    IF ordinal < shards
    THEN [i \in 1..((shards - ordinal + cpus - 1) \div cpus) |->
             ordinal + (i - 1) * cpus]
    ELSE <<ordinal % shards>>
=============================================================================
