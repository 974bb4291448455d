--------------------------- MODULE MCEventIngest ---------------------------
(***************************************************************************)
(* Small instances of the event path.  CPUs and shards are numbered, as in *)
(* the code, so that the shards of a CPU are the ones routing assigns.     *)
(***************************************************************************)
EXTENDS EventIngest, Routing, TLC

MCFaults == {"start", "crash", "drop", "resize", "ring", "refuse", "corrupt",
             "fatal", "retain"}

MCShardOrder ==
    [c \in Cpus |-> AssignedShards(c, Cardinality(Cpus), Cardinality(Shards))]

MCShardSeq == [i \in 1..Cardinality(Shards) |-> i - 1]

ThreeEach == [c \in Cpus |-> 3]
\* Two events on one CPU, one more than its ring holds; the other CPU has none.
TwoFirst == [c \in Cpus |-> IF c = 0 THEN 2 ELSE 0]

NoFaults == [f \in MCFaults |-> 0]

\* A crash and a restart with a structural drop; or two ring replacements in
\* one run of the process, and a ring that cannot be read.
RecoveryBudgets ==
    {("start" :> 2 @@ "crash" :> 1 @@ "drop" :> 1) @@ NoFaults,
     ("start" :> 1 @@ "resize" :> 2 @@ "ring" :> 1) @@ NoFaults}

\* Transactions refused and databases found corrupt, and writers lost: around a
\* crash and a restart, and with retention at work.
StorageBudgets ==
    {("start" :> 2 @@ "crash" :> 1 @@ "refuse" :> 1 @@ "corrupt" :> 1)
        @@ NoFaults,
     ("start" :> 2 @@ "crash" :> 1 @@ "fatal" :> 1) @@ NoFaults,
     ("start" :> 1 @@ "retain" :> 1 @@ "corrupt" :> 1) @@ NoFaults,
     ("start" :> 1 @@ "retain" :> 1 @@ "refuse" :> 1 @@ "fatal" :> 1)
        @@ NoFaults}

\* All of them, each a run of its own from the initial state on.
IngestBudgets == RecoveryBudgets \cup StorageBudgets

\* A writer may be lost while drains, retention and the supervisor wait for it;
\* or the rings are replaced, with retention taking room in the queue.
ProgressBudgets ==
    {("start" :> 1 @@ "fatal" :> 1 @@ "retain" :> 1) @@ NoFaults,
     ("start" :> 1 @@ "resize" :> 1 @@ "retain" :> 1) @@ NoFaults}

CrashBudgets == {("start" :> 2 @@ "crash" :> 1) @@ NoFaults}

ReservedSecond == {<<0, 2>>}
=============================================================================
