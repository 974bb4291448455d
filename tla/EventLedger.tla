---------------------------- MODULE EventLedger ----------------------------
(***************************************************************************)
(* What the event path promises, with no threads, queues or shards: one    *)
(* ledger over all sequences.  Each assigned sequence is entered at most   *)
(* once, as stored or as lost; a receipt remembers that it was; retention  *)
(* removes entries but not receipts; and the contents of a database found  *)
(* corrupt leave the ledger together with their receipts, and are noted as *)
(* withdrawn.                                                              *)
(***************************************************************************)
EXTENDS Naturals

CONSTANT Cpus

VARIABLES
    assigned,   \* assigned[c]: the last sequence the kernel assigned on c
    stored,     \* events stored
    reported,   \* losses reported
    receipted,  \* sequences entered, and not withdrawn since
    withdrawn   \* sequences that left with a corrupt database

ledgerVars == <<assigned, stored, reported, receipted, withdrawn>>

Sequences == {k \in Cpus \X Nat : k[2] \in 1..assigned[k[1]]}

Init ==
    /\ assigned = [c \in Cpus |-> 0]
    /\ stored = {} /\ reported = {} /\ receipted = {} /\ withdrawn = {}

Assign ==
    /\ \E c \in Cpus : assigned' = [assigned EXCEPT ![c] = @ + 1]
    /\ UNCHANGED <<stored, reported, receipted, withdrawn>>

\* Enter new sequences, each one way.
Append ==
    /\ stored \subseteq stored' /\ reported \subseteq reported'
    /\ LET S == stored' \ stored
           L == reported' \ reported
       IN  /\ S \cap L = {}
           /\ (S \cup L) \cap receipted = {}
           /\ S \cup L \subseteq Sequences
           /\ receipted' = receipted \cup S \cup L
    /\ UNCHANGED <<assigned, withdrawn>>

Retain ==
    /\ stored' \subseteq stored /\ reported' \subseteq reported
    /\ UNCHANGED <<assigned, receipted, withdrawn>>

\* A set of entries and their receipts are gone.
Quarantine ==
    /\ receipted' \subseteq receipted
    /\ withdrawn \cup (receipted \ receipted') \subseteq withdrawn'
    /\ stored' = stored \cap receipted'
    /\ reported' = reported \cap receipted'
    /\ UNCHANGED assigned

Next == Assign \/ Append \/ Retain \/ Quarantine

Spec == Init /\ [][Next]_ledgerVars
=============================================================================
