----------------------------- MODULE SmallParts -----------------------------
(***************************************************************************)
(* The parts of the daemon that work for themselves between one call and   *)
(* its return, checked together: one of them is chosen at the start and    *)
(* the others stay idle.  They share no state.                             *)
(***************************************************************************)
EXTENDS Reconcile, RecordQuery, MetricQuery, Quarantine, SyntheticReport

CONSTANTS Kinds,        \* the parts of this run
          Samples       \* values to be compared

VARIABLES kind,         \* the part chosen
          triple        \* three values to be compared

vars == <<kind, triple, reconcileVars, recordVars, metricVars, quarantineVars, syntheticVars>>

Init ==
    /\ kind \in Kinds
    /\ IF kind = "values" THEN triple \in Samples \X Samples \X Samples ELSE triple = <<>>
    /\ IF kind = "reconcile" THEN ReconcileInit ELSE ReconcileIdle
    /\ IF kind = "records" THEN RecordInit ELSE RecordIdle
    /\ IF kind = "metrics" THEN MetricInit ELSE MetricIdle
    /\ IF kind = "quarantine" THEN QuarantineInit ELSE QuarantineIdle
    /\ IF kind = "synthetic" THEN SyntheticInit ELSE SyntheticIdle

Next ==
    \/ /\ kind = "reconcile" /\ ReconcileNext
       /\ UNCHANGED <<kind, triple, recordVars, metricVars, quarantineVars, syntheticVars>>
    \/ /\ kind = "records" /\ RecordNext
       /\ UNCHANGED <<kind, triple, reconcileVars, metricVars, quarantineVars, syntheticVars>>
    \/ /\ kind = "metrics" /\ MetricNext
       /\ UNCHANGED <<kind, triple, reconcileVars, recordVars, quarantineVars, syntheticVars>>
    \/ /\ kind = "quarantine" /\ QuarantineNext
       /\ UNCHANGED <<kind, triple, reconcileVars, recordVars, metricVars, syntheticVars>>
    \/ /\ kind = "synthetic" /\ SyntheticNext
       /\ UNCHANGED <<kind, triple, reconcileVars, recordVars, metricVars, quarantineVars>>

Spec == Init /\ [][Next]_vars

-----------------------------------------------------------------------------
\* A number's exact place in halves; a NaN is after all others.
Place(a) == IF a.kind = "nan" THEN 100000 ELSE IF a.kind = "float" THEN a.v[1] ELSE 2 * a.v[1]

\* The NaNs that a value is or holds, and where, with their bits.
NaNs(a) == {<<i, Items(a, a)[i].v>> : i \in {j \in DOMAIN Items(a, a) : Items(a, a)[j].kind = "nan"}}

\* THE ORDER OF VALUES IS EXACT AND TOTAL.  Numbers of different types compare as
\* the numbers they are, without rounding; and whatever the types of three
\* values, the order is antisymmetric, transitive and refines equality, so that
\* sorting does not depend on the order of reading.  Equal values have the same
\* hash key, so that the search of a group finds its class, unless they hold NaNs
\* of different bits: those are equal, and never have the same key (value.rs,
\* language_cmp and language_equal; executor.rs, GroupKey::of).
OrderExact ==
    kind = "values" =>
        LET a == triple[1]
            b == triple[2]
            c == triple[3]
        IN  /\ IsNumber(a) /\ IsNumber(b) => NumericCmp(a, b) = Cmp(Place(a), Place(b))
            /\ LanguageCmp(a, b) = -LanguageCmp(b, a)
            /\ LanguageCmp(a, b) # 1 /\ LanguageCmp(b, c) # 1 => LanguageCmp(a, c) # 1
            /\ LanguageCmp(a, b) = 0 => LanguageEqual(a, b)
            /\ LanguageEqual(a, b) /\ LanguageEqual(b, c) => LanguageEqual(a, c)
            /\ LanguageEqual(a, b) => (GroupKey(a) = GroupKey(b) <=> NaNs(a) = NaNs(b))

=============================================================================
