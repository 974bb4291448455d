----------------------------- MODULE QueryStores -----------------------------
(***************************************************************************)
(* The stores as a query sees them: rows under the identifiers SQLite      *)
(* gives them, the catalogue of event types or log origins, and the signal *)
(* that tells waiting streams of a commit (src/eventd-core/src/shard.rs,   *)
(* src/eventd-core/src/log_store.rs, src/eventd/src/commit_signal.rs).     *)
(*                                                                         *)
(* A row's identifier is one above the highest in its table, so a table    *)
(* that retention has emptied starts again at 1.  A row of a type the      *)
(* writer does not know to be catalogued brings its catalogue entry in the *)
(* same transaction; the writer tells of the commit afterwards.            *)
(***************************************************************************)
EXTENDS Listings

CONSTANTS Stores,    \* the event shards and the log store
          SourceOf,  \* "events" or "logs", for each store
          Types      \* event types and log origins

VARIABLES rows,     \* each store's rows, by identifier ascending
          catalog,  \* each store's catalogued types
          known,    \* the types a writer holds as catalogued
          orphans,  \* the types retention's deletes have touched
          unsaid,   \* the stores whose last commit is not yet told of
          signal,   \* each source's commit generation
          born,     \* rows stored so far
          given     \* the highest identifier each store ever gave out

storeVars == <<rows, catalog, known, orphans, unsaid, signal, born, given>>

Sources == {"events", "logs"}

StoresInit ==
    /\ rows = [s \in Stores |-> <<>>]
    /\ catalog = [s \in Stores |-> {}]
    /\ known = [s \in Stores |-> {}]
    /\ orphans = [s \in Stores |-> {}]
    /\ unsaid = {}
    /\ signal = [x \in Sources |-> 0]
    /\ born = 0
    /\ given = [s \in Stores |-> 0]

Highest(s) == IF rows[s] = <<>> THEN 0 ELSE Last(rows[s]).id

StoredTypes(s) == {rows[s][i].type : i \in 1..Len(rows[s])}

\* One transaction of a writer: a row of type t.  "after" holds the queries
\* whose evaluation time its timestamp does not precede; "again" says that
\* its identifier has been given out before.
StoreRow(s, t, after) ==
    LET row == [id |-> Highest(s) + 1, type |-> t, uid |-> born, store |-> s,
                after |-> after, again |-> Highest(s) < given[s]]
    IN
    /\ s \notin unsaid
    /\ rows' = [rows EXCEPT ![s] = Append(@, row)]
    /\ catalog' = [catalog EXCEPT ![s] = IF t \in known[s] THEN @
                                         ELSE @ \union {t}]
    /\ known' = [known EXCEPT ![s] = @ \union {t}]
    /\ unsaid' = unsaid \union {s}
    /\ born' = born + 1
    /\ given' = [given EXCEPT ![s] = IF @ < row.id THEN row.id ELSE @]
    /\ UNCHANGED <<orphans, signal>>

\* The writer tells of its commit.
Committed(s) ==
    /\ s \in unsaid
    /\ unsaid' = unsaid \ {s}
    /\ signal' = [signal EXCEPT ![SourceOf[s]] = @ + 1]
    /\ UNCHANGED <<rows, catalog, known, orphans, born, given>>

\* Retention deletes a store's oldest row: the oldest by its timestamp, which
\* may stand anywhere in the order of identifiers.  Only a shard keeps the
\* types it touched: the log store's catalogue is never pruned.
DeleteOldest(s, i) ==
    /\ s \notin unsaid
    /\ rows' = [rows EXCEPT ![s] = RemoveAt(@, i)]
    /\ orphans' = [orphans EXCEPT ![s] = IF SourceOf[s] = "events"
                                         THEN @ \union {rows[s][i].type}
                                         ELSE @]
    /\ UNCHANGED <<catalog, known, unsaid, signal, born, given>>

\* The types left without an event leave the catalogue, and with it what the
\* writer holds as catalogued.
RemoveOrphanTypes(s) ==
    LET gone == orphans[s] \ StoredTypes(s) IN
    /\ s \notin unsaid
    /\ orphans[s] # {}
    /\ catalog' = [catalog EXCEPT ![s] = @ \ gone]
    /\ known' = [known EXCEPT ![s] = @ \ gone]
    /\ orphans' = [orphans EXCEPT ![s] = {}]
    /\ UNCHANGED <<rows, unsaid, signal, born, given>>

\* The rows of a store between two cursors, as one read of it finds them.
Between(s, lower, upper) ==
    {row \in Range(rows[s]) : lower < row.id /\ row.id <= upper}

=============================================================================
