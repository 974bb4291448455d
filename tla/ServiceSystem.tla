---------------------------- MODULE ServiceSystem ----------------------------
(***************************************************************************)
(* The query side of eventd as one system: clients and their handlers, the *)
(* stores they read while writers commit and retention deletes, the        *)
(* descriptor cache and its watch, the metric thread's checks, the         *)
(* configuration watch, the index policy and the shard writers it steers,  *)
(* and the supervisor that stops them (src/eventd/src/pipeline.rs).        *)
(*                                                                         *)
(* A scene fixes what the clients ask and how often each event outside     *)
(* eventd's hands may happen; "watcher", "configurer" and "indexer" say    *)
(* whether these threads are ever scheduled, and "interval" whether the    *)
(* policy's interval ever ends.                                            *)
(***************************************************************************)
EXTENDS QueryServer

CONSTANTS Scenes

\* Who asks what.
ASSUME ScenesAssumption ==
    \A scene \in Scenes :
        scene.plan \in [Conns -> [user : Callers,
                                  kind : {"none", "newest", "sorted", "stream",
                                          "distinct", "index"},
                                  source : Sources, fields : SUBSET Fields]]

VARIABLES supply,    \* how many rows of each type each store has yet to take
          untouched  \* no descriptor has changed and no watch failed so far

vars == <<plan, serverVars, storeVars, cacheVars, authVars, policyVars,
          writerVars, configVars, stopping, budget, supply, untouched>>

\* What each kind of step leaves alone.
rest == <<plan, supply, untouched>>
indexRest == <<rest, policyVars, writerVars, configVars>>
cacheRest == <<registry, generation, healthy, resolved, watch, pending>>

Init ==
    \E scene \in Scenes :
        /\ plan = scene.plan
        /\ budget = scene.budget
        /\ supply = scene.supply
        /\ registry \in scene.registries
        /\ CacheInit
        /\ AuthInit
        /\ StoresInit
        /\ stored \in scene.contents
        /\ ConfigInit
        /\ PolicyInit(scene.counts, scene.desired)
        /\ ServerInit
        /\ stopping = FALSE
        /\ untouched = TRUE

Scheduled(thread) == budget[thread] > 0

-----------------------------------------------------------------------------
(* Handlers and the listener. *)

\* Steps that change nothing outside the server.
ServerStep(c) ==
    /\ \/ Accept(c) \/ Release(c) \/ Exit(c) \/ Identify(c)
       \/ CaptureCursor(c) \/ Scan(c) \/ RowsVisited(c)
       \/ Emit(c) \/ EmitBatch(c) \/ Wake(c) \/ WatchEnds(c)
    /\ UNCHANGED <<indexRest, storeVars, cacheVars, authVars, stopping, budget>>

ListenerStep ==
    /\ StopListening \/ ListenerEnds
    /\ UNCHANGED <<indexRest, storeVars, cacheVars, authVars, stopping, budget>>

FaultStep(c) ==
    /\ SpawnFails(c) \/ HandlerFails(c)
    /\ UNCHANGED <<indexRest, storeVars, cacheVars, authVars, stopping>>

Arrive(c) ==
    /\ plan[c].kind # "none"
    /\ Knock(c)
    /\ UNCHANGED <<indexRest, storeVars, cacheVars, authVars, stopping, budget>>

\* Steps of a query that check access.
AccessStep(c) ==
    /\ \/ /\ Begin(c) \/ Discover(c) \/ AuthorizeEnds(c)
          /\ UNCHANGED cacheVars
       \/ AuthorizeNext(c) \/ Authorized(c)
       \/ VisitRow(c) \/ Visited(c)
       \/ /\ AuthorizeFails(c) \/ RequestIndex(c) \/ Administered(c)
          /\ UNCHANGED verdicts
    /\ UNCHANGED <<indexRest, storeVars, pub, stopping, budget>>

\* Steps that count a query, or ask for an index.
CountStep(c) ==
    /\ \/ Request(c) /\ UNCHANGED policyq
       \/ PrioritizeField(c)
       \/ OfferRecompute(c)
    /\ UNCHANGED <<rest, desired, saved, policy, writerVars, configVars,
                   storeVars, cacheVars, authVars, stopping, budget>>

HandlerStep(c) == ServerStep(c) \/ AccessStep(c) \/ CountStep(c)

-----------------------------------------------------------------------------
(* The stores, the descriptors and the metric thread. *)

\* A writer commits a row.  A row committed once a query has begun may be
\* stamped before or after its evaluation time.
RowStored(s) ==
    /\ \E t \in Types, after \in SUBSET {c \in Conns : conn[c].evaluated} :
         /\ supply[s][t] > 0
         /\ supply' = [supply EXCEPT ![s][t] = @ - 1]
         /\ StoreRow(s, t, after)
    /\ UNCHANGED <<plan, untouched, policyVars, writerVars, configVars,
                   serverVars, cacheVars, authVars, stopping, budget>>

CommitTold(s) ==
    /\ Committed(s)
    /\ UNCHANGED <<indexRest, serverVars, cacheVars, authVars, stopping, budget>>

RetentionStep(s) ==
    /\ \/ Spend("delete") /\ \E i \in 1..Len(rows[s]) : DeleteOldest(s, i)
       \/ RemoveOrphanTypes(s) /\ UNCHANGED budget
    /\ UNCHANGED <<indexRest, serverVars, cacheVars, authVars, stopping>>

DescriptorStep ==
    /\ Scheduled("watcher")
    /\ WatchStep \/ (stopping /\ WatchStop)
    /\ UNCHANGED <<indexRest, serverVars, storeVars, authVars, stopping, budget>>

ResolutionStep(r) ==
    /\ ResolveStep(r)
    /\ UNCHANGED <<indexRest, serverVars, storeVars, authVars, stopping, budget>>

WatchFault ==
    /\ Spend("watch")
    /\ WatchError
    /\ untouched' = FALSE
    /\ UNCHANGED <<plan, supply, policyVars, writerVars, configVars, serverVars,
                   storeVars, authVars, stopping>>

DescriptorWritten(p, v) ==
    /\ Spend("registry")
    /\ RegistryChange(p, v)
    /\ untouched' = FALSE
    /\ UNCHANGED <<plan, supply, policyVars, writerVars, configVars, serverVars,
                   storeVars, authVars, stopping>>

PublisherStep ==
    /\ Scheduled("publisher")
    /\ PubStep
    /\ UNCHANGED <<indexRest, serverVars, storeVars, stopping, budget>>

-----------------------------------------------------------------------------
(* Configuration, index policy and writers. *)

aside == <<rest, serverVars, storeVars, cacheVars, authVars>>

ConfigStep ==
    /\ Scheduled("configurer")
    /\ \/ /\ ConfigArm \/ ConfigRead \/ ConfigPublish \/ ConfigPoll
             \/ ConfigRearm \/ ConfigStop
          /\ UNCHANGED <<policyVars, writerVars>>
       \/ ConfigTell
    /\ UNCHANGED aside

ConfigFault ==
    /\ ConfigUnreadable \/ ConfigDegrade \/ ConfigRearmFails \/ ConfigSignal
       \/ \E values \in Contents : ConfigWrite(values)
    /\ UNCHANGED <<aside, policyVars, writerVars>>

IndexStep ==
    /\ Scheduled("indexer")
    /\ PolicyStep
    /\ UNCHANGED aside

ShardStep(w) == WriterStep(w) /\ UNCHANGED aside

Calm(w) == Quiet(w) /\ UNCHANGED aside

Pressure ==
    /\ \/ \E f \in Fields : WindowEnds(f)
       \/ \E w \in WriterSet, size \in {"small", "large", "full"} :
            EventsQueued(w, size)
    /\ UNCHANGED aside

-----------------------------------------------------------------------------
(* The supervisor. *)

others == <<rest, serverVars, storeVars, cacheVars, authVars, writerVars,
            configVars, counts, elapsed, desired, saved, policy>>

\* Asked to stop.
StopAsked ==
    /\ ~stopping
    /\ Spend("stop")
    /\ stopping' = TRUE
    /\ UNCHANGED <<others, policyq>>

\* A thread of its own accord has ended: eventd ends with it.
ThreadEnded ==
    /\ ~stopping
    /\ server = "failed" \/ policy.pc = "failed"
    /\ stopping' = TRUE
    /\ UNCHANGED <<others, policyq, budget>>

\* A mutation of StopPolicy: the listener is not joined first.
StopPolicyEarly ==
    /\ stopping
    /\ policy.pc \notin {"stopped", "failed"}
    /\ ~policy.final
    /\ policyq = <<>>
    /\ policyq' = <<"stop">>
    /\ UNCHANGED <<others, stopping, budget>>

\* With the listener and both watches joined, the policy thread is told.
StopPolicy ==
    /\ stopping
    /\ server \in {"stopped", "failed"}
    /\ watch = "stopped"
    /\ cwatch.pc = "stopped"
    /\ policy.pc \notin {"stopped", "failed"}
    /\ ~policy.final
    /\ policyq = <<>>
    /\ policyq' = <<"stop">>
    /\ UNCHANGED <<others, stopping, budget>>

SupervisorStep == ThreadEnded \/ StopPolicy

Next ==
    \/ \E c \in Conns : Arrive(c) \/ HandlerStep(c) \/ FaultStep(c)
    \/ ListenerStep
    \/ \E s \in Stores : RowStored(s) \/ CommitTold(s) \/ RetentionStep(s)
    \/ DescriptorStep \/ WatchFault
    \/ \E r \in Readers : ResolutionStep(r)
    \/ \E p \in Patterns, v \in Values : DescriptorWritten(p, v)
    \/ PublisherStep
    \/ ConfigStep \/ ConfigFault
    \/ IndexStep \/ Pressure
    \/ \E w \in WriterSet : ShardStep(w) \/ Calm(w)
    \/ StopAsked \/ SupervisorStep

\* Every thread of eventd that can run does, in time; clients, faults,
\* retention and whoever writes to the registry need not.
Fairness ==
    /\ \A c \in Conns : WF_vars(HandlerStep(c))
    /\ \A r \in Readers : WF_vars(ResolutionStep(r))
    /\ WF_vars(ListenerStep)
    /\ \A s \in Stores : WF_vars(CommitTold(s))
    /\ WF_vars(DescriptorStep)
    /\ WF_vars(PublisherStep)
    /\ WF_vars(ConfigStep)
    /\ WF_vars(IndexStep)
    /\ \A w \in WriterSet : WF_vars(ShardStep(w)) /\ WF_vars(Calm(w))
    /\ WF_vars(SupervisorStep)

Spec == Init /\ [][Next]_vars /\ Fairness

-----------------------------------------------------------------------------
(* What the system promises. *)

Handlers == {c \in Conns : conn[c].pc \in Handling}

\* Every slot taken belongs to a handler that is there, and no bound is
\* passed: whichever way a handler ends, it gives back what it took and nothing
\* twice, and a listener that stopped in order has no handler left
\* (query/mod.rs, run, CounterGuard and UserSlot).
SlotsGiven ==
    /\ active = Cardinality(Handlers)
    /\ active <= MaxActive
    /\ streams = Cardinality({c \in Handlers : conn[c].stream})
    /\ streams <= MaxStreams
    /\ \A u \in Users :
         /\ users[u] = Cardinality({c \in Handlers : conn[c].slot /\ plan[c].user = u})
         /\ users[u] <= MaxPerUser
    /\ held <= HeldLimit
    /\ server = "stopped" => Handlers = {}

\* The memory counted is what the handlers have gathered (executor.rs, Held).
MemoryExact == held = SumFunction([c \in Conns |-> Len(conn[c].kept)])

\* Slots and memory are given back exactly, and their bounds kept.
SlotsExact == SlotsGiven /\ MemoryExact

\* A stream that waits having seen every commit told of.
AtRest(c) ==
    /\ conn[c].pc = "watch"
    /\ conn[c].observed = signal[plan[c].source]
    /\ unsaid \intersect Range(StoresOf(c)) = {}

Sent(c, row) ==
    IF plan[c].kind = "distinct" THEN row.type \in TypesIn(conn[c].sent)
    ELSE row \in Range(conn[c].sent)

\* The rows a stream must have delivered: the caller may read them, and they
\* were not stamped after its evaluation time yet stored before its cursor
\* was captured.
Owed(c) ==
    {row \in UNION {Range(rows[s]) : s \in Range(StoresOf(c))} :
        /\ Verdict(Resolution(registry, row.type)) = "allowed"
        /\ ~(c \in row.after /\ row.id <= conn[c].first[row.store])}

\* A stream at rest has delivered every row it owes, however its captures,
\* reads and checks fell among the commits, unless the row's identifier had
\* been used before (executor.rs, start_stream and stream_next;
\* query/mod.rs, handle_as; commit_signal.rs).
NoneSkipped ==
    untouched =>
        \A c \in Conns : AtRest(c) =>
            \A row \in Owed(c) : row.again \/ Sent(c, row)

\* The same of every row, one stored under an identifier that a deletion had
\* freed included, which is what the reference manual says of newly visible
\* records.
StreamsComplete ==
    untouched =>
        \A c \in Conns : AtRest(c) => \A row \in Owed(c) : Sent(c, row)

\* No row reaches a client twice, and a distinct stream repeats no value:
\* what the initial result held the watch leaves out.
NoDuplicates ==
    \A c \in Conns :
        \A i, j \in 1..Len(conn[c].sent) : i < j =>
            /\ conn[c].sent[i].uid # conn[c].sent[j].uid
            /\ plan[c].kind = "distinct" =>
                 conn[c].sent[i].type # conn[c].sent[j].type

\* While watching, each store's rows are delivered in the order they were
\* stored (executor.rs, order_result_rows).
WatchOrder ==
    \A c \in Conns :
        \A i, j \in 1..Len(conn[c].watched) :
            i < j /\ conn[c].watched[i].store = conn[c].watched[j].store =>
                conn[c].watched[i].uid < conn[c].watched[j].uid

\* A stream delivers what it owes, once, and each store's rows in order.
StreamsExact == NoneSkipped /\ NoDuplicates /\ WatchOrder

\* A verdict of the current generation is what the registry now says, once
\* the watch has told of every change: no thread goes on using a right that
\* was taken away.  The metric thread's verdicts keep to their bound as well
\* (executor.rs, AuthorizationCache; write_security.rs, authorize_name_with).
VerdictsCurrent ==
    /\ watch = "poll" /\ ~pending =>
           \A r \in Readers : verdicts[r].gen = generation =>
               \A x \in Known(verdicts[r]) :
                   verdicts[r].of[x] = Verdict(Resolution(registry, x[2]))
    /\ Cardinality(Known(verdicts[Publisher])) <= Capacity

\* Waiting with nothing to be told, the configuration watch has in force all
\* that can be had of what the registry holds, unless the last reload could
\* not read it; and the drop threshold is below the create threshold in the
\* configuration and in every run of the policy, whatever was written one key at
\* a time (config.rs, ConfigWatch::run, apply_reload and reload; indexing.rs,
\* run).
ConfigCurrent ==
    /\ cwatch.pc = "poll" /\ ~notified /\ ~unread =>
           AppliedChanges(conf, Reload(conf, stored)) = {}
    /\ conf.force[Drop] < conf.force[Create]
    /\ policy.pc = "run" => policy.drop < policy.create

\* When the policy thread has stopped after the listener, the database holds
\* every count the queries left (indexing.rs, the final run; pipeline.rs,
\* supervise's order).
StopFlushed ==
    policy.pc = "stopped" /\ server = "stopped" =>
        saved.counts = counts /\ saved.desired = desired

-----------------------------------------------------------------------------
(* What must come about. *)

\* A connection that is accepted ends or becomes a stream that waits, and a
\* stream comes to rest again after every commit, or ends (query/mod.rs,
\* handle_as; commit_signal.rs).
QueriesServed ==
    \A c \in Conns :
        /\ conn[c].pc = "identify" ~> conn[c].pc \in {"watch", "gone"}
        /\ conn[c].pc = "watch" ~> AtRest(c) \/ conn[c].pc = "gone"

\* Once eventd is stopping the listener ends, both watches end, and the
\* policy thread makes its last run.
StopCompletes == stopping ~> policy.pc \in {"stopped", "failed"}

Thresholds == {FromValues(v).force[Create] : v \in {w \in Contents : Loadable(w)}}

\* A threshold that came into force is used in a run of the policy without
\* waiting for its interval; and an INDEX command makes its field desired at
\* once, unless a higher threshold comes into force first or the field's window
\* ends (config.rs, apply_reload; query/mod.rs, handle_as; indexing.rs, run).
PolicyResponds ==
    \A n \in Thresholds :
        /\ cwatch.pc = "tell" /\ conf.force[Create] = n ~>
               policy.create = n \/ conf.force[Create] # n \/ stopping
        /\ \A c \in Conns, f \in Fields \ Uncounted :
               conn[c].pc = "offer" /\ f \in plan[c].fields /\ conf.force[Create] = n ~>
                   \/ f \in Range(desired)
                   \/ conf.force[Create] > n \/ f \in elapsed \/ stopping

\* Desired sets on their way to a writer, or in its hands.
OnTheWay(w) ==
    Len(SelectSeq(wq[w], LAMBDA m : m.kind = "policy"))
    + IF writer[w].pc = "converge" THEN 1 ELSE 0

Converged == \A w \in WriterSet : material[w] = Wanted(desired)

\* Once no more than one desired set is on its way to each writer, the shards
\* come to have the desired indexes and keep them.
IndexesConverge ==
    <>[](\A w \in WriterSet : OnTheWay(w) <= 1) => <>[]Converged


(***************************************************************************)
(* THE INDUCTIVE INVARIANTS.                                               *)
(*                                                                         *)
(* SlotsExact, VerdictsCurrent, ConfigCurrent and StopFlushed are none by  *)
(* themselves.                                                             *)
(* What carries them: every list a handler works through holds stores      *)
(* while it reads and types while it checks (Sound); an answer that a      *)
(* reader has in hand is true if the generation it will be filed under is  *)
(* still the present one (AnswersTrue); a slot taken has its handler       *)
(* (Placed); a policy thread on its last run was told so by a supervisor   *)
(* that had joined the listener (LastRun); and a configuration about to be *)
(* published is what the registry still says, unless the watch knows       *)
(* better (UpToDate).                                                      *)
(***************************************************************************)

-----------------------------------------------------------------------------
(* The stores and the handlers. *)

StoredRows == [id : Nat, type : Types, uid : Nat, store : Stores,
               after : SUBSET Conns, again : BOOLEAN]

StoreTypes ==
    /\ rows \in [Stores -> Seq(StoredRows)]
    /\ catalog \in [Stores -> SUBSET Types]
    /\ \A s \in Stores : IsFiniteSet(catalog[s])
    /\ born \in Nat
    /\ given \in [Stores -> Nat]

\* A handler's lists hold what the step it is about to take expects of them.
Sound(x) ==
    /\ DOMAIN x = DOMAIN Fresh
    /\ x.pc \in Handling \union {"absent", "knock", "gone"}
    /\ x.slot \in BOOLEAN /\ x.stream \in BOOLEAN
    /\ x.types \subseteq Types /\ IsFiniteSet(x.types)
    /\ x.allowed \subseteq Types
    /\ x.rows \in Seq(StoredRows) /\ x.kept \in Seq(StoredRows)
    /\ x.pc \in {"capture", "discover"} =>
           x.todo \in Seq(Stores) /\ x.todo # <<>>
    /\ x.pc \in {"scan", "visit", "visiting"} => x.todo \in Seq(Stores)
    /\ x.pc = "authorize" => x.todo \in Seq(Types)
    /\ x.pc = "authorizing" => x.todo \in Seq(Types) /\ x.todo # <<>>
    /\ x.pc = "visiting" => x.rows # <<>>

ConnSound ==
    /\ DOMAIN conn = Conns
    /\ \A c \in Conns : Sound(conn[c])

\* A handler has its slots only between the steps that take them and the one
\* that gives them back, and has dropped what it gathered before that.
Placed(c) ==
    /\ conn[c].slot => plan[c].user \in Users
    /\ conn[c].pc \notin Handling \ {"identify", "exiting"} => ~conn[c].slot
    /\ conn[c].pc \notin Handling \ {"identify", "request", "exiting"} =>
           ~conn[c].stream
    /\ conn[c].pc \in {"leaving", "exiting"} => conn[c].kept = <<>>

Slots ==
    /\ plan \in [Conns -> [user : Callers,
                           kind : {"none", "newest", "sorted", "stream",
                                   "distinct", "index"},
                           source : Sources, fields : SUBSET Fields]]
    /\ users \in [Users -> Int]
    /\ \A c \in Conns : Placed(c)
    /\ SlotsExact

-----------------------------------------------------------------------------
(* The last run of the policy. *)

LastRun ==
    /\ policyq \in {<<>>, <<"recompute">>, <<"stop">>}
    /\ DOMAIN policy = {"pc", "todo", "final", "create", "drop"}
    /\ DOMAIN saved = {"counts", "desired", "elapsed"}
    /\ policyq = <<"stop">> \/ policy.final => server \in {"stopped", "failed"}
    /\ policy.final \in BOOLEAN
    /\ policy.pc \in {"checkpoint", "stopped"} =>
           /\ policy.final
           /\ server = "stopped" => saved.counts = counts /\ saved.desired = desired

-----------------------------------------------------------------------------
(* The configuration. *)

UpToDate ==
    /\ stored \in Contents
    /\ \A x \in {conf, fresh} :
           /\ DOMAIN x.force = DOMAIN stored
           /\ x.force[Drop] < x.force[Create]
    /\ DOMAIN cwatch = {"pc", "back"}
    /\ cwatch.back \in {"poll", "degraded"}
    /\ cwatch.pc = "poll" => cwatch.back = "poll"
    /\ cwatch.back = "poll" /\ ~notified =>
           /\ cwatch.pc \in {"poll", "tell"} /\ ~unread =>
                  AppliedChanges(conf, Reload(conf, stored)) = {}
           /\ cwatch.pc = "publish" => fresh = Reload(conf, stored)
    /\ policy.pc = "run" => policy.drop < policy.create

-----------------------------------------------------------------------------
(* The verdicts. *)

VerdictSets ==
    [gen : Nat, of : [Checks \X Identifiers -> {"unknown", "allowed", "refused"}]]

VerdictTypes ==
    /\ verdicts \in [Readers -> VerdictSets]
    /\ pub \in [pc : {"idle", "name", "check", "again"},
                left : Seq(Seq(Identifiers)), names : Seq(Identifiers),
                gen : Nat, admitted : Seq(Identifiers)]

\* A handler resolves an identifier in three places only, and the metric
\* thread one name at a time.
Asking ==
    /\ \A c \in Conns : look[c].pc # "idle" =>
           conn[c].pc \in {"authorizing", "visiting", "administer"}
    /\ look[Publisher].pc # "idle" => pub.pc = "check"
    /\ pub.pc \in {"check", "again"} => pub.names # <<>>
    /\ pub.pc = "check" => look[Publisher].id = Head(pub.names)

\* A standing watch is a healthy one.
Standing == watch \in {"poll", "changed"} => healthy

\* The generation an answer in hand will be filed under.
Stamp(r) == IF r = Publisher THEN pub.gen ELSE verdicts[r].gen

Stamped ==
    /\ \A r \in Readers : verdicts[r].gen <= generation
    /\ pub.gen <= generation

AnswersTrue ==
    Told =>
        \A r \in Readers : look[r].pc = "done" /\ Stamp(r) = generation =>
            look[r].found = Resolution(registry, look[r].id)

\* What v holds is what the registry says.
Truthful(v) ==
    \A x \in Known(v) : v.of[x] = Verdict(Resolution(registry, x[2]))

FiledTrue ==
    Told =>
        \A r \in Readers : verdicts[r].gen = generation => Truthful(verdicts[r])

Bounded ==
    /\ IsFiniteSet(Known(verdicts[Publisher]))
    /\ Cardinality(Known(verdicts[Publisher])) <= Capacity

VerdictInv ==
    /\ VerdictTypes /\ Asking /\ Standing /\ Stamped
    /\ AnswersTrue /\ FiledTrue /\ Bounded
=============================================================================
