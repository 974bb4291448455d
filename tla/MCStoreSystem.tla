--------------------------- MODULE MCStoreSystem ---------------------------
EXTENDS StoreSystem

\* Scenarios. Quiet does nothing; the others each turn on one kind of trouble.
Rec(uid, key, type, at) == [uid |-> uid, key |-> key, type |-> type, at |-> at, ok |-> TRUE]
Bad == [uid |-> 99, key |-> "k", type |-> "gauge", at |-> 9, ok |-> FALSE]
Sends(logs, metrics) == [log |-> logs, metric |-> metrics]
Noisy(logs, metrics) == [log |-> logs, metric |-> metrics]
Quiet == [send |-> Sends(<<>>, <<>>), noise |-> Noisy(FALSE, FALSE),
          queries |-> 0, health |-> 0, refuse |-> 0, corrupt |-> 0, fatal |-> 0,
          reload |-> 0, stop |-> FALSE, events |-> 0, rows |-> {}, flaky |-> FALSE,
          eventMax |-> 0, passes |-> 0, forever |-> FALSE]

Logs3 == << <<Rec(1, "a", "log", 1), Bad, Rec(2, "b", "log", 5)>>, <<Rec(3, "a", "log", 1)>> >>
Metrics3 == << <<Rec(1, "k", "gauge", 3), Rec(2, "m", "gauge", 1)>>, <<Rec(3, "k", "gauge", 2)>> >>
Mixed == << <<Rec(1, "k", "gauge", 3), Rec(2, "k", "counter", 1)>>, <<Rec(3, "m", "gauge", 2)>> >>
Late == << <<Rec(1, "k", "gauge", 3)>>, <<Rec(2, "k", "gauge", 1)>>, <<Rec(3, "k", "gauge", 2)>> >>

OldRow(id, shard, boot, at) == [id |-> id, shard |-> shard, boot |-> boot, at |-> at]
History == {OldRow(1, "h", "first", 4), OldRow(2, "a", "second", 5),
            OldRow(3, "h", "second", 3), OldRow(4, "h", "first", 6)}
Fitting == {OldRow(1, "a", "second", 5), OldRow(2, "h", "first", 6)}
Recent == {OldRow(1, "h", "first", 5), OldRow(2, "a", "now", 5), OldRow(3, "a", "now", 6)}

LogRefuse == [Quiet EXCEPT !.send = Sends(Logs3, <<>>), !.refuse = 1]
LogCorruption == [Quiet EXCEPT !.send = Sends(Logs3, <<>>), !.corrupt = 1, !.passes = 1]
LogStop == [Quiet EXCEPT !.noise = Noisy(TRUE, FALSE), !.send = Sends(Logs3, <<>>), !.stop = TRUE, !.fatal = 1]
LogReload == [Quiet EXCEPT !.send = Sends(Logs3, <<>>), !.reload = 1]
MetricRefuse == [Quiet EXCEPT !.send = Sends(<<>>, Metrics3), !.refuse = 1]
MetricCorruption == [Quiet EXCEPT !.send = Sends(<<>>, Metrics3), !.corrupt = 1, !.passes = 1]
LogUpkeep == [Quiet EXCEPT !.send = Sends(<<Logs3[2]>>, <<>>), !.refuse = 1, !.passes = 1]
MetricUpkeep == [Quiet EXCEPT !.send = Sends(<<>>, <<Metrics3[2]>>), !.refuse = 1, !.passes = 1]
MetricTypes == [Quiet EXCEPT !.send = Sends(<<>>, Mixed), !.health = 1, !.passes = 1]
MetricStop == [Quiet EXCEPT !.noise = Noisy(FALSE, TRUE), !.send = Sends(<<>>, Metrics3), !.stop = TRUE, !.fatal = 1]
Rollups == [Quiet EXCEPT !.send = Sends(<<>>, Metrics3), !.queries = 2]
RollupFaults == [Quiet EXCEPT !.send = Sends(<<>>, <<Late[1], Late[2]>>), !.queries = 1, !.refuse = 1]
RollupErrors == [Quiet EXCEPT !.send = Sends(<<>>, Late), !.queries = 1, !.fatal = 1]
RollupReload == [Quiet EXCEPT !.send = Sends(<<>>, <<Late[1]>>), !.queries = 1, !.reload = 1]
Events == [Quiet EXCEPT !.rows = History, !.eventMax = 1, !.events = 1, !.passes = 1]
EventsFail == [Quiet EXCEPT !.rows = History, !.eventMax = 1, !.passes = 1, !.flaky = TRUE]
EventsTrim == [Quiet EXCEPT !.rows = Recent, !.eventMax = 1, !.passes = 1, !.flaky = TRUE]
EventsReload == [Quiet EXCEPT !.rows = Fitting \cup {OldRow(3, "a", "now", 7)}, !.eventMax = 1, !.passes = 1, !.reload = 2]
EventsFit == [Quiet EXCEPT !.rows = Fitting, !.eventMax = 1, !.events = 1, !.passes = 2]
SmallLoads == {LogUpkeep, MetricUpkeep, LogRefuse, LogCorruption, LogStop, LogReload, MetricRefuse, MetricCorruption,
               MetricTypes, MetricStop, Rollups, RollupFaults, RollupErrors, RollupReload,
               Events, EventsFail, EventsTrim, EventsReload, EventsFit}

\* For the liveness properties: the intervals never end, and neither do, in
\* most of them, the datagrams that yield nothing.
Pair(r) == << <<Rec(1, "a", r, 1), Rec(2, "b", r, 5)>> >>
Single(r) == << <<Rec(1, "a", r, 1)>> >>
LogNoise == [Quiet EXCEPT !.send = Sends(Single("log"), <<>>), !.noise = Noisy(TRUE, FALSE)]
MetricNoise == [Quiet EXCEPT !.send = Sends(<<>>, Single("gauge")), !.noise = Noisy(FALSE, TRUE)]
LogPasses == [Quiet EXCEPT !.send = Sends(Pair("log"), <<>>), !.forever = TRUE, !.flaky = TRUE]
MetricPasses == [Quiet EXCEPT !.send = Sends(<<>>, Pair("gauge")), !.forever = TRUE, !.flaky = TRUE]
LogStops == [LogNoise EXCEPT !.stop = TRUE]
MetricStops == [MetricNoise EXCEPT !.stop = TRUE]
LogFails == [Quiet EXCEPT !.send = Sends(Pair("log"), <<>>), !.passes = 1, !.fatal = 1]
MetricFails == [Quiet EXCEPT !.send = Sends(<<>>, Pair("gauge")), !.passes = 1, !.fatal = 1]
ProgressLoads == {LogNoise, MetricNoise, LogPasses, MetricPasses, LogStops, MetricStops,
                  LogFails, MetricFails}

OneShard == <<"a">>
TwoShards == <<"a", "h">>
OneArrival == {"a"}
OneWindow == {2}
=============================================================================
