----------------------------- MODULE QueueMonitor -----------------------------
(***************************************************************************)
(* The readers of the work lists: the metrics exporter, which refreshes    *)
(* its gauges in a loop, and the gateway's /debug/queues and               *)
(* /debug/autoscaling, whose requests share the gateway's gauges.  A       *)
(* reader sees a lane by one LRANGE and computes when the reply returns,   *)
(* while gateways and workers go on changing the lists and Redis may fail. *)
(* Readers share nothing across processes, so the exporter and the debug   *)
(* requests may be looked at one deployment at a time.                     *)
(***************************************************************************)
EXTENDS Autoscaling, SequencesExt

CONSTANTS
    Workloads,    \* the lanes in the order they are inspected
    Entry,        \* what may be in a list: work items and what is no item
    EntryLane,    \* [Entry -> lane]
    TokenCount,   \* [Entry -> Nat]
    Garbage,      \* the entries that are no EmbeddingWorkItem
    ScanLimit,    \* queue_inspection_max_items
    Settings,     \* the settings a deployment may have, [lane -> settings]
    Exporter,     \* metrics exporter processes
    Request,      \* requests to the gateway's debug endpoints
    Endpoint,     \* [Request -> {"queues", "autoscaling"}]
    Deployments,  \* sets of readers of which one is there
    MaxTime,      \* bound of the clock
    Skew,         \* how far the clocks of two machines may differ
    Gateway, Nil

Lane == Range(Workloads)
Reader == Exporter \cup Request
Registry == Exporter \cup {Gateway}
Time == 0 .. MaxTime + Skew

ASSUME MonitorAssumption ==
    /\ Workloads \in Seq(Lane) /\ Workloads # <<>>
    /\ IsFiniteSet(Entry) /\ Garbage \subseteq Entry
    /\ EntryLane \in [Entry -> Lane] /\ TokenCount \in [Entry -> Nat]
    /\ Settings \subseteq [Lane -> LaneSettings]
    /\ Exporter \cap Request = {} /\ Gateway \notin Exporter
    /\ Endpoint \in [Request -> {"queues", "autoscaling"}]
    /\ Deployments \subseteq SUBSET Reader
    /\ {ScanLimit, MaxTime, Skew} \subseteq Nat

\* What a queue gauge and an autoscaling gauge may show.
QueueGauges == [items : Nat, backlog : Nat, oldest : Nat, by : Reader]
ScalingGauges ==
    [of : [backlog : Nat, replicas : Int, drain : [num : Nat, den : Nat]], by : Reader]

\* None is no moment and no gauge.
ASSUME NilAssumption == Nil \notin Nat /\ Nil \notin QueueGauges /\ Nil \notin ScalingGauges

VARIABLES
    list,         \* [Lane -> Seq(Entry)]: the work lists in Redis
    created,      \* [Entry -> Time or Nil]: created_at_ms, Nil before it is sent
    now,          \* the readers' clock
    redis,        \* "up" or "down"
    settings,     \* [Lane -> settings], read once
    present,      \* the readers there are, one of Deployments
    reader,       \* [Reader -> [step, at, raw, stats]]
    answer,       \* [Request -> {"none", "ok", "unavailable", "error"}]
    gauge         \* [Registry -> [Lane -> [queue, scaling]]]

monitorVars == <<list, created, now, redis, settings, present, reader, answer, gauge>>

\* step   idle, list (about to send an LRANGE), reply (it is executed), or
\*        close (both lanes are collected, the connection is being closed);
\* at     the lane being inspected;   raw    the reply;
\* stats  the lanes collected so far.
Idle == [step |-> "idle", at |-> 1, raw |-> <<>>, stats |-> <<>>]

MonitorInit ==
    /\ list = [l \in Lane |-> <<>>]
    /\ created = [e \in Entry |-> Nil]
    /\ now = 0
    /\ redis = "up"
    /\ settings \in Settings
    /\ present \in Deployments
    /\ reader = [x \in Reader |-> Idle]
    /\ answer = [r \in Request |-> "none"]
    /\ gauge = [p \in Registry |-> [l \in Lane |-> [queue |-> Nil, scaling |-> Nil]]]

----------------------------------------------------------------------------
(* inspect_embedding_queue *)

\* list_embedding_work_raw: LRANGE 0 max(0, limit - 1), which is one entry at least.
Scanned(l) == SubSeq(list[l], 1, AtMost(Len(list[l]), AtLeast(1, ScanLimit)))

\* Mutant: the age of an item from a clock ahead is negative.
AgeUnguarded(times, t) == IF times = {} THEN 0 ELSE t - Min(times)

\* The age of the oldest of the items created at the given times.
OldestAge(times, t) == IF times = {} THEN 0 ELSE AtLeast(0, t - Min(times))

Stats(raw) ==
    LET valid == {k \in DOMAIN raw : raw[k] \notin Garbage}
    IN  [items |-> Len(raw),
         backlog |-> SumFunctionOnSet([k \in DOMAIN raw |-> TokenCount[raw[k]]], valid),
         oldest |-> OldestAge({created[raw[k]] : k \in valid}, now),
         malformed |-> Len(raw) - Cardinality(valid)]

\* What a registry shows of a lane: the gauges and, for the reader's sake, who set
\* them (_set_queue_metrics; the autoscaling gauges).
QueueGauge(x, s) == [items |-> s.items, backlog |-> s.backlog, oldest |-> s.oldest, by |-> x]

ScalingGauge(x, s, l) == [of |-> Recommendation(s.backlog, settings[l]), by |-> x]

Current(x) == Workloads[reader[x].at]

----------------------------------------------------------------------------
(* Steps of any reader *)

\* The ping is answered.
Begin(x) ==
    /\ x \in present
    /\ reader[x].step = "idle"
    /\ x \in Request => answer[x] = "none"
    /\ redis = "up"
    /\ reader' = [reader EXCEPT ![x].step = "list"]
    /\ UNCHANGED <<list, created, now, redis, settings, present, answer, gauge>>

\* Redis executes the LRANGE.
Scan(x) ==
    /\ reader[x].step = "list"
    /\ redis = "up"
    /\ reader' = [reader EXCEPT ![x].step = "reply", ![x].raw = Scanned(Current(x))]
    /\ UNCHANGED <<list, created, now, redis, settings, present, answer, gauge>>

\* The next lane, or what follows the last one.
NextLane(x, last) ==
    IF reader[x].at < Len(Workloads)
    THEN [reader[x] EXCEPT !.step = "list", !.at = @ + 1, !.raw = <<>>]
    ELSE last

----------------------------------------------------------------------------
(* metrics_exporter.py *)

\* The reply returns: the lane's queue gauges are set, then its autoscaling gauges.
\* Settings that recommend_replicas rejects end the refresh in between.
RefreshLane(x) ==
    /\ reader[x].step = "reply"
    /\ LET l == Current(x)
           s == Stats(reader[x].raw)
           queueSet == [gauge EXCEPT ![x][l].queue = QueueGauge(x, s)]
       IN  IF Accepted(settings[l])
           THEN /\ gauge' = [queueSet EXCEPT ![x][l].scaling = ScalingGauge(x, s, l)]
                /\ reader' = [reader EXCEPT ![x] = NextLane(x, Idle)]
           ELSE /\ gauge' = queueSet
                /\ reader' = [reader EXCEPT ![x] = Idle]
    /\ UNCHANGED <<list, created, now, redis, settings, present, answer>>

\* Mutant: the loop does not catch what a refresh raises.
RefreshFailsForGood(x) ==
    /\ redis = "down"
    /\ reader[x].step \in {"list", "reply"}
    /\ reader' = [reader EXCEPT ![x].step = "close"]
    /\ UNCHANGED <<list, created, now, redis, settings, present, answer, gauge>>

\* A command raises: the refresh is abandoned, the gauges stay as they are, and the
\* loop sleeps until the next one.
RefreshFails(x) ==
    /\ redis = "down"
    /\ reader[x].step \in {"list", "reply"}
    /\ reader' = [reader EXCEPT ![x] = Idle]
    /\ UNCHANGED <<list, created, now, redis, settings, present, answer, gauge>>

----------------------------------------------------------------------------
(* The debug endpoints of main.py *)

\* Mutant: a lane's gauges are set as soon as it is collected.
CollectAndShow(r) ==
    LET s == Stats(reader[r].raw)
        stats == Append(reader[r].stats, s)
        collected == [reader[r] EXCEPT !.step = "close", !.raw = <<>>]
    IN  /\ reader[r].step = "reply"
        /\ reader' = [reader EXCEPT ![r] = [NextLane(r, collected) EXCEPT !.stats = stats]]
        /\ gauge' = [gauge EXCEPT ![Gateway][Current(r)].queue = QueueGauge(r, s)]
        /\ UNCHANGED <<list, created, now, redis, settings, present, answer>>

\* _collect_queue_stats: the reply returns; after the last lane, close.
Collect(r) ==
    LET stats == Append(reader[r].stats, Stats(reader[r].raw))
        collected == [reader[r] EXCEPT !.step = "close", !.raw = <<>>]
    IN  /\ reader[r].step = "reply"
        /\ reader' = [reader EXCEPT ![r] = [NextLane(r, collected) EXCEPT !.stats = stats]]
        /\ UNCHANGED <<list, created, now, redis, settings, present, answer, gauge>>

\* A command raises: 503.
CollectFails(r) ==
    /\ redis = "down"
    /\ r \in present
    /\ answer[r] = "none"
    /\ reader[r].step \in {"idle", "list", "reply"}
    /\ reader' = [reader EXCEPT ![r] = Idle]
    /\ answer' = [answer EXCEPT ![r] = "unavailable"]
    /\ UNCHANGED <<list, created, now, redis, settings, present, gauge>>

Finish(r, reply) ==
    /\ reader[r].step = "close"
    /\ reader' = [reader EXCEPT ![r] = Idle]
    /\ answer' = [answer EXCEPT ![r] = reply]
    /\ UNCHANGED <<list, created, now, redis, settings, present>>

\* The gateway's gauges with the queue gauges set from the stats of r.
WithQueues(r) ==
    [gauge EXCEPT ![Gateway] =
        [l \in Lane |->
            LET k == CHOOSE j \in DOMAIN Workloads : Workloads[j] = l
            IN  [@[l] EXCEPT !.queue = QueueGauge(r, reader[r].stats[k])]]]

\* The same with the autoscaling gauges as well.
WithRecommendations(r) ==
    [gauge EXCEPT ![Gateway] =
        [l \in Lane |->
            LET k == CHOOSE j \in DOMAIN Workloads : Workloads[j] = l
                s == reader[r].stats[k]
            IN  [queue |-> QueueGauge(r, s), scaling |-> ScalingGauge(r, s, l)]]]

AllAccepted == \A l \in Lane : Accepted(settings[l])

DebugQueues(r) ==
    /\ Endpoint[r] = "queues"
    /\ Finish(r, "ok")
    /\ gauge' = WithQueues(r)

\* Mutant: the queue gauges are set before the recommendations are computed.
DebugAutoscalingEager(r) ==
    /\ Endpoint[r] = "autoscaling"
    /\ IF AllAccepted
       THEN Finish(r, "ok") /\ gauge' = WithRecommendations(r)
       ELSE Finish(r, "error") /\ gauge' = WithQueues(r)

\* Both recommendations are computed before any gauge is set; if one raises, 500.
DebugAutoscaling(r) ==
    /\ Endpoint[r] = "autoscaling"
    /\ IF AllAccepted
       THEN Finish(r, "ok") /\ gauge' = WithRecommendations(r)
       ELSE Finish(r, "error") /\ UNCHANGED gauge

----------------------------------------------------------------------------
(* The rest of the system *)

\* A gateway enqueues an item, stamped by its own clock, or something else pushes
\* what is no item and has no stamp.
Push(e) ==
    /\ redis = "up"
    /\ created[e] = Nil
    /\ \E t \in AtLeast(0, now - Skew) .. now + Skew :
          /\ e \in Garbage => t = now
          /\ created' = [created EXCEPT ![e] = IF e \in Garbage THEN 0 ELSE t]
    /\ list' = [list EXCEPT ![EntryLane[e]] = Append(@, e)]
    /\ UNCHANGED <<now, redis, settings, present, reader, answer, gauge>>

\* A worker claims a prefix of a lane.
Claim(l) ==
    /\ redis = "up"
    /\ \E n \in DOMAIN list[l] :
          list' = [list EXCEPT ![l] = SubSeq(@, n + 1, Len(@))]
    /\ UNCHANGED <<created, now, redis, settings, present, reader, answer, gauge>>

Tick ==
    /\ now < MaxTime
    /\ now' = now + 1
    /\ UNCHANGED <<list, created, redis, settings, present, reader, answer, gauge>>

RedisFlips ==
    /\ redis' = IF redis = "up" THEN "down" ELSE "up"
    /\ UNCHANGED <<list, created, now, settings, present, reader, answer, gauge>>

----------------------------------------------------------------------------
ExporterStep(x) == Begin(x) \/ Scan(x) \/ RefreshLane(x)

RequestStep(r) == Begin(r) \/ Scan(r) \/ Collect(r) \/ DebugQueues(r) \/ DebugAutoscaling(r)

MonitorNext ==
    \/ \E x \in Exporter : ExporterStep(x) \/ RefreshFails(x)
    \/ \E r \in Request : RequestStep(r) \/ CollectFails(r)
    \/ \E e \in Entry : Push(e)
    \/ \E l \in Lane : Claim(l)
    \/ Tick
    \/ RedisFlips

MonitorSpec == MonitorInit /\ [][MonitorNext]_monitorVars

\* The exporter's loop goes on as long as Redis answers.
MonitorFairSpec == MonitorSpec /\ \A x \in Exporter : WF_monitorVars(ExporterStep(x))

----------------------------------------------------------------------------
MonitorTypeOK ==
    LET lists == UNION {[1 .. n -> Entry] : n \in 0 .. Cardinality(Entry)}
    IN  /\ list \in [Lane -> lists]
        /\ created \in [Entry -> Time \cup {Nil}]
        /\ now \in 0 .. MaxTime
        /\ redis \in {"up", "down"}
        /\ settings \in Settings /\ present \in Deployments
        /\ \A x \in Reader :
              /\ reader[x].step \in {"idle", "list", "reply", "close"}
              /\ reader[x].at \in DOMAIN Workloads
              /\ reader[x].raw \in lists
        /\ answer \in [Request -> {"none", "ok", "unavailable", "error"}]
        /\ \A p \in Registry, l \in Lane :
              /\ gauge[p][l].queue \in QueueGauges \cup {Nil}
              /\ gauge[p][l].scaling \in ScalingGauges \cup {Nil}

\* The gateway's gauges of its two lanes never mix two debug requests, however
\* these overlap: one request set all queue gauges, one all autoscaling gauges,
\* and if it is the same, each recommendation is for the backlog shown beside it.
GatewayGaugesOfOneRequest ==
    \A l, m \in Lane :
        LET a == gauge[Gateway][l]
            b == gauge[Gateway][m]
        IN  /\ a.queue = Nil <=> b.queue = Nil
            /\ a.scaling = Nil <=> b.scaling = Nil
            /\ a.queue # Nil => a.queue.by = b.queue.by
            /\ a.scaling # Nil =>
                  /\ a.scaling.by = b.scaling.by
                  /\ a.scaling.by = a.queue.by => a.scaling.of.backlog = a.queue.backlog

\* A debug request that is answered with an error leaves no trace in the gauges.
ErrorsSetNothing ==
    \A r \in Request, l \in Lane :
        answer[r] \in {"unavailable", "error"} =>
            /\ gauge[Gateway][l].queue # Nil => gauge[Gateway][l].queue.by # r
            /\ gauge[Gateway][l].scaling # Nil => gauge[Gateway][l].scaling.by # r

\* x shows what is in the k-th lane, as far as the limit lets it see (of a list that
\* is not empty it always sees the head): how many entries, the tokens and the age
\* of the work items among them, and the recommendation for that backlog.
ShowsLane(x, k) ==
    LET l == Workloads[k]
        g == gauge[x][l]
        seen == {j \in DOMAIN list[l] : j = 1 \/ j <= ScanLimit}
        items == {j \in seen : list[l][j] \notin Garbage}
        age(j) == now - created[list[l][j]]
    IN  /\ g.queue # Nil
        /\ g.queue.items = Cardinality(seen)
        /\ g.queue.backlog = MapThenSumSet(LAMBDA j : TokenCount[list[l][j]], items)
        /\ \A j \in items : age(j) <= g.queue.oldest
        /\ g.queue.oldest = 0 \/ \E j \in items : age(j) = g.queue.oldest
        /\ Accepted(settings[l]) => /\ g.scaling # Nil
                                    /\ g.scaling.of = Recommendation(g.queue.backlog, settings[l])

\* The lists, the clock and Redis come to rest.
Calm == <>[](redis = "up") /\ <>[][FALSE]_<<list, now>>

\* Once the lists come to rest and Redis stays up, the exporter's gauges reach what
\* is in the lists and the recommendation for it, whatever refreshes failed
\* before.  A lane whose settings are rejected keeps the lanes after it from this.
GaugesConverge ==
    Calm => \A x \in Exporter, k \in DOMAIN Workloads :
                <>[]((/\ x \in present
                      /\ \A j \in 1 .. (k - 1) : Accepted(settings[Workloads[j]]))
                        => ShowsLane(x, k))

=============================================================================
