-------------------------- MODULE QueueMonitorProofs --------------------------
(***************************************************************************)
(* Proofs about QueueMonitor, for any number of lanes, exporters and debug *)
(* requests, any work items and settings, and both kinds of deployment at  *)
(* once: the readers share the gateway's gauges and nothing else.          *)
(***************************************************************************)
EXTENDS QueueMonitor, SequenceTheorems, FiniteSetTheorems, FunctionTheorems,
        WellFoundedInduction, TLAPS

----------------------------------------------------------------------------
(* Sums. *)

\* Every set of numbers has a least one.
LEMMA LeastOfNumbers ==
    ASSUME NEW T, T \subseteq Nat, T # {}
    PROVE  \E m \in T : \A k \in T : m <= k
<1> DEFINE R == {p \in Nat \X Nat : p[1] < p[2]}
<1>1. R = OpToRel(<, Nat)
  BY Zenon DEF OpToRel
<1>2. IsWellFoundedOn(R, Nat)
  <2> HIDE DEF R
  <2> QED BY NatLessThanWellFounded, <1>1, Zenon
<1> SUFFICES ASSUME \A m \in T : \E k \in T : k < m
             PROVE  FALSE
  OBVIOUS
<1>3. \A m \in T : \E k \in T : <<k, m>> \in R
  OBVIOUS
<1> HIDE DEF R
<1>4. \E m \in T : \A k \in T : ~ (<<k, m>> \in R)
  BY <1>2, WFMin, Zenon
<1> QED
  BY <1>3, <1>4

PickOf(s) == CHOOSE x \in s : TRUE

\* g adds up f over each of the sets in D, one element after the other.
AddsUpOver(g, f, D) ==
    g = [s \in D |-> IF s = {} THEN 0 ELSE f[PickOf(s)] + g[s \ {PickOf(s)}]]

\* A set without the element picked from it has one element less.
LEMMA PickRemoves ==
    ASSUME NEW s, IsFiniteSet(s), s # {}
    PROVE  /\ PickOf(s) \in s
           /\ IsFiniteSet(s \ {PickOf(s)})
           /\ Cardinality(s) \in Nat /\ Cardinality(s) > 0
           /\ Cardinality(s \ {PickOf(s)}) = Cardinality(s) - 1
<1>1. PickOf(s) \in s
  BY DEF PickOf
<1>2. Cardinality(s) \in Nat /\ Cardinality(s) # 0
  BY FS_CardinalityType, FS_EmptySet
<1>3. /\ IsFiniteSet(s \ {PickOf(s)})
      /\ Cardinality(s \ {PickOf(s)}) = Cardinality(s) - 1
  BY <1>1, FS_RemoveElement
<1> QED
  BY <1>1, <1>2, <1>3

\* The recursive function that a sum is defined by exists, for a finite set.  A
\* least bound on the size of the subsets without a solution would have one: the
\* solution for smaller subsets, extended by one element.
LEMMA SumExists ==
    ASSUME NEW S, IsFiniteSet(S), NEW f
    PROVE  \E g : AddsUpOver(g, f, SUBSET S)
<1> DEFINE D(n) == {s \in SUBSET S : Cardinality(s) <= n}
           Unsolved == {n \in Nat : \A g : ~ AddsUpOver(g, f, D(n))}
<1>0. \A s \in SUBSET S : IsFiniteSet(s) /\ Cardinality(s) \in Nat
  BY FS_Subset, FS_CardinalityType
<1>1. Unsolved = {}
  <2> SUFFICES ASSUME Unsolved # {} PROVE FALSE
    OBVIOUS
  <2>1. PICK m \in Unsolved : \A k \in Unsolved : m <= k
    <3>1. Unsolved \subseteq Nat
      OBVIOUS
    <3> HIDE DEF Unsolved
    <3> QED BY <3>1, LeastOfNumbers
  <2>2. CASE m = 0
    <3> DEFINE g == [s \in D(0) |-> 0]
    <3>1. \A s \in D(0) : s = {}
      BY <1>0, FS_EmptySet
    <3>2. AddsUpOver(g, f, D(0))
      BY <3>1 DEF AddsUpOver
    <3> QED BY <2>1, <2>2, <3>2
  <2>3. CASE m # 0
    <3>1. m \in Nat /\ m - 1 \in Nat /\ m - 1 \notin Unsolved
      <4>1. m \in Nat /\ m - 1 \in Nat /\ ~ (m <= m - 1)
        BY <2>3
      <4> HIDE DEF Unsolved
      <4> QED BY <2>1, <4>1
    <3>2. PICK g : AddsUpOver(g, f, D(m - 1))
      BY <3>1
    <3> DEFINE h == [s \in D(m) |-> IF Cardinality(s) = m
                                    THEN f[PickOf(s)] + g[s \ {PickOf(s)}] ELSE g[s]]
    <3>3. \A s \in D(m - 1) : s \in D(m) /\ Cardinality(s) # m
      BY <1>0, <3>1
    <3>4. \A s \in D(m) : Cardinality(s) # m => s \in D(m - 1)
      BY <1>0, <3>1
    <3>5. \A s \in D(m) : s # {} => s \ {PickOf(s)} \in D(m - 1)
      <4> SUFFICES ASSUME NEW s \in D(m), s # {} PROVE s \ {PickOf(s)} \in D(m - 1)
        OBVIOUS
      <4>1. /\ Cardinality(s) \in Nat /\ Cardinality(s) <= m
            /\ Cardinality(s \ {PickOf(s)}) = Cardinality(s) - 1
        BY <1>0, PickRemoves
      <4>2. Cardinality(s \ {PickOf(s)}) <= m - 1
        BY <3>1, <4>1
      <4> QED BY <4>2
    <3>6. Cardinality({}) = 0
      BY FS_EmptySet
    <3> HIDE DEF D
    <3>7. ASSUME NEW s \in D(m)
          PROVE  h[s] = IF s = {} THEN 0 ELSE f[PickOf(s)] + h[s \ {PickOf(s)}]
      <4>1. s # {} => h[s \ {PickOf(s)}] = g[s \ {PickOf(s)}]
        BY <3>3, <3>5
      <4>2. CASE Cardinality(s) = m
        BY <2>3, <3>6, <4>1, <4>2
      <4>3. CASE Cardinality(s) # m
        <5>1. s \in D(m - 1) /\ h[s] = g[s]
          BY <3>4, <4>3
        <5>2. g[s] = IF s = {} THEN 0 ELSE f[PickOf(s)] + g[s \ {PickOf(s)}]
          BY <3>2, <5>1, Zenon DEF AddsUpOver
        <5> QED BY <4>1, <5>1, <5>2
      <4> QED BY <4>2, <4>3
    <3>8. AddsUpOver(h, f, D(m))
      BY <3>7 DEF AddsUpOver
    <3> QED BY <2>1, <3>8
  <2> QED BY <2>2, <2>3
<1>2. D(Cardinality(S)) = SUBSET S
  <2>1. \A s \in SUBSET S : Cardinality(s) <= Cardinality(S)
    BY FS_Subset
  <2> QED BY <2>1
<1>3. Cardinality(S) \in Nat
  BY FS_CardinalityType
<1>4. \E g : AddsUpOver(g, f, D(Cardinality(S)))
  <2> HIDE DEF D
  <2> QED BY <1>1, <1>3
<1> QED
  BY <1>2, <1>4

\* A finite sum of numbers is a number.
LEMMA SumIsNat ==
    ASSUME NEW S, IsFiniteSet(S), NEW f, \A x \in S : f[x] \in Nat
    PROVE  SumFunctionOnSet(f, S) \in Nat
<1> DEFINE sum == CHOOSE g : AddsUpOver(g, f, SUBSET S)
<1>1. SumFunctionOnSet(f, S) = sum[S]
  BY DEF SumFunctionOnSet, FoldFunctionOnSet, MapThenFoldSet, AddsUpOver, PickOf
<1>2. AddsUpOver(sum, f, SUBSET S)
  BY SumExists
<1> HIDE DEF sum
<1>3. \A s \in SUBSET S :
         sum[s] = IF s = {} THEN 0 ELSE f[PickOf(s)] + sum[s \ {PickOf(s)}]
  BY <1>2 DEF AddsUpOver
<1> DEFINE Bad == {n \in Nat : \E s \in SUBSET S : Cardinality(s) = n /\ sum[s] \notin Nat}
<1>4. Bad = {}
  <2> SUFFICES ASSUME Bad # {} PROVE FALSE
    OBVIOUS
  <2>1. PICK m \in Bad : \A k \in Bad : m <= k
    <3>1. Bad \subseteq Nat
      OBVIOUS
    <3> HIDE DEF Bad
    <3> QED BY <3>1, LeastOfNumbers
  <2>2. PICK s \in SUBSET S : Cardinality(s) = m /\ sum[s] \notin Nat
    BY <2>1
  <2>3. s # {}
    BY <1>3, <2>2
  <2>4. IsFiniteSet(s)
    BY FS_Subset
  <2>5. /\ PickOf(s) \in s /\ m \in Nat /\ m > 0
        /\ Cardinality(s \ {PickOf(s)}) = m - 1
    BY <2>2, <2>3, <2>4, PickRemoves
  <2>6. sum[s \ {PickOf(s)}] \in Nat
    <3>1. m - 1 \in Nat /\ ~ (m <= m - 1)
      BY <2>5
    <3>2. m - 1 \notin Bad
      BY <2>1, <3>1
    <3> QED BY <2>5, <3>1, <3>2
  <2>7. sum[s] = f[PickOf(s)] + sum[s \ {PickOf(s)}] /\ f[PickOf(s)] \in Nat
    BY <1>3, <2>3, <2>5
  <2> QED BY <2>2, <2>6, <2>7
<1>5. Cardinality(S) \in Nat /\ S \in SUBSET S
  BY FS_CardinalityType
<1> QED
  BY <1>1, <1>4, <1>5

----------------------------------------------------------------------------
(* The invariant. *)

LaneStats == [items : Nat, backlog : Nat, oldest : Nat, malformed : Int]

ReaderState ==
    [step : {"idle", "list", "reply", "close"}, at : DOMAIN Workloads,
     raw : Seq(Entry), stats : Seq(LaneStats)]

LaneGauges == [queue : QueueGauges \cup {Nil}, scaling : ScalingGauges \cup {Nil}]

Types ==
    /\ list \in [Lane -> Seq(Entry)]
    /\ created \in [Entry -> Time \cup {Nil}]
    /\ now \in 0 .. MaxTime
    /\ redis \in {"up", "down"}
    /\ settings \in Settings
    /\ present \in Deployments
    /\ reader \in [Reader -> ReaderState]
    /\ answer \in [Request -> {"none", "ok", "unavailable", "error"}]
    /\ gauge \in [Registry -> [Lane -> LaneGauges]]

\* s holds entries that were sent, each once.
SentOnce(s) ==
    /\ \A k \in 1..Len(s) : created[s[k]] # Nil
    /\ \A j, k \in 1..Len(s) : j < k => s[j] # s[k]

\* So do the lists, and the replies, which are prefixes of them.
ListsAreSent == \A l \in Lane : SentOnce(list[l])
RepliesAreSent == \A x \in Reader : SentOnce(reader[x].raw)

\* A reader collects one lane after the other, and all of them before it closes.
InOrder(t) ==
    /\ t.step = "idle" => t.at = 1
    /\ t.step = "close" => Len(t.stats) = Len(Workloads)
    /\ t.step # "close" => Len(t.stats) = t.at - 1

CollectsInOrder == \A r \in Request : InOrder(reader[r])

\* A request is worked on until it is answered.
AnsweredAtTheEnd ==
    \A r \in Request : reader[r].step # "idle" => answer[r] = "none"

\* The gateway's queue gauges are unset, or those of one request that was answered
\* well; so are its autoscaling gauges, which only an autoscaling request sets.
QueuesOfOneRequest ==
    \/ \A l \in Lane : gauge[Gateway][l].queue = Nil
    \/ \E r \in Request :
          /\ answer[r] = "ok"
          /\ \A l \in Lane : gauge[Gateway][l].queue \in QueueGauges /\ gauge[Gateway][l].queue.by = r

ScalingOfOneRequest ==
    \/ \A l \in Lane : gauge[Gateway][l].scaling = Nil
    \/ \E r \in Request :
          /\ answer[r] = "ok" /\ Endpoint[r] = "autoscaling"
          /\ \A l \in Lane :
                /\ gauge[Gateway][l].scaling \in ScalingGauges
                /\ gauge[Gateway][l].scaling.by = r
                /\ gauge[Gateway][l].queue \in QueueGauges
                /\ gauge[Gateway][l].queue.by = r =>
                      gauge[Gateway][l].scaling.of.backlog = gauge[Gateway][l].queue.backlog

MonitorInv ==
    /\ Types /\ ListsAreSent /\ RepliesAreSent
    /\ CollectsInOrder /\ AnsweredAtTheEnd
    /\ QueuesOfOneRequest /\ ScalingOfOneRequest

----------------------------------------------------------------------------
(* What a reader computes. *)

LEMMA Numbers ==
    /\ Len(Workloads) \in Nat /\ Len(Workloads) > 0
    /\ DOMAIN Workloads = 1..Len(Workloads)
    /\ \A k \in 1..Len(Workloads) : Workloads[k] \in Lane
    /\ \A l \in Lane : \E k \in 1..Len(Workloads) : Workloads[k] = l
    /\ MaxTime \in Nat /\ Skew \in Nat /\ ScanLimit \in Nat
<1>1. Workloads \in Seq(Lane) /\ Workloads # <<>>
  BY MonitorAssumption
<1>2. Len(Workloads) \in Nat /\ Len(Workloads) > 0 /\ DOMAIN Workloads = 1..Len(Workloads)
  BY <1>1, LenProperties, EmptySeq
<1>3. \A l \in Lane : \E k \in DOMAIN Workloads : Workloads[k] = l
  BY DEF Lane, Range
<1>4. \A k \in 1..Len(Workloads) : Workloads[k] \in Lane
  BY <1>1, ElementOfSeq
<1> QED
  BY <1>2, <1>3, <1>4, MonitorAssumption

\* What a reader makes of a reply.
LEMMA StatsAreTyped ==
    ASSUME Types, NEW raw \in Seq(Entry), SentOnce(raw)
    PROVE  Stats(raw) \in LaneStats
<1> DEFINE valid == {k \in DOMAIN raw : raw[k] \notin Garbage}
           tokens == [k \in DOMAIN raw |-> TokenCount[raw[k]]]
           times == {created[raw[k]] : k \in valid}
<1>1. Len(raw) \in Nat /\ DOMAIN raw = 1..Len(raw) /\ \A k \in 1..Len(raw) : raw[k] \in Entry
  BY LenProperties, ElementOfSeq
<1>2. IsFiniteSet(valid) /\ Cardinality(valid) \in Nat
  <2>1. IsFiniteSet(1..Len(raw))
    BY <1>1, FS_Interval
  <2>2. valid \in SUBSET (1..Len(raw))
    BY <1>1
  <2> HIDE DEF valid
  <2> QED BY <2>1, <2>2, FS_Subset, FS_CardinalityType
<1>3. SumFunctionOnSet(tokens, valid) \in Nat
  <2>1. \A k \in valid : tokens[k] \in Nat
    BY <1>1, MonitorAssumption
  <2> HIDE DEF tokens, valid
  <2> QED BY <1>2, <2>1, SumIsNat
<1>4. times \subseteq Nat
  <2>1. \A k \in valid : created[raw[k]] \in Time
    BY <1>1 DEF Types, SentOnce
  <2> QED BY <2>1, Numbers DEF Time
<1>5. now \in Nat
  BY Numbers DEF Types
<1>6. OldestAge(times, now) \in Nat
  <2> HIDE DEF times
  <2>1. CASE times = {}
    BY <2>1 DEF OldestAge
  <2>2. CASE times # {}
    <3>1. Min(times) \in times
      BY <1>4, <2>2, LeastOfNumbers DEF Min
    <3>2. Min(times) \in Nat
      BY <1>4, <3>1
    <3> QED BY <1>5, <2>2, <3>2 DEF OldestAge, AtLeast
  <2> QED BY <2>1, <2>2
<1>7. Stats(raw) = [items |-> Len(raw), backlog |-> SumFunctionOnSet(tokens, valid),
                    oldest |-> OldestAge(times, now),
                    malformed |-> Len(raw) - Cardinality(valid)]
  BY DEF Stats
<1>8. Len(raw) - Cardinality(valid) \in Int
  BY <1>1, <1>2
<1> HIDE DEF valid, tokens, times
<1> QED
  BY <1>1, <1>3, <1>6, <1>7, <1>8 DEF LaneStats

\* The gauges that are set from it.
LEMMA QueueGaugeIsTyped ==
    ASSUME NEW x \in Reader, NEW s \in LaneStats
    PROVE  /\ QueueGauge(x, s) \in QueueGauges
           /\ QueueGauge(x, s).by = x /\ QueueGauge(x, s).backlog = s.backlog
BY DEF QueueGauge, QueueGauges, LaneStats

LEMMA ScalingGaugeIsTyped ==
    ASSUME Types, NEW x \in Reader, NEW s \in LaneStats, NEW l \in Lane, Accepted(settings[l])
    PROVE  /\ ScalingGauge(x, s, l) \in ScalingGauges
           /\ ScalingGauge(x, s, l).by = x
           /\ ScalingGauge(x, s, l).of.backlog = s.backlog
<1> DEFINE c == settings[l]
           b == s.backlog
<1>1. b \in Nat
  BY DEF LaneStats
<1>2. /\ c.tps \in Int /\ c.current \in Int /\ c.target \in Int /\ c.min \in Int /\ c.max \in Int
  <2>1. c \in LaneSettings
    BY MonitorAssumption DEF Types
  <2> QED BY <2>1 DEF LaneSettings
<1>3. c.target > 0
  BY DEF Accepted
<1> HIDE DEF b, c
<1>4. SafePerReplica(c) \in Nat /\ AtLeast(c.current, 0) \in Nat
  BY <1>2 DEF SafePerReplica, AtLeast
<1>5. TotalCurrentTps(c) \in Nat
  BY <1>4, SMT DEF TotalCurrentTps
<1>6. DrainTime(b, c) \in [num : Nat, den : Nat]
  BY <1>1, <1>5 DEF DrainTime, Fraction, Never
<1>7. RawRecommended(b, c) \in Int
  <2>1. CASE b <= 0 \/ TotalCurrentTps(c) <= 0
    BY <1>2, <2>1 DEF RawRecommended
  <2>2. CASE ~ (b <= 0 \/ TotalCurrentTps(c) <= 0)
    <3>1. SafePerReplica(c) # 0
      BY <1>4, <2>2, SMT DEF TotalCurrentTps
    <3>2. c.target * SafePerReplica(c) \in Nat /\ c.target * SafePerReplica(c) > 0
      BY <1>2, <1>3, <1>4, <3>1, SMT
    <3>3. \A d \in Nat : d > 0 => CeilDiv(b, d) \in Int
      BY <1>1, SMT DEF CeilDiv
    <3> QED BY <2>2, <3>2, <3>3 DEF RawRecommended
  <2> QED BY <2>1, <2>2
<1>8. Recommended(b, c) \in Int
  BY <1>2, <1>7 DEF Recommended, AtLeast, AtMost
<1>9. AtLeast(0, b) = b
  BY <1>1 DEF AtLeast
<1> QED
  BY <1>1, <1>6, <1>8, <1>9 DEF ScalingGauge, ScalingGauges, Recommendation, b, c

----------------------------------------------------------------------------
(* The lists and the readers. *)

LEMMA ScannedIsPrefix ==
    ASSUME Types, ListsAreSent, NEW l \in Lane
    PROVE  Scanned(l) \in Seq(Entry) /\ SentOnce(Scanned(l))
<1> DEFINE n == AtMost(Len(list[l]), AtLeast(1, ScanLimit))
<1>1. list[l] \in Seq(Entry) /\ Len(list[l]) \in Nat
  BY LenProperties DEF Types
<1>2. n \in 0..Len(list[l])
  BY <1>1, Numbers DEF AtMost, AtLeast
<1>3. Scanned(l) = SubSeq(list[l], 1, n)
  BY DEF Scanned
<1> HIDE DEF n
<1>4. /\ Scanned(l) \in Seq(Entry) /\ Len(Scanned(l)) = n
      /\ \A k \in 1..n : Scanned(l)[k] = list[l][k] /\ k \in 1..Len(list[l])
  <2>1. CASE n = 0
    BY <1>1, <1>3, <2>1, SubSeqProperties
  <2>2. CASE n # 0
    <3>1. n \in 1..Len(list[l])
      BY <1>1, <1>2, <2>2
    <3> QED BY <1>1, <1>3, <3>1, SubSeqProperties
  <2> QED BY <2>1, <2>2
<1>5. SentOnce(list[l])
  BY DEF ListsAreSent
<1> QED
  BY <1>4, <1>5 DEF SentOnce

\* A step is one of a reader, or of the rest of the system.
ReaderStep(x) ==
    \/ Begin(x) \/ Scan(x)
    \/ x \in Exporter /\ (RefreshLane(x) \/ RefreshFails(x))
    \/ x \in Request /\ (Collect(x) \/ CollectFails(x) \/ DebugQueues(x) \/ DebugAutoscaling(x))

OtherStep ==
    \/ \E e \in Entry : Push(e)
    \/ \E l \in Lane : Claim(l)
    \/ Tick \/ RedisFlips \/ UNCHANGED monitorVars

LEMMA StepsAre ==
    ASSUME [MonitorNext]_monitorVars
    PROVE  OtherStep \/ \E x \in Reader : ReaderStep(x)
<1>1. ASSUME NEW x \in Exporter, ExporterStep(x) \/ RefreshFails(x)
      PROVE  x \in Reader /\ ReaderStep(x)
  BY <1>1 DEF ExporterStep, ReaderStep, Reader
<1>2. ASSUME NEW r \in Request, RequestStep(r) \/ CollectFails(r)
      PROVE  r \in Reader /\ ReaderStep(r)
  BY <1>2 DEF RequestStep, ReaderStep, Reader
<1> QED
  BY <1>1, <1>2 DEF MonitorNext, OtherStep

\* The readers change nothing that the rest of the system works on.
LEMMA ReadersOnlyRead ==
    ASSUME NEW x \in Reader, ReaderStep(x)
    PROVE  UNCHANGED <<list, created, now, redis, settings, present>>
BY DEF ReaderStep, Begin, Scan, RefreshLane, RefreshFails, Collect, CollectFails, DebugQueues,
       DebugAutoscaling, Finish

\* What one reader becomes in a step.
Lawful(x, t) ==
    /\ t \in ReaderState
    /\ SentOnce(t.raw)
    /\ x \in Request => InOrder(t)

LEMMA ReadersAreLawful ==
    ASSUME MonitorInv, NEW x \in Reader
    PROVE  Lawful(x, reader[x])
BY DEF MonitorInv, Types, RepliesAreSent, CollectsInOrder, Lawful

LEMMA IdleIsLawful ==
    ASSUME NEW x
    PROVE  Lawful(x, Idle)
<1>1. Idle \in ReaderState
  BY Numbers DEF Idle, ReaderState
<1>2. SentOnce(<<>>)
  BY DEF SentOnce
<1> QED
  BY <1>1, <1>2 DEF Idle, Lawful, InOrder

\* The next lane, or the last state.
LEMMA NextLaneIsLawful ==
    ASSUME MonitorInv, NEW x \in Reader, reader[x].step = "reply", NEW last \in ReaderState,
           last.raw = <<>>
    PROVE  /\ NextLane(x, last) \in ReaderState
           /\ NextLane(x, last).raw = <<>>
           /\ reader[x].at \in 1..Len(Workloads)
           /\ IF reader[x].at = Len(Workloads) THEN NextLane(x, last) = last
              ELSE /\ NextLane(x, last).step = "list"
                   /\ NextLane(x, last).at = reader[x].at + 1
                   /\ NextLane(x, last).stats = reader[x].stats
<1>1. reader[x] \in ReaderState
  BY DEF MonitorInv, Types
<1>2. reader[x].at \in 1..Len(Workloads) /\ Len(Workloads) \in Nat
  BY <1>1, Numbers DEF ReaderState
<1>3. CASE reader[x].at = Len(Workloads)
  BY <1>2, <1>3 DEF NextLane
<1>4. CASE reader[x].at # Len(Workloads)
  <2>1. reader[x].at < Len(Workloads) /\ reader[x].at + 1 \in 1..Len(Workloads)
    BY <1>2, <1>4
  <2>2. NextLane(x, last) = [reader[x] EXCEPT !.step = "list", !.at = @ + 1, !.raw = <<>>]
    BY <2>1 DEF NextLane
  <2> QED BY <1>1, <1>2, <1>4, <2>1, <2>2, Numbers DEF ReaderState
<1> QED
  BY <1>3, <1>4

\* Every step of a reader is lawful.
LEMMA ReaderStepIsLawful ==
    ASSUME MonitorInv, NEW x \in Reader, ReaderStep(x)
    PROVE  \E t : Lawful(x, t) /\ reader' = [reader EXCEPT ![x] = t]
<1>0. /\ Lawful(x, reader[x]) /\ Lawful(x, Idle)
      /\ reader \in [Reader -> ReaderState]
      /\ SentOnce(<<>>)
  BY ReadersAreLawful, IdleIsLawful DEF MonitorInv, Types, SentOnce
<1>1. CASE Begin(x)
  <2> DEFINE t == [reader[x] EXCEPT !.step = "list"]
  <2>1. reader' = [reader EXCEPT ![x] = t] /\ reader[x].step = "idle"
    BY <1>1 DEF Begin
  <2>2. Lawful(x, t)
    BY <1>0, <2>1 DEF Lawful, ReaderState, InOrder
  <2> QED BY <2>1, <2>2
<1>2. CASE Scan(x)
  <2> DEFINE raw == Scanned(Current(x))
             t == [reader[x] EXCEPT !.step = "reply", !.raw = raw]
  <2>1. reader' = [reader EXCEPT ![x] = t] /\ reader[x].step = "list"
    BY <1>2 DEF Scan
  <2>2. Current(x) \in Lane
    BY <1>0, Numbers DEF ReaderState, Current
  <2>3. raw \in Seq(Entry) /\ SentOnce(raw)
    BY <2>2, ScannedIsPrefix DEF MonitorInv
  <2> HIDE DEF raw
  <2>4. Lawful(x, t)
    BY <1>0, <2>1, <2>3 DEF Lawful, ReaderState, InOrder
  <2> QED BY <2>1, <2>4
<1>3. CASE x \in Exporter /\ (RefreshLane(x) \/ RefreshFails(x))
  <2>1. x \notin Request
    BY <1>3, MonitorAssumption
  <2>2. reader' = [reader EXCEPT ![x] = Idle]
          \/ (reader[x].step = "reply" /\ reader' = [reader EXCEPT ![x] = NextLane(x, Idle)])
    BY <1>3 DEF RefreshLane, RefreshFails
  <2>3. reader[x].step = "reply" => Lawful(x, NextLane(x, Idle))
    <3>1. Idle \in ReaderState /\ Idle.raw = <<>>
      BY <1>0 DEF Lawful, Idle
    <3> QED BY <1>0, <2>1, <3>1, NextLaneIsLawful DEF Lawful
  <2> QED BY <1>0, <2>2, <2>3
<1>4. CASE x \in Request /\ Collect(x)
  <2> DEFINE stats == Append(reader[x].stats, Stats(reader[x].raw))
             collected == [reader[x] EXCEPT !.step = "close", !.raw = <<>>]
             u == NextLane(x, collected)
             t == [u EXCEPT !.stats = stats]
  <2>1. reader[x].step = "reply" /\ reader' = [reader EXCEPT ![x] = t]
    BY <1>4 DEF Collect
  <2>2. collected \in ReaderState /\ collected.raw = <<>> /\ collected.step = "close"
    <3>1. reader[x] \in ReaderState /\ <<>> \in Seq(Entry)
      BY <1>0 DEF Lawful
    <3> QED BY <3>1 DEF ReaderState
  <2>3. /\ u \in ReaderState /\ u.raw = <<>>
        /\ reader[x].at \in 1..Len(Workloads)
        /\ IF reader[x].at = Len(Workloads) THEN u = collected
           ELSE /\ u.step = "list"
                /\ u.at = reader[x].at + 1
    <3> HIDE DEF collected
    <3> QED BY <2>1, <2>2, NextLaneIsLawful
  <2>4. stats \in Seq(LaneStats) /\ Len(stats) = Len(reader[x].stats) + 1
    <3>1. Stats(reader[x].raw) \in LaneStats
      BY <1>0, StatsAreTyped DEF Lawful, ReaderState, MonitorInv
    <3>2. reader[x].stats \in Seq(LaneStats)
      BY <1>0 DEF ReaderState
    <3> QED BY <3>1, <3>2, AppendProperties
  <2>5. Len(reader[x].stats) = reader[x].at - 1
    BY <1>0, <1>4, <2>1 DEF Lawful, InOrder
  <2> HIDE DEF stats, u
  <2>6. t \in ReaderState /\ t.raw = <<>> /\ t.stats = stats /\ t.step = u.step /\ t.at = u.at
    BY <2>3, <2>4 DEF ReaderState
  <2>7. Len(stats) = reader[x].at /\ reader[x].at \in Nat
    BY <2>3, <2>4, <2>5, Numbers
  <2>8. InOrder(t)
    <3>1. CASE reader[x].at = Len(Workloads)
      <4>1. u.step = "close"
        BY <2>2, <2>3, <3>1
      <4> QED BY <2>6, <2>7, <3>1, <4>1 DEF InOrder
    <3>2. CASE reader[x].at # Len(Workloads)
      <4>1. t.step = "list" /\ t.at = reader[x].at + 1 /\ Len(t.stats) = reader[x].at
        BY <2>3, <2>6, <2>7, <3>2
      <4>2. Len(t.stats) = t.at - 1
        BY <2>7, <4>1
      <4> QED BY <4>1, <4>2 DEF InOrder
    <3> QED BY <3>1, <3>2
  <2>9. Lawful(x, t)
    BY <1>0, <2>6, <2>8 DEF Lawful
  <2> QED BY <2>1, <2>9
<1>5. CASE x \in Request /\ (CollectFails(x) \/ DebugQueues(x) \/ DebugAutoscaling(x))
  <2>1. reader' = [reader EXCEPT ![x] = Idle]
    BY <1>5 DEF CollectFails, DebugQueues, DebugAutoscaling, Finish
  <2> QED BY <1>0, <2>1
<1> QED
  BY <1>1, <1>2, <1>3, <1>4, <1>5 DEF ReaderStep

\* What was sent stays sent.
LEMMA SentStaysSent ==
    ASSUME NEW s \in Seq(Entry), SentOnce(s), \A e \in Entry : created[e] # Nil => created'[e] # Nil
    PROVE  SentOnce(s)'
<1>1. \A k \in 1..Len(s) : s[k] \in Entry
  BY ElementOfSeq
<1> QED
  BY <1>1 DEF SentOnce

\* An entry that was not sent before is in no list, so that a list that it is pushed
\* to has it once.
LEMMA PushKeepsLists ==
    ASSUME MonitorInv, NEW e \in Entry, Push(e)
    PROVE  /\ list' \in [Lane -> Seq(Entry)]
           /\ created' \in [Entry -> Time \cup {Nil}]
           /\ \A d \in Entry : created[d] # Nil => created'[d] # Nil
           /\ ListsAreSent'
<1> DEFINE m == EntryLane[e]
<1>0. /\ list \in [Lane -> Seq(Entry)] /\ created \in [Entry -> Time \cup {Nil}]
      /\ now \in 0..MaxTime /\ m \in Lane
  BY MonitorAssumption DEF MonitorInv, Types
<1>1. PICK t \in AtLeast(0, now - Skew)..now + Skew :
          created' = [created EXCEPT ![e] = IF e \in Garbage THEN 0 ELSE t]
  BY DEF Push
<1>2. t \in Time /\ 0 \in Time /\ Nil \notin Time
  <2>1. t \in Int /\ 0 <= t /\ t <= now + Skew
    BY <1>0, Numbers DEF AtLeast
  <2> QED BY <1>0, <2>1, Numbers, NilAssumption DEF Time
<1>3. /\ created' \in [Entry -> Time \cup {Nil}]
      /\ created[e] = Nil /\ created'[e] # Nil
      /\ \A d \in Entry : created[d] # Nil => created'[d] # Nil
  BY <1>0, <1>1, <1>2 DEF Push
<1>4. list' = [list EXCEPT ![m] = Append(list[m], e)]
  BY DEF Push
<1>5. list' \in [Lane -> Seq(Entry)]
  BY <1>0, <1>4, AppendProperties
<1>6. \A l \in Lane : SentOnce(list[l])'
  <2> SUFFICES ASSUME NEW l \in Lane PROVE SentOnce(list[l])'
    OBVIOUS
  <2> HIDE DEF m
  <2>1. list[l] \in Seq(Entry) /\ SentOnce(list[l])
    BY <1>0 DEF MonitorInv, ListsAreSent
  <2>2. CASE l # m
    <3>1. list'[l] = list[l]
      BY <1>0, <1>4, <2>2
    <3> DEFINE s == list[l]
    <3> HIDE DEF s
    <3>2. \A k \in 1..Len(list[l]) : list[l][k] \in Entry
      BY <2>1, ElementOfSeq
    <3> QED BY <1>3, <2>1, <3>1, <3>2 DEF SentOnce
  <2>3. CASE l = m
    <3>1. list'[l] = Append(list[l], e) /\ Len(list[l]) \in Nat
      BY <1>0, <1>4, <2>1, <2>3, LenProperties
    <3>2. /\ Len(list'[l]) = Len(list[l]) + 1
          /\ list'[l][Len(list[l]) + 1] = e
          /\ \A k \in 1..Len(list[l]) : list'[l][k] = list[l][k] /\ list[l][k] \in Entry
      BY <2>1, <3>1, AppendProperties, ElementOfSeq
    <3>3. \A k \in 1..Len(list[l]) : created[list[l][k]] # Nil /\ list[l][k] # e
      BY <1>3, <2>1 DEF SentOnce
    <3>4. \A k \in 1..Len(list'[l]) : k \in 1..Len(list[l]) \/ k = Len(list[l]) + 1
      BY <3>1, <3>2
    <3>5. \A k \in 1..Len(list'[l]) : created'[list'[l][k]] # Nil
      BY <1>3, <3>2, <3>3, <3>4
    <3>6. ASSUME NEW j \in 1..Len(list'[l]), NEW k \in 1..Len(list'[l]), j < k
          PROVE  list'[l][j] # list'[l][k]
      <4>1. j \in 1..Len(list[l])
        BY <3>1, <3>2, <3>6
      <4>2. CASE k \in 1..Len(list[l])
        BY <2>1, <3>2, <3>6, <4>1, <4>2 DEF SentOnce
      <4>3. CASE k = Len(list[l]) + 1
        BY <3>2, <3>3, <4>1, <4>3
      <4> QED BY <3>4, <4>2, <4>3
    <3> QED BY <3>5, <3>6 DEF SentOnce
  <2> QED BY <2>2, <2>3
<1> QED
  BY <1>3, <1>5, <1>6 DEF ListsAreSent

\* A claim leaves a suffix of the list.
LEMMA ClaimKeepsLists ==
    ASSUME MonitorInv, NEW m \in Lane, Claim(m)
    PROVE  list' \in [Lane -> Seq(Entry)] /\ created' = created /\ ListsAreSent'
<1>0. list \in [Lane -> Seq(Entry)]
  BY DEF MonitorInv, Types
<1>1. PICK n \in DOMAIN list[m] :
         list' = [list EXCEPT ![m] = SubSeq(list[m], n + 1, Len(list[m]))]
  BY DEF Claim
<1> DEFINE rest == SubSeq(list[m], n + 1, Len(list[m]))
<1>2. list[m] \in Seq(Entry) /\ Len(list[m]) \in Nat /\ n \in 1..Len(list[m])
  BY <1>0, <1>1, LenProperties
<1>3. /\ rest \in Seq(Entry) /\ Len(rest) = Len(list[m]) - n
      /\ \A k \in 1..(Len(list[m]) - n) : rest[k] = list[m][n + k] /\ n + k \in 1..Len(list[m])
  <2>1. CASE n = Len(list[m])
    BY <1>2, <2>1, SubSeqProperties
  <2>2. CASE n # Len(list[m])
    <3>1. n + 1 \in 1..Len(list[m]) /\ Len(list[m]) \in 1..Len(list[m])
      BY <1>2, <2>2
    <3>2. /\ rest \in Seq(Entry) /\ Len(rest) = Len(list[m]) - (n + 1) + 1
          /\ \A k \in 1..(Len(list[m]) - (n + 1) + 1) : rest[k] = list[m][(n + 1) + k - 1]
      BY <1>2, <3>1, SubSeqProperties
    <3>3. Len(list[m]) - (n + 1) + 1 = Len(list[m]) - n
      BY <1>2
    <3>4. \A k \in 1..(Len(list[m]) - n) : (n + 1) + k - 1 = n + k /\ n + k \in 1..Len(list[m])
      BY <1>2
    <3> HIDE DEF rest
    <3> QED BY <3>2, <3>3, <3>4
  <2> QED BY <2>1, <2>2
<1> HIDE DEF rest
<1>4. list' = [list EXCEPT ![m] = rest]
  BY <1>1 DEF rest
<1>5. list' \in [Lane -> Seq(Entry)] /\ created' = created
  BY <1>0, <1>3, <1>4 DEF Claim
<1>6. SentOnce(list[m])
  BY DEF MonitorInv, ListsAreSent
<1>7. SentOnce(rest)
  <2>1. \A k \in 1..Len(rest) : created[rest[k]] # Nil
    BY <1>3, <1>6 DEF SentOnce
  <2>2. \A j, k \in 1..Len(rest) : j < k => rest[j] # rest[k]
    <3> SUFFICES ASSUME NEW j \in 1..Len(rest), NEW k \in 1..Len(rest), j < k
                 PROVE  rest[j] # rest[k]
      OBVIOUS
    <3>1. n + j < n + k
      BY <1>2
    <3>2. /\ rest[j] = list[m][n + j] /\ n + j \in 1..Len(list[m])
          /\ rest[k] = list[m][n + k] /\ n + k \in 1..Len(list[m])
      BY <1>3
    <3>3. list[m][n + j] # list[m][n + k]
      BY <1>6, <3>1, <3>2 DEF SentOnce
    <3> QED BY <3>2, <3>3
  <2> QED BY <2>1, <2>2 DEF SentOnce
<1>8. \A l \in Lane : SentOnce(list'[l])
  BY <1>0, <1>4, <1>7 DEF MonitorInv, ListsAreSent
<1> QED
  BY <1>5, <1>8 DEF ListsAreSent, SentOnce

\* The lists of work change; the readers and their gauges do not.
LEMMA OtherStepKeepsInv ==
    ASSUME MonitorInv, OtherStep
    PROVE  MonitorInv'
<1>0. Types /\ ListsAreSent /\ RepliesAreSent
  BY DEF MonitorInv
<1>1. UNCHANGED <<settings, present, reader, answer, gauge>>
  BY DEF OtherStep, Push, Claim, Tick, RedisFlips, monitorVars
<1>2. /\ list' \in [Lane -> Seq(Entry)]
      /\ created' \in [Entry -> Time \cup {Nil}]
      /\ \A d \in Entry : created[d] # Nil => created'[d] # Nil
      /\ ListsAreSent'
  <2>1. CASE \E e \in Entry : Push(e)
    BY <2>1, PushKeepsLists
  <2>2. CASE \E l \in Lane : Claim(l)
    BY <1>0, <2>2, ClaimKeepsLists DEF Types
  <2>3. CASE Tick \/ RedisFlips \/ UNCHANGED monitorVars
    <3>1. list' = list /\ created' = created
      BY <2>3 DEF Tick, RedisFlips, monitorVars
    <3> QED BY <1>0, <3>1 DEF Types, ListsAreSent, SentOnce
  <2> QED BY <2>1, <2>2, <2>3 DEF OtherStep
<1>3. now' \in 0..MaxTime /\ redis' \in {"up", "down"}
  BY <1>0, Numbers DEF Types, OtherStep, Push, Claim, Tick, RedisFlips, monitorVars
<1>4. Types'
  BY <1>0, <1>1, <1>2, <1>3 DEF Types
<1>5. RepliesAreSent'
  <2>1. \A x \in Reader : reader[x].raw \in Seq(Entry)
    BY <1>0 DEF Types, ReaderState
  <2>2. ASSUME NEW x \in Reader PROVE SentOnce(reader[x].raw)'
    <3>1. \A k \in 1..Len(reader[x].raw) : reader[x].raw[k] \in Entry
      BY <2>1, ElementOfSeq
    <3> QED BY <1>0, <1>1, <1>2, <3>1 DEF SentOnce, RepliesAreSent
  <2> QED BY <2>2 DEF RepliesAreSent
<1>6. (CollectsInOrder /\ AnsweredAtTheEnd /\ QueuesOfOneRequest /\ ScalingOfOneRequest)'
  BY <1>1 DEF MonitorInv, CollectsInOrder, InOrder, AnsweredAtTheEnd, QueuesOfOneRequest,
              ScalingOfOneRequest
<1> QED
  BY <1>2, <1>4, <1>5, <1>6 DEF MonitorInv

----------------------------------------------------------------------------
(* The gauges of the gateway. *)

\* The lane whose stats are taken for a lane.
NumberOf(l) == CHOOSE j \in DOMAIN Workloads : Workloads[j] = l

\* Once a request has collected every lane, it has the stats of each.
LEMMA StatsOfEachLane ==
    ASSUME MonitorInv, NEW r \in Request, reader[r].step = "close", NEW l \in Lane
    PROVE  r \in Reader /\ reader[r].stats[NumberOf(l)] \in LaneStats
<1>1. r \in Reader /\ reader[r] \in ReaderState /\ InOrder(reader[r])
  BY DEF MonitorInv, Types, CollectsInOrder, Reader
<1>2. NumberOf(l) \in 1..Len(Workloads)
  BY Numbers DEF NumberOf
<1>3. reader[r].stats \in Seq(LaneStats) /\ Len(reader[r].stats) = Len(Workloads)
  BY <1>1 DEF ReaderState, InOrder
<1> QED
  BY <1>1, <1>2, <1>3, ElementOfSeq

\* What the queue gauges become when a request sets them.
LEMMA QueuesAreSet ==
    ASSUME MonitorInv, NEW r \in Request, reader[r].step = "close"
    PROVE  /\ WithQueues(r) \in [Registry -> [Lane -> LaneGauges]]
           /\ \A l \in Lane :
                 /\ WithQueues(r)[Gateway][l].queue \in QueueGauges
                 /\ WithQueues(r)[Gateway][l].queue.by = r
                 /\ WithQueues(r)[Gateway][l].scaling = gauge[Gateway][l].scaling
<1>0. gauge \in [Registry -> [Lane -> LaneGauges]] /\ Gateway \in Registry
  BY DEF MonitorInv, Types, Registry
<1> DEFINE new(l) == QueueGauge(r, reader[r].stats[NumberOf(l)])
           row == [l \in Lane |-> [gauge[Gateway][l] EXCEPT !.queue = new(l)]]
<1>1. \A l \in Lane : new(l) \in QueueGauges /\ new(l).by = r
  BY StatsOfEachLane, QueueGaugeIsTyped
<1>2. WithQueues(r) = [gauge EXCEPT ![Gateway] = row]
  BY DEF WithQueues, NumberOf
<1> HIDE DEF new
<1>3. \A l \in Lane :
         /\ row[l] \in LaneGauges
         /\ row[l].queue = new(l) /\ row[l].scaling = gauge[Gateway][l].scaling
  BY <1>0, <1>1 DEF LaneGauges
<1>4. row \in [Lane -> LaneGauges]
  BY <1>3
<1> HIDE DEF row
<1>5. WithQueues(r) \in [Registry -> [Lane -> LaneGauges]] /\ WithQueues(r)[Gateway] = row
  BY <1>0, <1>2, <1>4
<1> QED
  BY <1>1, <1>3, <1>5

\* What all gauges become when a request for recommendations sets them.
LEMMA RecommendationsAreSet ==
    ASSUME MonitorInv, NEW r \in Request, reader[r].step = "close", AllAccepted
    PROVE  /\ WithRecommendations(r) \in [Registry -> [Lane -> LaneGauges]]
           /\ \A l \in Lane :
                 LET g == WithRecommendations(r)[Gateway][l]
                 IN  /\ g.queue \in QueueGauges /\ g.queue.by = r
                     /\ g.scaling \in ScalingGauges /\ g.scaling.by = r
                     /\ g.scaling.of.backlog = g.queue.backlog
<1>0. gauge \in [Registry -> [Lane -> LaneGauges]] /\ Gateway \in Registry /\ Types
  BY DEF MonitorInv, Types, Registry
<1> DEFINE queue(l) == QueueGauge(r, reader[r].stats[NumberOf(l)])
           scaling(l) == ScalingGauge(r, reader[r].stats[NumberOf(l)], l)
           row == [l \in Lane |-> [queue |-> queue(l), scaling |-> scaling(l)]]
<1>1. ASSUME NEW l \in Lane
      PROVE  /\ queue(l) \in QueueGauges /\ queue(l).by = r
             /\ scaling(l) \in ScalingGauges /\ scaling(l).by = r
             /\ scaling(l).of.backlog = queue(l).backlog
  <2>1. r \in Reader /\ reader[r].stats[NumberOf(l)] \in LaneStats
    BY StatsOfEachLane
  <2>2. Accepted(settings[l])
    BY DEF AllAccepted
  <2> QED BY <1>0, <2>1, <2>2, QueueGaugeIsTyped, ScalingGaugeIsTyped
<1>2. WithRecommendations(r) = [gauge EXCEPT ![Gateway] = row]
  BY DEF WithRecommendations, NumberOf
<1> HIDE DEF queue, scaling
<1>3. \A l \in Lane :
         /\ row[l] \in LaneGauges
         /\ row[l].queue = queue(l) /\ row[l].scaling = scaling(l)
  BY <1>1 DEF LaneGauges
<1>4. row \in [Lane -> LaneGauges]
  BY <1>3
<1> HIDE DEF row
<1>5. /\ WithRecommendations(r) \in [Registry -> [Lane -> LaneGauges]]
      /\ WithRecommendations(r)[Gateway] = row
  BY <1>0, <1>2, <1>4
<1> QED
  BY <1>1, <1>3, <1>5

\* The four things that a reader's step may be to the requests and the gauges: it
\* concerns neither, it answers with an error, or it answers well and sets the queue
\* gauges, or all gauges.
Unanswered(x) ==
    /\ x \in Request => answer[x] = "none"
    /\ answer' = answer
    /\ gauge'[Gateway] = gauge[Gateway]

Answers(r, reply) ==
    /\ r \in Request /\ answer[r] = "none"
    /\ answer' = [answer EXCEPT ![r] = reply]
    /\ reader' = [reader EXCEPT ![r] = Idle]

Refuses(r) == (Answers(r, "unavailable") \/ Answers(r, "error")) /\ gauge' = gauge

ShowsQueues(r) ==
    /\ Answers(r, "ok")
    /\ \A l \in Lane :
          /\ gauge'[Gateway][l].queue \in QueueGauges
          /\ gauge'[Gateway][l].queue.by = r
          /\ gauge'[Gateway][l].scaling = gauge[Gateway][l].scaling

ShowsAll(r) ==
    /\ Answers(r, "ok") /\ Endpoint[r] = "autoscaling"
    /\ \A l \in Lane :
          /\ gauge'[Gateway][l].queue \in QueueGauges
          /\ gauge'[Gateway][l].queue.by = r
          /\ gauge'[Gateway][l].scaling \in ScalingGauges
          /\ gauge'[Gateway][l].scaling.by = r
          /\ gauge'[Gateway][l].scaling.of.backlog = gauge'[Gateway][l].queue.backlog

LEMMA OutcomesOfAStep ==
    ASSUME MonitorInv, NEW x \in Reader, ReaderStep(x)
    PROVE  /\ gauge' \in [Registry -> [Lane -> LaneGauges]]
           /\ Unanswered(x) \/ Refuses(x) \/ ShowsQueues(x) \/ ShowsAll(x)
<1>0. /\ gauge \in [Registry -> [Lane -> LaneGauges]] /\ Types
      /\ \A r \in Request : reader[r].step # "idle" => answer[r] = "none"
  BY DEF MonitorInv, Types, AnsweredAtTheEnd
<1>1. CASE Begin(x) \/ Scan(x) \/ (x \in Request /\ Collect(x)) \/ (x \in Exporter /\ RefreshFails(x))
  <2>1. gauge' = gauge /\ answer' = answer
    BY <1>1 DEF Begin, Scan, Collect, RefreshFails
  <2>2. x \in Request => answer[x] = "none"
    BY <1>0, <1>1, MonitorAssumption DEF Begin, Scan, Collect
  <2> QED BY <1>0, <2>1, <2>2 DEF Unanswered
<1>2. CASE x \in Exporter /\ RefreshLane(x)
  <2> DEFINE l == Current(x)
             s == Stats(reader[x].raw)
             queueSet == [gauge EXCEPT ![x][l].queue = QueueGauge(x, s)]
  <2>1. answer' = answer /\ x \notin Request /\ x \in Registry /\ x # Gateway /\ Gateway \in Registry
    BY <1>2, MonitorAssumption DEF RefreshLane, Registry
  <2>2. Lawful(x, reader[x])
    BY ReadersAreLawful
  <2>3. s \in LaneStats
    BY <1>0, <2>2, StatsAreTyped DEF Lawful, ReaderState
  <2>4. l \in Lane
    BY <2>2, Numbers DEF Lawful, ReaderState, Current
  <2>5. QueueGauge(x, s) \in QueueGauges /\ (Accepted(settings[l]) => ScalingGauge(x, s, l) \in ScalingGauges)
    BY <1>0, <2>3, <2>4, QueueGaugeIsTyped, ScalingGaugeIsTyped
  <2>6. \/ gauge' = queueSet
        \/ Accepted(settings[l]) /\ gauge' = [queueSet EXCEPT ![x][l].scaling = ScalingGauge(x, s, l)]
    BY <1>2 DEF RefreshLane
  <2> HIDE DEF l, s
  <2>7. queueSet \in [Registry -> [Lane -> LaneGauges]] /\ queueSet[Gateway] = gauge[Gateway]
    BY <1>0, <2>1, <2>4, <2>5 DEF LaneGauges
  <2> HIDE DEF queueSet
  <2>8. gauge' \in [Registry -> [Lane -> LaneGauges]] /\ gauge'[Gateway] = gauge[Gateway]
    <3>1. CASE gauge' = queueSet
      BY <2>7, <3>1
    <3>2. CASE /\ Accepted(settings[l])
               /\ gauge' = [queueSet EXCEPT ![x][l].scaling = ScalingGauge(x, s, l)]
      <4> DEFINE cell == [queueSet[x][l] EXCEPT !.scaling = ScalingGauge(x, s, l)]
      <4>1. queueSet[x][l] \in LaneGauges /\ ScalingGauge(x, s, l) \in ScalingGauges
        BY <2>1, <2>4, <2>5, <2>7, <3>2
      <4>2. cell \in LaneGauges
        BY <4>1 DEF LaneGauges
      <4>3. gauge' = [queueSet EXCEPT ![x] = [queueSet[x] EXCEPT ![l] = cell]]
        BY <3>2
      <4> HIDE DEF cell
      <4> QED BY <2>1, <2>4, <2>7, <4>2, <4>3
    <3> QED BY <2>6, <3>1, <3>2
  <2> QED BY <2>1, <2>8 DEF Unanswered
<1>3. CASE x \in Request /\ CollectFails(x)
  BY <1>0, <1>3 DEF CollectFails, Refuses, Answers
<1>4. CASE x \in Request /\ DebugQueues(x)
  <2>1. /\ reader[x].step = "close" /\ gauge' = WithQueues(x)
        /\ reader' = [reader EXCEPT ![x] = Idle] /\ answer' = [answer EXCEPT ![x] = "ok"]
    BY <1>4 DEF DebugQueues, Finish
  <2>2. ShowsQueues(x)
    BY <1>0, <1>4, <2>1, QueuesAreSet DEF ShowsQueues, Answers
  <2> QED BY <1>4, <2>1, <2>2, QueuesAreSet
<1>5. CASE x \in Request /\ DebugAutoscaling(x)
  <2>1. CASE AllAccepted
    <3>1. /\ reader[x].step = "close" /\ gauge' = WithRecommendations(x)
          /\ reader' = [reader EXCEPT ![x] = Idle] /\ answer' = [answer EXCEPT ![x] = "ok"]
          /\ Endpoint[x] = "autoscaling"
      BY <1>5, <2>1 DEF DebugAutoscaling, Finish
    <3>2. ShowsAll(x)
      BY <1>0, <1>5, <2>1, <3>1, RecommendationsAreSet DEF ShowsAll, Answers
    <3> QED BY <1>5, <2>1, <3>1, <3>2, RecommendationsAreSet
  <2>2. CASE ~ AllAccepted
    <3>1. /\ reader[x].step = "close" /\ gauge' = gauge
          /\ reader' = [reader EXCEPT ![x] = Idle] /\ answer' = [answer EXCEPT ![x] = "error"]
      BY <1>5, <2>2 DEF DebugAutoscaling, Finish
    <3> QED BY <1>0, <1>5, <3>1 DEF Refuses, Answers
  <2> QED BY <2>1, <2>2
<1> QED
  BY <1>1, <1>2, <1>3, <1>4, <1>5 DEF ReaderStep

\* The gauges of one request are replaced by those of another, all at once.
LEMMA ReaderStepKeepsGauges ==
    ASSUME MonitorInv, NEW x \in Reader, ReaderStep(x)
    PROVE  (QueuesOfOneRequest /\ ScalingOfOneRequest)'
<1>0. QueuesOfOneRequest /\ ScalingOfOneRequest /\ answer \in [Request -> {"none", "ok", "unavailable", "error"}]
  BY DEF MonitorInv, Types
<1>1. CASE Unanswered(x) \/ Refuses(x)
  <2>1. gauge'[Gateway] = gauge[Gateway] /\ \A r \in Request : answer[r] = "ok" => answer'[r] = "ok"
    BY <1>0, <1>1 DEF Unanswered, Refuses, Answers
  <2> QED BY <1>0, <2>1 DEF QueuesOfOneRequest, ScalingOfOneRequest
<1>2. CASE ShowsQueues(x)
  <2>1. /\ x \in Request /\ answer'[x] = "ok" /\ answer[x] = "none"
        /\ \A r \in Request : answer[r] = "ok" => answer'[r] = "ok"
    BY <1>0, <1>2 DEF ShowsQueues, Answers
  <2>2. QueuesOfOneRequest'
    BY <1>2, <2>1 DEF QueuesOfOneRequest, ShowsQueues
  <2>3. CASE \A l \in Lane : gauge[Gateway][l].scaling = Nil
    <3>1. \A l \in Lane : gauge'[Gateway][l].scaling = Nil
      BY <1>2, <2>3 DEF ShowsQueues
    <3> QED BY <2>2, <3>1 DEF ScalingOfOneRequest
  <2>4. ASSUME NEW r \in Request,
               /\ answer[r] = "ok" /\ Endpoint[r] = "autoscaling"
               /\ \A l \in Lane :
                     /\ gauge[Gateway][l].scaling \in ScalingGauges
                     /\ gauge[Gateway][l].scaling.by = r
        PROVE  ScalingOfOneRequest'
    <3>1. r # x /\ answer'[r] = "ok"
      BY <2>1, <2>4
    <3>2. \A l \in Lane :
             /\ gauge'[Gateway][l].scaling \in ScalingGauges
             /\ gauge'[Gateway][l].scaling.by = r
             /\ gauge'[Gateway][l].queue \in QueueGauges
             /\ gauge'[Gateway][l].queue.by # r
      BY <1>2, <2>4, <3>1 DEF ShowsQueues
    <3> QED BY <2>4, <3>1, <3>2 DEF ScalingOfOneRequest
  <2> QED BY <1>0, <2>2, <2>3, <2>4 DEF ScalingOfOneRequest
<1>3. CASE ShowsAll(x)
  <2>1. x \in Request /\ answer'[x] = "ok"
    BY <1>0, <1>3 DEF ShowsAll, Answers
  <2> QED BY <1>3, <2>1 DEF QueuesOfOneRequest, ScalingOfOneRequest, ShowsAll
<1> QED
  BY <1>1, <1>2, <1>3, OutcomesOfAStep

LEMMA ReaderStepKeepsInv ==
    ASSUME MonitorInv, NEW x \in Reader, ReaderStep(x)
    PROVE  MonitorInv'
<1>0. Types /\ ListsAreSent /\ RepliesAreSent /\ CollectsInOrder /\ AnsweredAtTheEnd
  BY DEF MonitorInv
<1>1. UNCHANGED <<list, created, now, redis, settings, present>>
  BY ReadersOnlyRead
<1>2. PICK t : Lawful(x, t) /\ reader' = [reader EXCEPT ![x] = t]
  BY ReaderStepIsLawful
<1>3. reader \in [Reader -> ReaderState] /\ Request \subseteq Reader
  BY <1>0 DEF Types, Reader
<1>4. reader' \in [Reader -> ReaderState]
  BY <1>2, <1>3 DEF Lawful
<1>5. answer' \in [Request -> {"none", "ok", "unavailable", "error"}]
  BY <1>0, OutcomesOfAStep DEF Types, Unanswered, Refuses, ShowsQueues, ShowsAll, Answers
<1>6. Types'
  <2>1. gauge' \in [Registry -> [Lane -> LaneGauges]]
    BY OutcomesOfAStep
  <2> QED BY <1>0, <1>1, <1>4, <1>5, <2>1 DEF Types
<1>7. ListsAreSent'
  BY <1>0, <1>1 DEF ListsAreSent, SentOnce
<1>8. RepliesAreSent'
  <2>1. \A y \in Reader : SentOnce(reader'[y].raw)
    BY <1>0, <1>2, <1>3 DEF RepliesAreSent, Lawful
  <2> QED BY <1>1, <2>1 DEF RepliesAreSent, SentOnce
<1>9. CollectsInOrder'
  <2>1. \A r \in Request : InOrder(reader'[r])
    BY <1>0, <1>2, <1>3 DEF CollectsInOrder, Lawful
  <2> QED BY <2>1 DEF CollectsInOrder, InOrder
<1>10. AnsweredAtTheEnd'
  <2>1. CASE Unanswered(x)
    BY <1>0, <1>2, <1>3, <2>1 DEF AnsweredAtTheEnd, Unanswered
  <2>2. CASE \E a : Answers(x, a)
    <3>1. PICK a : Answers(x, a)
      BY <2>2
    <3>2. reader'[x].step = "idle"
      BY <1>3, <3>1 DEF Answers, Idle
    <3>3. \A r \in Request : r # x => reader'[r] = reader[r] /\ answer'[r] = answer[r]
      BY <1>0, <1>3, <3>1 DEF Answers, Types
    <3> QED BY <1>0, <3>2, <3>3 DEF AnsweredAtTheEnd
  <2> QED BY <2>1, <2>2, OutcomesOfAStep DEF Refuses, ShowsQueues, ShowsAll
<1> QED
  BY <1>6, <1>7, <1>8, <1>9, <1>10, ReaderStepKeepsGauges DEF MonitorInv

LEMMA InitHasInv ==
    ASSUME MonitorInit
    PROVE  MonitorInv
<1>1. Types
  <2>1. \A x \in Reader : Idle \in ReaderState
    BY IdleIsLawful DEF Lawful
  <2>2. /\ list \in [Lane -> Seq(Entry)]
        /\ created \in [Entry -> Time \cup {Nil}]
        /\ redis \in {"up", "down"}
        /\ answer \in [Request -> {"none", "ok", "unavailable", "error"}]
        /\ settings \in Settings /\ present \in Deployments
    BY DEF MonitorInit
  <2>3. now \in 0..MaxTime
    BY Numbers DEF MonitorInit
  <2>4. reader \in [Reader -> ReaderState]
    BY <2>1 DEF MonitorInit
  <2>5. gauge \in [Registry -> [Lane -> LaneGauges]]
    BY DEF MonitorInit, LaneGauges
  <2> QED BY <2>2, <2>3, <2>4, <2>5 DEF Types
<1>2. ListsAreSent
  BY DEF MonitorInit, ListsAreSent, SentOnce
<1>3. \A x \in Reader : reader[x] = Idle
  BY DEF MonitorInit
<1>4. RepliesAreSent
  BY <1>3, IdleIsLawful DEF RepliesAreSent, Lawful
<1>5. CollectsInOrder /\ AnsweredAtTheEnd
  BY <1>3 DEF CollectsInOrder, AnsweredAtTheEnd, InOrder, Idle, Reader
<1>6. QueuesOfOneRequest /\ ScalingOfOneRequest
  BY DEF MonitorInit, QueuesOfOneRequest, ScalingOfOneRequest, Registry
<1> QED
  BY <1>1, <1>2, <1>4, <1>5, <1>6 DEF MonitorInv

\* The invariant holds in every state.
LEMMA MonitorInvHolds == MonitorSpec => []MonitorInv
<1>1. MonitorInit => MonitorInv
  BY InitHasInv
<1>2. MonitorInv /\ [MonitorNext]_monitorVars => MonitorInv'
  BY StepsAre, OtherStepKeepsInv, ReaderStepKeepsInv
<1> QED
  BY <1>1, <1>2, PTL DEF MonitorSpec

----------------------------------------------------------------------------
(* The properties. *)

\* A sequence without repetition is no longer than there are elements.
LEMMA DistinctIsBounded ==
    ASSUME NEW s \in Seq(Entry), SentOnce(s)
    PROVE  s \in UNION {[1 .. n -> Entry] : n \in 0 .. Cardinality(Entry)}
<1>1. s \in [1..Len(s) -> Entry] /\ Len(s) \in Nat
  BY LenProperties
<1>2. IsFiniteSet(Entry) /\ Cardinality(Entry) \in Nat
  BY MonitorAssumption, FS_CardinalityType
<1>3. IsFiniteSet(1..Len(s)) /\ Cardinality(1..Len(s)) = Len(s)
  <2>1. 1 \in Int /\ Len(s) \in Int
    BY <1>1
  <2>2. /\ IsFiniteSet(1..Len(s))
        /\ Cardinality(1..Len(s)) = IF 1 > Len(s) THEN 0 ELSE Len(s) - 1 + 1
    BY <2>1, FS_Interval, Zenon
  <2> QED BY <1>1, <2>2
<1>4. \A j, k \in 1..Len(s) : s[j] = s[k] => j = k
  BY <1>1 DEF SentOnce
<1>5. s \in Injection(1..Len(s), Entry)
  BY <1>1, <1>4 DEF Injection, IsInjective
<1>6. Len(s) <= Cardinality(Entry)
  BY <1>2, <1>3, <1>5, FS_Injection
<1> QED
  BY <1>1, <1>2, <1>6

\* Lists, replies, the readers' positions and the gauges have their types: above all,
\* a list and a reply never hold an entry twice, a reader never looks for a lane that
\* does not exist, and what a gauge shows is a number.
THEOREM MonitorTypeOKInvariant == MonitorSpec => []MonitorTypeOK
<1>1. MonitorInv => MonitorTypeOK
  <2> SUFFICES ASSUME MonitorInv PROVE MonitorTypeOK
    OBVIOUS
  <2> DEFINE lists == UNION {[1 .. n -> Entry] : n \in 0 .. Cardinality(Entry)}
  <2>0. Types /\ ListsAreSent /\ RepliesAreSent
    BY DEF MonitorInv
  <2>1. \A s \in Seq(Entry) : SentOnce(s) => s \in lists
    BY DistinctIsBounded
  <2> HIDE DEF lists
  <2>2. list \in [Lane -> lists]
    BY <2>0, <2>1 DEF Types, ListsAreSent
  <2>3. ASSUME NEW x \in Reader
        PROVE  /\ reader[x].step \in {"idle", "list", "reply", "close"}
               /\ reader[x].at \in DOMAIN Workloads
               /\ reader[x].raw \in lists
    <3>1. reader[x] \in ReaderState
      BY <2>0 DEF Types
    <3> QED BY <2>0, <2>1, <3>1 DEF ReaderState, RepliesAreSent
  <2>4. ASSUME NEW p \in Registry, NEW l \in Lane
        PROVE  /\ gauge[p][l].queue \in QueueGauges \cup {Nil}
               /\ gauge[p][l].scaling \in ScalingGauges \cup {Nil}
    <3>1. gauge[p][l] \in LaneGauges
      BY <2>0 DEF Types
    <3> QED BY <3>1 DEF LaneGauges
  <2> QED BY <2>0, <2>2, <2>3, <2>4 DEF MonitorTypeOK, Types, lists
<1> QED
  BY <1>1, MonitorInvHolds, PTL

\* The gauges that the gateway shows of its lanes come from one debug request, never
\* from two that overlap, and a recommendation is for the backlog that the same request
\* shows beside it.
THEOREM GatewayGaugesOfOneRequestInvariant == MonitorSpec => []GatewayGaugesOfOneRequest
<1>1. MonitorInv => GatewayGaugesOfOneRequest
  <2> SUFFICES ASSUME MonitorInv, NEW l \in Lane, NEW m \in Lane
               PROVE  LET a == gauge[Gateway][l]
                          b == gauge[Gateway][m]
                      IN  /\ a.queue = Nil <=> b.queue = Nil
                          /\ a.scaling = Nil <=> b.scaling = Nil
                          /\ a.queue # Nil => a.queue.by = b.queue.by
                          /\ a.scaling # Nil =>
                                /\ a.scaling.by = b.scaling.by
                                /\ a.scaling.by = a.queue.by =>
                                      a.scaling.of.backlog = a.queue.backlog
    BY Zenon DEF GatewayGaugesOfOneRequest
  <2> DEFINE a == gauge[Gateway][l]
             b == gauge[Gateway][m]
  <2>0. QueuesOfOneRequest /\ ScalingOfOneRequest
    BY DEF MonitorInv
  <2>1. /\ a.queue = Nil <=> b.queue = Nil
        /\ a.queue # Nil => a.queue.by = b.queue.by
    BY <2>0, NilAssumption DEF QueuesOfOneRequest
  <2>2. /\ a.scaling = Nil <=> b.scaling = Nil
        /\ a.scaling # Nil =>
              /\ a.scaling.by = b.scaling.by
              /\ a.scaling.by = a.queue.by => a.scaling.of.backlog = a.queue.backlog
    BY <2>0, NilAssumption DEF ScalingOfOneRequest
  <2> HIDE DEF a, b
  <2>3. /\ a.queue = Nil <=> b.queue = Nil
        /\ a.scaling = Nil <=> b.scaling = Nil
        /\ a.queue # Nil => a.queue.by = b.queue.by
        /\ a.scaling # Nil =>
              /\ a.scaling.by = b.scaling.by
              /\ a.scaling.by = a.queue.by => a.scaling.of.backlog = a.queue.backlog
    BY <2>1, <2>2
  <2> QED BY <2>3 DEF a, b
<1> QED
  BY <1>1, MonitorInvHolds, PTL

\* A debug request that Redis or the settings fail, at whatever lane it was, has set
\* none of the gateway's gauges.
THEOREM ErrorsSetNothingInvariant == MonitorSpec => []ErrorsSetNothing
<1>1. MonitorInv => ErrorsSetNothing
  <2> SUFFICES ASSUME MonitorInv, NEW r \in Request, NEW l \in Lane,
                      answer[r] \in {"unavailable", "error"}
               PROVE  /\ gauge[Gateway][l].queue # Nil => gauge[Gateway][l].queue.by # r
                      /\ gauge[Gateway][l].scaling # Nil => gauge[Gateway][l].scaling.by # r
    BY Zenon DEF ErrorsSetNothing
  <2>1. answer[r] # "ok"
    OBVIOUS
  <2>2. gauge[Gateway][l].queue # Nil => gauge[Gateway][l].queue.by # r
    BY <2>1 DEF MonitorInv, QueuesOfOneRequest
  <2>3. gauge[Gateway][l].scaling # Nil => gauge[Gateway][l].scaling.by # r
    BY <2>1 DEF MonitorInv, ScalingOfOneRequest
  <2> QED BY <2>2, <2>3
<1> QED
  BY <1>1, MonitorInvHolds, PTL

=============================================================================
