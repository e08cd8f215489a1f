-------------------------- MODULE AutoscalingProofs --------------------------
(***************************************************************************)
(* The recommendation for every setting that recommend_replicas accepts    *)
(* and every backlog: the properties of LaneAutoscaler hold for any sets   *)
(* of settings and backlogs.                                               *)
(***************************************************************************)
EXTENDS LaneAutoscaler, TLAPS

\* What a ceiling is: the least multiple of b that covers a.
LEMMA CeilDivIsCeiling ==
    ASSUME NEW a \in Nat, NEW b \in Nat, b > 0
    PROVE  /\ CeilDiv(a, b) \in Nat
           /\ CeilDiv(a, b) * b >= a
           /\ CeilDiv(a, b) * b < a + b
BY SMT DEF CeilDiv

\* Rounding up keeps the order of the backlogs.
LEMMA CeilDivMonotone ==
    ASSUME NEW a \in Nat, NEW c \in Nat, a <= c, NEW b \in Nat, b > 0
    PROVE  CeilDiv(a, b) <= CeilDiv(c, b)
BY SMT DEF CeilDiv

\* A number covers a exactly from the ceiling on.
LEMMA CeilDivIsLeast ==
    ASSUME NEW a \in Nat, NEW b \in Nat, b > 0, NEW n \in Nat
    PROVE  n * b >= a <=> n >= CeilDiv(a, b)
<1> DEFINE q == CeilDiv(a, b)
<1>1. q \in Nat /\ q * b >= a /\ q * b < a + b
  BY CeilDivIsCeiling
<1> HIDE DEF q
<1>2. CASE n >= q
  <2>1. (n - q) * b >= 0
    BY <1>1, <1>2, SMT
  <2>2. n * b = q * b + (n - q) * b
    BY <1>1, SMT
  <2> QED BY <1>1, <1>2, <2>1, <2>2 DEF q
<1>3. CASE n < q
  <2>1. (q - 1 - n) * b >= 0
    BY <1>1, <1>3, SMT
  <2>2. q * b = n * b + (q - 1 - n) * b + b
    BY <1>1, SMT
  <2>3. q * b \in Int /\ n * b \in Int /\ (q - 1 - n) * b \in Int
    BY <1>1, SMT
  <2> QED BY <1>1, <1>3, <2>1, <2>2, <2>3 DEF q
<1> QED BY <1>1, <1>2, <1>3

----------------------------------------------------------------------------
\* The gauges are those of the backlog they were computed from.
ShownIsComputed ==
    /\ settings \in Settings
    /\ shown.backlog \in Nat
    /\ shown = Recommendation(shown.backlog, settings)

\* Every state of a lane's gauges is the recommendation for some backlog.
THEOREM GaugesAreComputed == ScalerSpec => []ShownIsComputed
<1>1. ASSUME NEW s \in Settings, NEW b \in Nat
      PROVE  /\ Recommendation(b, s).backlog = b
             /\ Recommendation(b, s) = Recommendation(Recommendation(b, s).backlog, s)
  BY DEF Recommendation, AtLeast
<1>2. ScalerInit => ShownIsComputed
  BY <1>1, BacklogAssumption DEF ScalerInit, ShownIsComputed
<1>3. ShownIsComputed /\ [Refresh]_scalerVars => ShownIsComputed'
  <2> SUFFICES ASSUME ShownIsComputed, [Refresh]_scalerVars
               PROVE  ShownIsComputed'
    OBVIOUS
  <2>1. CASE Refresh
    BY <1>1, <2>1, BacklogAssumption DEF Refresh, ShownIsComputed
  <2>2. CASE UNCHANGED scalerVars
    BY <2>2 DEF scalerVars, ShownIsComputed
  <2> QED BY <2>1, <2>2
<1> QED BY <1>2, <1>3, PTL DEF ScalerSpec

\* The settings, as integers the recommendation accepts.
LEMMA SettingsAreAccepted ==
    ASSUME NEW s \in Settings
    PROVE  /\ s.tps \in Int /\ s.current \in Int
           /\ s.target \in Nat /\ s.target > 0
           /\ s.min \in Nat /\ s.max \in Nat /\ s.min <= s.max
BY SettingsAssumption DEF LaneSettings, Accepted

\* A lane that does not work has no throughput.
LEMMA StoppedHasNoThroughput ==
    ASSUME NEW s \in Settings, ~(s.current > 0 /\ s.tps > 0), NEW b \in Nat
    PROVE  /\ TotalCurrentTps(s) = 0
           /\ Recommended(b, s) = IF b = 0 THEN s.min ELSE s.max
<1>1. s.tps \in Int /\ s.current \in Int
  BY SettingsAreAccepted
<1>2. TotalCurrentTps(s) = 0
  <2>1. CASE s.tps <= 0
    BY <1>1, <2>1, SMT DEF TotalCurrentTps, SafePerReplica, AtLeast
  <2>2. CASE s.current <= 0
    BY <1>1, <2>2, SMT DEF TotalCurrentTps, SafePerReplica, AtLeast
  <2> QED BY <1>1, <2>1, <2>2
<1>3. RawRecommended(b, s) = IF b = 0 THEN s.min ELSE s.max
  BY <1>2 DEF RawRecommended
<1> QED BY <1>2, <1>3, SettingsAreAccepted DEF Recommended, AtMost, AtLeast

\* What is recommended to a lane that works: the ceiling, within the bounds.
LEMMA WorkingRecommendation ==
    ASSUME NEW s \in Settings, s.current > 0, s.tps > 0, NEW b \in Nat
    PROVE  LET d == s.target * s.tps
               q == CeilDiv(b, d)
           IN  /\ d \in Nat /\ d > 0 /\ q \in Nat
               /\ Recommended(b, s) = IF q >= s.max THEN s.max
                                      ELSE IF q >= s.min THEN q ELSE s.min
<1> DEFINE d == s.target * s.tps
           q == CeilDiv(b, d)
<1>1. d \in Nat /\ d > 0
  BY SettingsAreAccepted, SMT
<1>2. SafePerReplica(s) = s.tps
  BY SettingsAreAccepted DEF SafePerReplica, AtLeast
<1>3. TotalCurrentTps(s) > 0
  <2>1. TotalCurrentTps(s) = s.tps * s.current
    BY <1>2, SettingsAreAccepted DEF TotalCurrentTps, AtLeast
  <2> QED BY <2>1, SettingsAreAccepted, SMT
<1>4. TotalCurrentTps(s) \in Int
  BY <1>2, SettingsAreAccepted, SMT DEF TotalCurrentTps, AtLeast
<1>5. q \in Nat
  BY <1>1, CeilDivIsCeiling
<1>6. RawRecommended(b, s) = IF b = 0 THEN s.min ELSE q
  BY <1>2, <1>3, <1>4 DEF RawRecommended
<1>7. b = 0 => q = 0
  <2>1. b = 0 => 0 * d >= b
    BY <1>1, SMT
  <2> QED BY <2>1, <1>1, <1>5, CeilDivIsLeast
<1> HIDE DEF d, q
<1>8. Recommended(b, s) = IF q >= s.max THEN s.max
                          ELSE IF q >= s.min THEN q ELSE s.min
  BY <1>5, <1>6, <1>7, SettingsAreAccepted DEF Recommended, AtMost, AtLeast
<1> QED BY <1>1, <1>5, <1>8 DEF d, q

\* Draining in time is reaching the ceiling.
LEMMA DrainsFromTheCeiling ==
    ASSUME ShownIsComputed, Working, NEW n \in Nat
    PROVE  Drains(n) <=> n >= CeilDiv(shown.backlog, settings.target * settings.tps)
<1> DEFINE d == settings.target * settings.tps
<1>1. settings \in Settings /\ shown.backlog \in Nat
  BY DEF ShownIsComputed
<1>2. d \in Nat /\ d > 0
  BY <1>1, SettingsAreAccepted, SMT DEF Working
<1>3. n * settings.tps * settings.target = n * d
  BY <1>1, SettingsAreAccepted, SMT
<1>4. n * d >= shown.backlog <=> n >= CeilDiv(shown.backlog, d)
  BY <1>1, <1>2, CeilDivIsLeast
<1> QED BY <1>3, <1>4 DEF Drains

\* The recommendation is the least number of replicas that drains the backlog in
\* time, within the bounds, for all settings and backlogs.
THEOREM RecommendationIsLeast == ScalerSpec => []LeastThatDrains
<1>1. ShownIsComputed => LeastThatDrains
  <2> SUFFICES ASSUME ShownIsComputed, Working
               PROVE  LeastThatDrains
    BY DEF LeastThatDrains
  <2> DEFINE s == settings
             q == CeilDiv(shown.backlog, s.target * s.tps)
  <2>1. /\ s \in Settings
        /\ s.min \in Nat /\ s.max \in Nat /\ s.min <= s.max
    BY SettingsAreAccepted DEF ShownIsComputed
  <2>2. shown.replicas = Recommended(shown.backlog, s)
    BY DEF ShownIsComputed, Recommendation
  <2>3. /\ q \in Nat
        /\ shown.replicas = IF q >= s.max THEN s.max
                            ELSE IF q >= s.min THEN q ELSE s.min
    BY <2>1, <2>2, WorkingRecommendation DEF ShownIsComputed, Working
  <2>4. \A n \in Nat : Drains(n) <=> n >= q
    BY DrainsFromTheCeiling
  <2> HIDE DEF s, q
  <2>5. shown.replicas \in s.min .. s.max
    BY <2>1, <2>3
  <2>6. Drains(shown.replicas) \/ shown.replicas = s.max
    BY <2>1, <2>3, <2>4
  <2>7. \A n \in s.min .. (shown.replicas - 1) : ~Drains(n)
    BY <2>1, <2>3, <2>4
  <2> QED BY <2>5, <2>6, <2>7 DEF LeastThatDrains, s
<1> QED BY <1>1, GaugesAreComputed, PTL

\* The recommendation grows with the backlog, from any refresh to the next.
THEOREM RecommendationIsMonotone == ScalerSpec => MoreWorkNeverFewerReplicas
<1>1. ASSUME NEW s \in Settings, NEW b \in Nat, NEW c \in Nat, b <= c
      PROVE  /\ Recommended(b, s) \in Nat /\ Recommended(c, s) \in Nat
             /\ Recommended(b, s) <= Recommended(c, s)
  <2>1. s.min \in Nat /\ s.max \in Nat /\ s.min <= s.max
    BY SettingsAreAccepted
  <2>2. CASE s.current > 0 /\ s.tps > 0
    <3> DEFINE d == s.target * s.tps
               q(x) == CeilDiv(x, d)
    <3>1. d \in Nat /\ d > 0 /\ q(b) \in Nat /\ q(c) \in Nat
      BY <2>2, WorkingRecommendation
    <3>2. q(b) <= q(c)
      <4> HIDE DEF d
      <4> QED BY <1>1, <3>1, CeilDivMonotone
    <3>3. \A x \in {b, c} : Recommended(x, s) = IF q(x) >= s.max THEN s.max
                                               ELSE IF q(x) >= s.min THEN q(x) ELSE s.min
      BY <2>2, WorkingRecommendation
    <3> HIDE DEF q
    <3> QED BY <2>1, <3>1, <3>2, <3>3
  <2>3. CASE ~(s.current > 0 /\ s.tps > 0)
    BY <1>1, <2>1, <2>3, StoppedHasNoThroughput
  <2> QED BY <2>2, <2>3
<1>2. ShownIsComputed /\ ShownIsComputed' /\ [Refresh]_scalerVars
        => [shown'.backlog >= shown.backlog => shown'.replicas >= shown.replicas]_scalerVars
  <2> SUFFICES ASSUME ShownIsComputed, ShownIsComputed', Refresh,
                      shown'.backlog >= shown.backlog
               PROVE  shown'.replicas >= shown.replicas
    OBVIOUS
  <2>1. settings' = settings
    BY DEF Refresh
  <2>2. /\ shown.replicas = Recommended(shown.backlog, settings)
        /\ shown'.replicas = Recommended(shown'.backlog, settings)
    BY <2>1 DEF ShownIsComputed, Recommendation
  <2> QED BY <1>1, <2>1, <2>2 DEF ShownIsComputed
<1> QED BY <1>2, GaugesAreComputed, PTL DEF ScalerSpec, MoreWorkNeverFewerReplicas

\* Within the bounds, the recommendation exceeds the replicas there are exactly
\* when the drain time shown beside it exceeds the target.
THEOREM RecommendationAgreesWithDrainTime == ScalerSpec => []GaugesAgree
<1>1. ShownIsComputed => GaugesAgree
  <2> SUFFICES ASSUME ShownIsComputed,
                      settings.current \in settings.min .. (settings.max - 1)
               PROVE  shown.replicas > settings.current
                        <=> shown.drain.num > settings.target * shown.drain.den
    BY DEF GaugesAgree
  <2> DEFINE s == settings
             b == shown.backlog
  <2>1. /\ s \in Settings /\ b \in Nat
        /\ s.tps \in Int /\ s.current \in Nat /\ s.target \in Nat /\ s.target > 0
        /\ s.min \in Nat /\ s.max \in Nat /\ s.min <= s.current /\ s.current < s.max
    BY SettingsAreAccepted DEF ShownIsComputed
  <2>2. shown.replicas = Recommended(b, s) /\ shown.drain = DrainTime(b, s)
    BY DEF ShownIsComputed, Recommendation
  <2>3. CASE Working
    <3> DEFINE d == s.target * s.tps
    <3>1. /\ d \in Nat /\ d > 0 /\ CeilDiv(b, d) \in Nat
          /\ shown.replicas = IF CeilDiv(b, d) >= s.max THEN s.max
                              ELSE IF CeilDiv(b, d) >= s.min THEN CeilDiv(b, d) ELSE s.min
      BY <2>1, <2>2, <2>3, WorkingRecommendation DEF Working
    <3>2. s.current * s.tps * s.target >= b <=> s.current >= CeilDiv(b, d)
      BY <2>1, <2>3, DrainsFromTheCeiling DEF Drains
    <3>3. shown.replicas > s.current <=> ~(s.current * s.tps * s.target >= b)
      <4> HIDE DEF d, s, b
      <4> QED BY <2>1, <3>1, <3>2
    <3>4. /\ TotalCurrentTps(s) = s.tps * s.current
          /\ s.tps * s.current \in Int /\ s.tps * s.current > 0
      <4>1. s.tps * s.current \in Int /\ s.tps * s.current > 0
        BY <2>1, <2>3, SMT DEF Working
      <4> QED BY <2>1, <2>3, <4>1 DEF TotalCurrentTps, SafePerReplica, AtLeast, Working
    <3>5. CASE b = 0
      <4>1. s.current * s.tps * s.target >= 0
        BY <2>1, <2>3, SMT DEF Working
      <4>2. shown.drain.num = 0 /\ shown.drain.den = 1
        BY <2>2, <3>5 DEF DrainTime, Fraction
      <4> QED BY <2>1, <3>3, <3>5, <4>1, <4>2
    <3>6. CASE b > 0
      <4>1. shown.drain.num = b /\ shown.drain.den = s.tps * s.current
        BY <2>1, <2>2, <3>4, <3>6 DEF DrainTime, Fraction
      <4>2. s.target * (s.tps * s.current) = s.current * s.tps * s.target
        BY <2>1, SMT
      <4>3. s.current * s.tps * s.target \in Int
        BY <2>1, SMT
      <4> QED BY <2>1, <3>3, <4>1, <4>2, <4>3
    <3> QED BY <2>1, <3>5, <3>6
  <2>4. CASE ~Working
    <3>1. /\ TotalCurrentTps(s) = 0
          /\ shown.replicas = IF b = 0 THEN s.min ELSE s.max
      BY <2>1, <2>2, <2>4, StoppedHasNoThroughput DEF Working
    <3>2. shown.drain = IF b = 0 THEN [num |-> 0, den |-> 1] ELSE [num |-> 1, den |-> 0]
      BY <2>1, <2>2, <3>1 DEF DrainTime, Fraction, Never
    <3> QED BY <2>1, <3>1, <3>2
  <2> QED BY <2>3, <2>4
<1> QED BY <1>1, GaugesAreComputed, PTL

=============================================================================
