------------------------ MODULE BatchingMetricsProofs ------------------------
(***************************************************************************)
(* What the gauges and counters of the batched path are worth, for every   *)
(* number of gateways, workers, lanes and requests.  The gauges need to    *)
(* know how _pending changes: only by the request that sets the gauge, or  *)
(* with the process.                                                       *)
(***************************************************************************)
EXTENDS BatchingMetrics, ConservationProofs

\* A step of the system with its metrics is a step of the system.
LEMMA MetricsSpecIsSpec == MetricsSpec => Spec
<1>1. MetricsInit => Init
  BY DEF MetricsInit
<1>2. [MetricsNext]_metricVars => [Next]_vars
  BY DEF MetricsNext, metricVars
<1> QED
  BY <1>1, <1>2, PTL DEF MetricsSpec, Spec

LEMMA MetricsWhereabouts == MetricsSpec => []Whereabouts
BY MetricsSpecIsSpec, WhereaboutsInvariant

----------------------------------------------------------------------------
(* The batch counters. *)

BatchCounts == [claimed : Nat, completed : Nat, failed : Nat]

CountersAddUp == counted \in [Worker -> BatchCounts] /\ BatchesAddUp

\* How the place and the vectors of a worker change in one step.
WorkerMoves(w) ==
    \/ wpc'[w] = wpc[w] /\ data'[w] = data[w]
    \/ wpc'[w] = "down"
    \/ wpc[w] = "idle" /\ wpc'[w] = "claim"
    \/ wpc[w] = "claim" /\ wpc'[w] \in {"idle", "embed"}
    \/ wpc[w] = "embed" /\ wpc'[w] = "publish"
    \/ wpc[w] = "publish" /\ wpc'[w] = "expire" /\ data'[w] = data[w]
    \/ wpc[w] = "expire" /\ wpc'[w] = "reexpire" /\ data'[w] = data[w]
    \/ wpc[w] \in {"expire", "reexpire"} /\ wpc'[w] = "publish" /\ data'[w] = data[w]
    \/ wpc[w] \in {"expire", "reexpire", "down"} /\ wpc'[w] = "idle"

LEMMA StepMovesWorkers ==
    ASSUME Whereabouts, [Next]_vars, NEW v \in Worker
    PROVE  WorkerMoves(v)
<1>0. wpc \in [Worker -> WorkerPc] /\ data \in [Worker -> Seq(Child)]
  BY DEF Whereabouts, GenuineDelivery, GenuineAnswers, TypeOK, WorkerTypeOK
<1>1. CASE UNCHANGED workerVars
  BY <1>1 DEF workerVars, WorkerMoves
<1>2. ASSUME NEW w \in Worker,
             ReadClock(w) \/ ClaimBatch(w) \/ EmbedOk(w) \/ EmbedFails(w) \/ WorkerRestart(w)
      PROVE  WorkerMoves(v)
  BY <1>0, <1>2 DEF ReadClock, ClaimBatch, EmbedOk, EmbedFails, WorkerRestart, WorkerMoves
<1>3. ASSUME NEW w \in Worker, Publish(w) \/ PublishAgain(w) \/ SetTtl(w) \/ WorkerCrash(w)
      PROVE  WorkerMoves(v)
  BY <1>0, <1>3 DEF Publish, PublishAgain, SetTtl, WorkerCrash, Forget, WorkerMoves
<1>4. ASSUME NEW w \in Worker, ClaimAgain(w)
      PROVE  WorkerMoves(v)
  BY <1>1, <1>4 DEF ClaimAgain
<1>5. WorkerNormal \/ WorkerFault => WorkerMoves(v)
  BY <1>2, <1>3, <1>4 DEF WorkerNormal, WorkerFault
<1> QED
  BY <1>1, <1>5 DEF Next, vars

LEMMA StepAddsUp ==
    ASSUME Whereabouts, CountersAddUp, [MetricsNext]_metricVars
    PROVE  CountersAddUp'
<1>0. counted \in [Worker -> BatchCounts] /\ BatchesAddUp
  BY DEF CountersAddUp
<1>1. CASE UNCHANGED metricVars
  BY <1>0, <1>1 DEF metricVars, vars, workerVars, CountersAddUp, BatchesAddUp, Undecided
<1>2. CASE MetricsNext
  <2>1. CountBatches /\ [Next]_vars
    BY <1>2 DEF MetricsNext
  <2>2. ASSUME NEW w \in Worker
        PROVE  /\ counted'[w] \in BatchCounts
               /\ counted'[w].claimed =
                    counted'[w].completed + counted'[w].failed + Count(0, Undecided(w)')
    <3> DEFINE a == counted[w].claimed
               b == counted[w].completed
               f == counted[w].failed
    <3>1. /\ a \in Nat /\ b \in Nat /\ f \in Nat
          /\ a = b + f + Count(0, Undecided(w))
      <4>1. counted[w] \in BatchCounts
        BY <1>0
      <4> QED BY <1>0, <4>1 DEF BatchCounts, BatchesAddUp
    <3>2. CASE wpc'[w] = "down"
      <4>1. counted'[w] = NoBatches
        BY <2>1, <3>2 DEF CountBatches
      <4>2. ~ Undecided(w)'
        BY <3>2 DEF Undecided
      <4> QED BY <4>1, <4>2 DEF NoBatches, BatchCounts, Count
    <3>3. CASE wpc'[w] # "down"
      <4>1. counted'[w] = [claimed |-> Count(a, Claims(w)), completed |-> Count(b, Completes(w)),
                           failed |-> Count(f, Fails(w))]
        BY <2>1, <3>3 DEF CountBatches
      <4>2. /\ Count(a, Claims(w)) \in Nat /\ Count(b, Completes(w)) \in Nat
            /\ Count(f, Fails(w)) \in Nat
        BY <3>1 DEF Count
      <4>3. counted'[w] \in BatchCounts
        BY <4>1, <4>2 DEF BatchCounts
      <4>4. WorkerMoves(w)
        BY <2>1, StepMovesWorkers
\* What is undecided, and what is counted, by the way the worker moved.
      <4>5. \/ Claims(w) /\ ~ Completes(w) /\ ~ Fails(w) /\ ~ Undecided(w) /\ Undecided(w)'
            \/ ~ Claims(w) /\ Completes(w) /\ ~ Fails(w) /\ Undecided(w) /\ ~ Undecided(w)'
            \/ ~ Claims(w) /\ ~ Completes(w) /\ Fails(w) /\ Undecided(w) /\ ~ Undecided(w)'
            \/ ~ Claims(w) /\ ~ Completes(w) /\ ~ Fails(w) /\ (Undecided(w) <=> Undecided(w)')
        BY <3>3, <4>4 DEF WorkerMoves, Claims, Completes, Fails, Undecided
      <4>6. Count(a, Claims(w)) =
              Count(b, Completes(w)) + Count(f, Fails(w)) + Count(0, Undecided(w)')
        BY <3>1, <4>5 DEF Count
      <4> HIDE DEF a, b, f
      <4> QED BY <4>1, <4>3, <4>6
    <3> QED BY <3>2, <3>3
  <2>3. counted' \in [Worker -> BatchCounts]
    <3>1. \E F : counted' = [w \in Worker |-> F[w]]
      <4> DEFINE G == [w \in Worker |-> IF wpc'[w] = "down" THEN NoBatches
                         ELSE [claimed |-> Count(counted[w].claimed, Claims(w)),
                               completed |-> Count(counted[w].completed, Completes(w)),
                               failed |-> Count(counted[w].failed, Fails(w))]]
      <4>1. counted' = G
        BY <2>1 DEF CountBatches
      <4>2. G = [w \in Worker |-> G[w]]
        OBVIOUS
      <4> HIDE DEF G
      <4> QED BY <4>1, <4>2
    <3> QED BY <2>2, <3>1
  <2> QED BY <2>2, <2>3 DEF CountersAddUp, BatchesAddUp
<1> QED
  BY <1>1, <1>2

\* Whatever the worker, its batches and its crashes: what one process has claimed
\* is what it has completed, what it has failed, and the batch in its hands.
THEOREM BatchesAddUpInvariant == MetricsSpec => []BatchesAddUp
<1>1. MetricsInit => CountersAddUp
  BY DEF MetricsInit, Init, WorkerInit, NoBatches, BatchCounts, CountersAddUp, BatchesAddUp, Undecided, Count
<1>2. Whereabouts /\ CountersAddUp /\ [MetricsNext]_metricVars => CountersAddUp'
  BY StepAddsUp
<1>3. CountersAddUp => BatchesAddUp
  BY DEF CountersAddUp
<1> QED
  BY <1>1, <1>2, <1>3, MetricsWhereabouts, PTL DEF MetricsSpec

----------------------------------------------------------------------------
(* The pending gauges. *)

UnsentHasNoHome == \A r \in Request : phase[r] = "idle" => home[r] = Nil

PendingIsFinite == \A g \in Gateway : IsFiniteSet(pending[g])

\* One step adds to _pending the child a request of the gateway registers, or
\* takes away what a request registered, or what the process had.
PendingMoves(g) ==
    \/ pending'[g] = pending[g]
    \/ \E r \in Request : /\ Moved(r) /\ home'[r] = g
                          /\ \/ pending'[g] \subseteq pending[g]
                             \/ pending'[g] = pending[g] \cup {<<r, next'[r]>>}
    \/ pending'[g] = {} /\ gw'[g] # "up"

LEMMA RegisterMovesPending ==
    ASSUME Whereabouts, NEW r \in Request, NEW i, NEW h, NEW g \in Gateway,
           RegisterChild(r, i, h), home'[r] = h, next[r] # i
    PROVE  PendingMoves(g)
<1>0. pending \in [Gateway -> SUBSET Child] /\ next \in [Request -> Nat]
  BY DEF Whereabouts, GenuineDelivery, GenuineAnswers, TypeOK, GatewayTypeOK
<1>1. next'[r] = i /\ Moved(r)
  BY <1>0 DEF RegisterChild, Moved
<1>2. CASE h = g
  <2>1. pending'[g] = pending[g] \cup {<<r, next'[r]>>}
    BY <1>0, <1>1, <1>2 DEF RegisterChild
  <2> QED BY <1>1, <1>2, <2>1 DEF PendingMoves
<1>3. CASE h # g
  BY <1>0, <1>3 DEF RegisterChild, PendingMoves
<1> QED
  BY <1>2, <1>3

LEMMA FinishMovesPending ==
    ASSUME Whereabouts, NEW r \in Request, NEW rep, NEW g \in Gateway, Finish(r, rep), InFlight(r)
    PROVE  PendingMoves(g)
<1>0. /\ pending \in [Gateway -> SUBSET Child] /\ phase \in [Request -> Phase]
      /\ home[r] \in Gateway
  BY DEF Whereabouts, GenuineDelivery, GenuineAnswers, TypeOK, GatewayTypeOK, RequestsAtHome
<1>1. Moved(r) /\ home'[r] = home[r]
  BY <1>0 DEF Finish, Moved
<1>2. CASE home[r] = g
  <2>1. pending'[g] \subseteq pending[g]
    BY <1>0, <1>2 DEF Finish
  <2> QED BY <1>1, <1>2, <2>1 DEF PendingMoves
<1>3. CASE home[r] # g
  BY <1>0, <1>3 DEF Finish, PendingMoves
<1> QED
  BY <1>2, <1>3

LEMMA StepMovesPending ==
    ASSUME Whereabouts, [Next]_vars, NEW g \in Gateway
    PROVE  PendingMoves(g)
<1>0. /\ pending \in [Gateway -> SUBSET Child] /\ phase \in [Request -> Phase]
      /\ next \in [Request -> Nat] /\ home \in [Request -> Gateway \cup {Nil}]
      /\ gw \in [Gateway -> {"up", "stopping", "stopped", "down"}]
  BY DEF Whereabouts, GenuineDelivery, GenuineAnswers, TypeOK, GatewayTypeOK
<1>1. CASE UNCHANGED pending
  BY <1>1 DEF PendingMoves
<1>2. ASSUME NEW r \in Request, NEW h \in Gateway, Accept(r, h)
      PROVE  PendingMoves(g)
  <2>1. home'[r] = h /\ next[r] # 1 /\ RegisterChild(r, 1, h)
    BY <1>0, <1>2 DEF Accept, Whereabouts, UnsentIsNew
  <2> QED BY <2>1, RegisterMovesPending
<1>3. ASSUME NEW r \in Request, PushReturns(r)
      PROVE  PendingMoves(g)
  <2>1. CASE RegisterChild(r, next[r] + 1, home[r])
    <3>1. home'[r] = home[r] /\ next[r] # next[r] + 1
      BY <1>0, <1>3 DEF PushReturns
    <3> QED BY <2>1, <3>1, RegisterMovesPending
  <2>2. CASE UNCHANGED pending
    BY <1>1, <2>2
  <2> QED BY <1>3, <2>1, <2>2 DEF PushReturns
<1>4. ASSUME NEW r \in Request, Collect(r) \/ TimeoutFinish(r) \/ PushError(r)
      PROVE  PendingMoves(g)
  <2>1. InFlight(r) /\ \E rep : Finish(r, rep)
    BY <1>4, Zenon DEF Collect, TimeoutFinish, PushError, InFlight
  <2> QED BY <2>1, FinishMovesPending
<1>5. ASSUME NEW r \in Request, NEW h \in Gateway,
             Reject(r, h) \/ Push(r) \/ PushAgain(r) \/ TimeoutFires(r)
      PROVE  UNCHANGED pending
  BY <1>5 DEF Reject, Push, PushAgain, TimeoutFires
<1>6. ASSUME NEW h \in Gateway, StopEnd(h) \/ GatewayCrash(h)
      PROVE  PendingMoves(g)
  BY <1>0, <1>6 DEF StopEnd, GatewayCrash, PendingMoves
<1>7. ASSUME NEW h \in Gateway,
             ListenerStep(h) \/ GatewayRestart(h) \/ ListenerError(h) \/ StopBegin(h)
      PROVE  UNCHANGED pending
  BY <1>7 DEF ListenerStep, BlpopEmbeddingResult, Deliver, GatewayRestart, ListenerError, StopBegin
<1>8. GatewayNormal \/ GatewayFault => PendingMoves(g)
  BY <1>1, <1>2, <1>3, <1>4, <1>5, <1>6, <1>7 DEF GatewayNormal, GatewayFault, RequestStep
<1> QED
  BY <1>1, <1>8 DEF Next, vars, gatewayVars

LEMMA StepKeepsHomeless ==
    ASSUME Whereabouts, UnsentHasNoHome, [Next]_vars
    PROVE  UnsentHasNoHome'
<1> SUFFICES ASSUME NEW q \in Request, phase'[q] = "idle" PROVE home'[q] = Nil
  BY DEF UnsentHasNoHome
<1>0. /\ home \in [Request -> Gateway \cup {Nil}] /\ phase \in [Request -> Phase]
      /\ phase[q] = "idle" /\ home[q] = Nil
  BY StepKeepsHomes DEF HomesStay, UnsentHasNoHome, Whereabouts, GenuineDelivery, GenuineAnswers,
                        TypeOK, GatewayTypeOK
<1>1. CASE UNCHANGED home
  BY <1>0, <1>1
<1>2. ASSUME NEW r \in Request, NEW h \in Gateway, Accept(r, h) \/ Reject(r, h)
      PROVE  home'[q] = Nil
  BY <1>0, <1>2 DEF Accept, Reject, RegisterChild
<1>3. ASSUME NEW r \in Request, RequestStep(r) \/ PushError(r) \/ PushAgain(r)
      PROVE  UNCHANGED home
  BY <1>3, Zenon DEF RequestStep, PushError, PushAgain, Push, PushReturns, Collect, TimeoutFires,
                     TimeoutFinish, Finish
<1>4. ASSUME NEW h \in Gateway,
             \/ ListenerStep(h) \/ StopEnd(h) \/ GatewayRestart(h) \/ ListenerError(h)
             \/ StopBegin(h) \/ GatewayCrash(h)
      PROVE  UNCHANGED home
  BY <1>4, Zenon DEF ListenerStep, BlpopEmbeddingResult, Deliver, StopEnd, GatewayRestart, ListenerError,
                     StopBegin, GatewayCrash
<1>5. GatewayNormal \/ GatewayFault => home'[q] = Nil
  BY <1>1, <1>2, <1>3, <1>4 DEF GatewayNormal, GatewayFault
<1> QED
  BY <1>1, <1>5 DEF Next, vars, gatewayVars

LEMMA StepKeepsFinite ==
    ASSUME Whereabouts, PendingIsFinite, [Next]_vars
    PROVE  PendingIsFinite'
<1> SUFFICES ASSUME NEW g \in Gateway PROVE IsFiniteSet(pending'[g])
  BY DEF PendingIsFinite
<1>1. IsFiniteSet(pending[g])
  BY DEF PendingIsFinite
<1>2. CASE pending'[g] = pending[g] \/ pending'[g] \subseteq pending[g]
  BY <1>1, <1>2, FS_Subset
<1>3. ASSUME NEW c, pending'[g] = pending[g] \cup {c}
      PROVE  IsFiniteSet(pending'[g])
  BY <1>1, <1>3, FS_AddElement
<1>4. PendingMoves(g)
  BY StepMovesPending
<1> QED
  BY <1>1, <1>2, <1>3, <1>4, FS_EmptySet DEF PendingMoves

GaugesInvariant ==
    /\ gauge \in [Gateway -> [Lane -> Nat]]
    /\ \A g \in Gateway : gw[g] = "down" => gauge[g] = NoPending
    /\ UnsentHasNoHome
    /\ PendingIsFinite
    /\ GaugeHidesNothing
    /\ GaugeExactForOneLane

\* Some request of the lane sets the lane's gauge in this step.
Sets(g, l) == \E r \in Request : home'[r] = g /\ LaneOf[r] = l /\ Moved(r)

LEMMA GaugeIs ==
    ASSUME SetGauges, NEW g \in Gateway, NEW l \in Lane
    PROVE  /\ gw'[g] = "down" => gauge'[g][l] = 0
           /\ gw'[g] # "down" /\ Sets(g, l) => gauge'[g][l] = Cardinality(pending'[g])
           /\ gw'[g] # "down" /\ ~ Sets(g, l) => gauge'[g][l] = gauge[g][l]
BY DEF SetGauges, SetPendingMetrics, NoPending, Sets

\* What does not set the gauge of a lane makes no more children of it wait.
LEMMA NotSetNotWaiting ==
    ASSUME Whereabouts, [Next]_vars, NEW g \in Gateway, NEW l \in Lane, ~ Sets(g, l)
    PROVE  Waiting(g, l)' \subseteq Waiting(g, l)
<1>1. PendingMoves(g)
  BY StepMovesPending
<1>2. ASSUME NEW c \in pending'[g], LaneOf[c[1]] = l
      PROVE  c \in pending[g]
  BY <1>1, <1>2 DEF PendingMoves, Sets
<1> QED
  BY <1>2 DEF Waiting

LEMMA StepHidesNothing ==
    ASSUME Whereabouts, Whereabouts', GaugesInvariant, PendingIsFinite', [Next]_vars, SetGauges,
           NEW g \in Gateway, NEW l \in Lane
    PROVE  gauge'[g][l] >= Cardinality(Waiting(g, l)')
<1>0. /\ IsFiniteSet(pending[g]) /\ IsFiniteSet(pending'[g])
      /\ gauge[g][l] \in Nat /\ gauge[g][l] >= Cardinality(Waiting(g, l))
  BY DEF GaugesInvariant, PendingIsFinite, GaugeHidesNothing
<1>1. CASE gw'[g] = "down"
  <2>1. pending'[g] = {}
    BY <1>1 DEF Whereabouts, GenuineDelivery, PendingIsRegistered
  <2>2. Waiting(g, l)' = {}
    BY <2>1 DEF Waiting
  <2> QED BY <1>1, <2>2, GaugeIs, FS_EmptySet
<1>2. CASE gw'[g] # "down" /\ Sets(g, l)
  <2>1. Waiting(g, l)' \subseteq pending'[g]
    BY DEF Waiting
  <2>2. /\ Cardinality(Waiting(g, l)') <= Cardinality(pending'[g])
        /\ Cardinality(Waiting(g, l)') \in Nat /\ Cardinality(pending'[g]) \in Nat
    BY <1>0, <2>1, FS_Subset, FS_CardinalityType
  <2> QED BY <1>2, <2>2, GaugeIs
<1>3. CASE gw'[g] # "down" /\ ~ Sets(g, l)
  <2>1. Waiting(g, l)' \subseteq Waiting(g, l)
    BY <1>3, NotSetNotWaiting
  <2>2. IsFiniteSet(Waiting(g, l))
    <3>1. Waiting(g, l) \subseteq pending[g]
      BY DEF Waiting
    <3> QED BY <1>0, <3>1, FS_Subset
  <2>3. /\ Cardinality(Waiting(g, l)') <= Cardinality(Waiting(g, l))
        /\ Cardinality(Waiting(g, l)') \in Nat /\ Cardinality(Waiting(g, l)) \in Nat
    BY <2>1, <2>2, FS_Subset, FS_CardinalityType
  <2>4. gauge'[g][l] = gauge[g][l]
    BY <1>3, GaugeIs
  <2> QED BY <1>0, <2>3, <2>4
<1> QED
  BY <1>1, <1>2, <1>3

LEMMA StepIsExact ==
    ASSUME Whereabouts, GaugesInvariant, [Next]_vars, SetGauges, NEW g \in Gateway, NEW l \in Lane,
           gw'[g] = "up", \A r \in Request : home'[r] = g => LaneOf[r] = l
    PROVE  gauge'[g][l] = Cardinality(pending'[g])
<1>1. CASE \E r \in Request : home'[r] = g /\ Moved(r)
  <2>1. Sets(g, l)
    BY <1>1 DEF Sets
  <2> QED BY <2>1, GaugeIs
<1>2. CASE \A r \in Request : home'[r] = g => ~ Moved(r)
  <2>1. gauge'[g][l] = gauge[g][l]
    BY <1>2, GaugeIs DEF Sets
  <2>2. pending'[g] = pending[g]
    BY <1>2, StepMovesPending DEF PendingMoves
  <2>3. CASE gw[g] = "up"
    <3>1. ASSUME NEW r \in Request, home[r] = g PROVE LaneOf[r] = l
      <4>1. phase[r] # "idle"
        BY <3>1, NilAssumption DEF GaugesInvariant, UnsentHasNoHome
      <4>2. home'[r] = g
        BY <3>1, <4>1, StepKeepsHomes DEF HomesStay, Whereabouts
      <4> QED BY <4>2
    <3>2. gauge[g][l] = Cardinality(pending[g])
      BY <2>3, <3>1 DEF GaugesInvariant, GaugeExactForOneLane
    <3> QED BY <2>1, <2>2, <3>2
  <2>4. CASE gw[g] = "down"
    <3>1. pending[g] = {} /\ gauge[g] = NoPending
      BY <2>4 DEF GaugesInvariant, Whereabouts, GenuineDelivery, PendingIsRegistered
    <3>2. gauge[g][l] = 0
      BY <3>1 DEF NoPending
    <3> QED BY <2>1, <2>2, <3>1, <3>2, FS_EmptySet
  <2> QED BY <2>3, <2>4, StepOfUp
<1> QED
  BY <1>1, <1>2

LEMMA StepKeepsGauges ==
    ASSUME Whereabouts, Whereabouts', GaugesInvariant, [MetricsNext]_metricVars
    PROVE  GaugesInvariant'
<1>1. CASE UNCHANGED metricVars
  BY <1>1 DEF metricVars, vars, gatewayVars, GaugesInvariant, UnsentHasNoHome, PendingIsFinite,
              GaugeHidesNothing, GaugeExactForOneLane, Waiting
<1>2. CASE MetricsNext
  <2>1. [Next]_vars /\ SetGauges
    BY <1>2 DEF MetricsNext
  <2>2. UnsentHasNoHome' /\ PendingIsFinite'
    BY <2>1, StepKeepsHomeless, StepKeepsFinite DEF GaugesInvariant
  <2>3. gauge' \in [Gateway -> [Lane -> Nat]]
    <3>1. ASSUME NEW g \in Gateway, NEW l \in Lane PROVE gauge'[g][l] \in Nat
      <4>1. gauge[g][l] \in Nat /\ Cardinality(pending'[g]) \in Nat
        BY <2>2, FS_CardinalityType DEF GaugesInvariant, PendingIsFinite
      <4> QED BY <2>1, <4>1, GaugeIs
    <3>2. /\ gauge' = [g \in Gateway |-> gauge'[g]]
          /\ \A g \in Gateway : gauge'[g] = [l \in Lane |-> gauge'[g][l]]
      BY <2>1 DEF SetGauges, SetPendingMetrics, NoPending
    <3>3. \A g \in Gateway : gauge'[g] \in [Lane -> Nat]
      BY <3>1, <3>2
    <3> QED BY <3>2, <3>3
  <2>4. \A g \in Gateway : gw'[g] = "down" => gauge'[g] = NoPending
    BY <2>1 DEF SetGauges
  <2>5. GaugeHidesNothing'
    BY <2>1, <2>2, StepHidesNothing DEF GaugeHidesNothing
  <2>6. GaugeExactForOneLane'
    BY <2>1, StepIsExact DEF GaugeExactForOneLane
  <2>7. NoPending' = NoPending
    BY DEF NoPending
  <2> QED BY <2>2, <2>3, <2>4, <2>5, <2>6, <2>7 DEF GaugesInvariant
<1> QED
  BY <1>1, <1>2

LEMMA InitIsShown == MetricsInit => GaugesInvariant
<1> SUFFICES ASSUME MetricsInit PROVE GaugesInvariant
  OBVIOUS
<1>1. /\ gauge = [g \in Gateway |-> NoPending] /\ pending = [g \in Gateway |-> {}]
      /\ gw = [g \in Gateway |-> "up"] /\ home = [r \in Request |-> Nil]
  BY DEF MetricsInit, Init, GatewayInit
<1>2. Cardinality({}) = 0 /\ IsFiniteSet({})
  BY FS_EmptySet
<1>3. \A g \in Gateway, l \in Lane : Waiting(g, l) = {} /\ gauge[g][l] = 0
  BY <1>1 DEF Waiting, NoPending
<1>4. gauge \in [Gateway -> [Lane -> Nat]]
  BY <1>1 DEF NoPending
<1>5. \A g \in Gateway : gw[g] # "down" /\ pending[g] = {}
  BY <1>1
<1>6. GaugeHidesNothing
  BY <1>2, <1>3 DEF GaugeHidesNothing
<1>7. GaugeExactForOneLane
  BY <1>2, <1>3, <1>5 DEF GaugeExactForOneLane
<1> QED
  BY <1>1, <1>2, <1>4, <1>5, <1>6, <1>7 DEF GaugesInvariant, UnsentHasNoHome, PendingIsFinite

\* The gauges with what they depend on, inductive together with Whereabouts.
THEOREM GaugesInvariantHolds == MetricsSpec => []GaugesInvariant
<1>1. Whereabouts /\ Whereabouts' /\ GaugesInvariant /\ [MetricsNext]_metricVars => GaugesInvariant'
  BY StepKeepsGauges
<1> QED
  BY <1>1, InitIsShown, MetricsWhereabouts, PTL DEF MetricsSpec

\* A lane's pending gauge is at least the number of its children that wait, though
\* the other lanes' requests, stop() and crashes change _pending as well.
THEOREM GaugeHidesNothingInvariant == MetricsSpec => []GaugeHidesNothing
<1>1. GaugesInvariant => GaugeHidesNothing
  BY DEF GaugesInvariant
<1> QED
  BY <1>1, GaugesInvariantHolds, PTL

\* Where every request is of one lane, the lane's gauge is exactly the number of
\* pending children of an up gateway, restarts included.
THEOREM GaugeExactForOneLaneInvariant == MetricsSpec => []GaugeExactForOneLane
<1>1. GaugesInvariant => GaugeExactForOneLane
  BY DEF GaugesInvariant
<1> QED
  BY <1>1, GaugesInvariantHolds, PTL

=============================================================================
