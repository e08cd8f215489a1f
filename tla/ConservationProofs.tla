-------------------------- MODULE ConservationProofs --------------------------
(***************************************************************************)
(* Where the copies of a child can be, and what a step does to them: while *)
(* no command is repeated a child is in one place at a time and passes     *)
(* through the stations of ChildLife, and while nothing that a client      *)
(* still waits for can be dropped, nothing is.                             *)
(***************************************************************************)
EXTENDS BatchingProofs, FiniteSetTheorems

----------------------------------------------------------------------------
(* Whereabouts. *)

LEMMA StepKeepsHomes ==
    ASSUME GenuineDelivery, [Next]_vars
    PROVE  HomesStay
<1>1. CASE (GatewayNormal \/ GatewayFault) /\ UNCHANGED workerVars
  BY <1>1, GatewayStepKeepsHomes
<1>2. CASE UNCHANGED gatewayVars
  BY <1>2 DEF gatewayVars, HomesStay
<1> QED
  BY <1>1, <1>2 DEF Next, vars

\* Whatever a listener holds after a step it held before, or has just popped.
LEMMA StepOfHands ==
    ASSUME GenuineDelivery, [Next]_vars, NEW g \in Gateway
    PROVE  \/ inhand'[g] \in {inhand[g], Nil}
           \/ results[g] # <<>> /\ inhand'[g] = Head(results[g])
<1>0. inhand \in [Gateway -> Result \cup {Nil}]
  BY DEF GenuineDelivery, GenuineAnswers, TypeOK, GatewayTypeOK
<1>1. CASE UNCHANGED inhand
  BY <1>1
<1>2. ASSUME GatewayNormal \/ GatewayFault
      PROVE  \/ UNCHANGED inhand
             \/ \E h \in Gateway : \/ inhand' = [inhand EXCEPT ![h] = Nil]
                                   \/ BlpopEmbeddingResult(h)
  <2>1. ASSUME NEW r \in Request, NEW h \in Gateway, Accept(r, h) \/ Reject(r, h)
        PROVE  UNCHANGED inhand
    BY <2>1 DEF Accept, Reject
  <2>2. ASSUME NEW r \in Request, RequestStep(r) \/ PushError(r) \/ PushAgain(r)
        PROVE  UNCHANGED inhand
    BY <2>2, Zenon DEF RequestStep, PushError, PushAgain, Push, PushReturns, Collect, TimeoutFires,
                TimeoutFinish, Finish
  <2>3. ASSUME NEW h \in Gateway,
               \/ ListenerStep(h) \/ StopEnd(h) \/ GatewayRestart(h) \/ ListenerError(h)
               \/ StopBegin(h) \/ GatewayCrash(h)
        PROVE  \/ UNCHANGED inhand
               \/ inhand' = [inhand EXCEPT ![h] = Nil]
               \/ BlpopEmbeddingResult(h)
    BY <2>3 DEF ListenerStep, Deliver, StopEnd, GatewayRestart, ListenerError, StopBegin, GatewayCrash
  <2> QED BY <1>2, <2>1, <2>2, <2>3 DEF GatewayNormal, GatewayFault
<1>3. ASSUME NEW h \in Gateway,
             inhand' = [inhand EXCEPT ![h] = Nil] \/ BlpopEmbeddingResult(h)
      PROVE  \/ inhand'[g] \in {inhand[g], Nil}
             \/ results[g] # <<>> /\ inhand'[g] = Head(results[g])
  BY <1>0, <1>3 DEF BlpopEmbeddingResult, PopResult
<1> QED
  BY <1>1, <1>2, <1>3 DEF Next, vars, gatewayVars

LEMMA StepKeepsHands ==
    ASSUME Whereabouts, [Next]_vars
    PROVE  HandsAreHome'
<1> SUFFICES ASSUME NEW g \in Gateway
             PROVE  inhand'[g] = Nil \/ inhand'[g] \in HomeResult(g)'
  BY DEF HandsAreHome
<1>0. GenuineDelivery /\ HandsAreHome
  BY DEF Whereabouts
<1>1. HomeResult(g) \subseteq HomeResult(g)'
  BY <1>0, StepKeepsHomes, HomesGrow
<1>2. results[g] # <<>> => Head(results[g]) \in HomeResult(g)
  <2>1. results[g] \in Seq(HomeResult(g))
    BY <1>0 DEF GenuineDelivery, ResultsAreHome
  <2> QED BY <2>1, HeadTailProperties
<1> QED
  BY <1>0, <1>1, <1>2, StepOfHands DEF HandsAreHome

LEMMA StepKeepsClocks ==
    ASSUME Whereabouts, [Next]_vars
    PROVE  ClocksArePast'
<1>0. seen \in [Worker -> SUBSET Request] /\ ClocksArePast
  BY DEF Whereabouts, GenuineDelivery, GenuineAnswers, TypeOK, WorkerTypeOK
<1>1. CASE UNCHANGED <<seen, expired>>
  BY <1>0, <1>1 DEF ClocksArePast
<1>2. CASE (GatewayNormal \/ GatewayFault) /\ UNCHANGED workerVars
  <2>1. UNCHANGED expired
    BY <1>2, Zenon DEF GatewayNormal, GatewayFault, Accept, Reject, RequestStep, Push, PushReturns, Collect,
           TimeoutFires, TimeoutFinish, Finish, PushError, PushAgain, ListenerStep,
           BlpopEmbeddingResult, Deliver, ListenerError, StopBegin, StopEnd, GatewayCrash,
           GatewayRestart, redisVars
  <2> QED BY <1>1, <1>2, <2>1 DEF workerVars
<1>3. ASSUME NEW w \in Worker, ReadClock(w)
      PROVE  ClocksArePast'
  BY <1>0, <1>3 DEF ReadClock, ClocksArePast, redisVars
<1>4. ASSUME NEW w \in Worker, ClaimBatch(w) \/ WorkerCrash(w)
      PROVE  ClocksArePast'
  BY <1>0, <1>4 DEF ClaimBatch, WorkerCrash, ClocksArePast, redisVars
<1>5. ASSUME NEW w \in Worker,
             \/ ClaimAgain(w) \/ EmbedOk(w) \/ EmbedFails(w) \/ Publish(w) \/ PublishAgain(w)
             \/ SetTtl(w) \/ WorkerRestart(w)
      PROVE  UNCHANGED <<seen, expired>>
  BY <1>5 DEF ClaimAgain, EmbedOk, EmbedFails, Publish, PublishAgain, SetTtl, WorkerRestart,
              redisVars, workerVars
<1>6. CASE RedisFault /\ UNCHANGED workerVars
  <2>1. UNCHANGED seen /\ expired \subseteq expired'
    BY <1>6 DEF RedisFault, DeadlinePasses, ResultsExpire, RedisLoss, workerVars
  <2> QED BY <1>0, <2>1 DEF ClocksArePast
<1> QED
  BY <1>1, <1>2, <1>3, <1>4, <1>5, <1>6
     DEF Next, WorkerNormal, WorkerFault, vars, redisVars, workerVars

LEMMA StepKeepsUnsent ==
    ASSUME Whereabouts, [Next]_vars
    PROVE  UnsentIsNew'
<1> SUFFICES ASSUME NEW q \in Request, phase'[q] = "idle"
             PROVE  next'[q] = 0
  BY DEF UnsentIsNew
<1>0. /\ phase \in [Request -> Phase] /\ next \in [Request -> Nat] /\ UnsentIsNew
      /\ GenuineDelivery
  BY DEF Whereabouts, GenuineDelivery, GenuineAnswers, TypeOK, GatewayTypeOK
<1>1. phase[q] = "idle" /\ next[q] = 0
  BY <1>0, StepKeepsHomes DEF HomesStay, UnsentIsNew
<1>2. CASE UNCHANGED next
  BY <1>1, <1>2
<1>3. ASSUME NEW r \in Request, NEW i, NEW g, RegisterChild(r, i, g)
      PROVE  next'[q] = next[q]
  BY <1>0, <1>3 DEF RegisterChild
<1>4. ASSUME GatewayNormal \/ GatewayFault
      PROVE  UNCHANGED next \/ \E r \in Request : \E i, g : RegisterChild(r, i, g)
  <2>1. ASSUME NEW r \in Request, NEW g \in Gateway, Accept(r, g) \/ Reject(r, g)
        PROVE  UNCHANGED next \/ RegisterChild(r, 1, g)
    BY <2>1, Zenon DEF Accept, Reject
  <2>2. ASSUME NEW r \in Request, RequestStep(r) \/ PushError(r) \/ PushAgain(r)
        PROVE  UNCHANGED next \/ RegisterChild(r, next[r] + 1, home[r])
    BY <2>2, Zenon DEF RequestStep, PushError, PushAgain, Push, PushReturns, Collect, TimeoutFires,
                TimeoutFinish, Finish
  <2>3. ASSUME NEW h \in Gateway,
               \/ ListenerStep(h) \/ StopEnd(h) \/ GatewayRestart(h) \/ ListenerError(h)
               \/ StopBegin(h) \/ GatewayCrash(h)
        PROVE  UNCHANGED next
    BY <2>3, Zenon DEF ListenerStep, BlpopEmbeddingResult, Deliver, StopEnd, GatewayRestart, ListenerError,
                StopBegin, GatewayCrash
  <2> QED BY <1>4, <2>1, <2>2, <2>3, Zenon DEF GatewayNormal, GatewayFault
<1> QED
  BY <1>1, <1>2, <1>3, <1>4 DEF Next, vars, gatewayVars

\* Who holds what, and what clocks and counters say, in every reachable state.
THEOREM WhereaboutsInvariant == Spec => []Whereabouts
<1>1. Init => Whereabouts
  <2>1. Init => HandsAreHome /\ ClocksArePast /\ UnsentIsNew
    BY DEF Init, GatewayInit, WorkerInit, RedisInit, HandsAreHome, ClocksArePast, UnsentIsNew
  <2> QED BY <2>1, InitIsDelivered DEF Whereabouts
<1>2. Whereabouts /\ [Next]_vars => Whereabouts'
  BY StepIsDelivered, StepKeepsHands, StepKeepsClocks, StepKeepsUnsent DEF Whereabouts
<1> QED
  BY <1>1, <1>2, PTL DEF Spec

----------------------------------------------------------------------------
(* Places. *)

AtWork(p, c) ==
    \E l \in Lane : \E k \in 1..Len(work[l]) : p = <<"work", l, k>> /\ work[l][k].id = c

AtBatch(p, c) ==
    \E w \in Worker : \E k \in Unpublished(w) : p = <<"batch", w, k>> /\ batch[w][k].id = c

AtResults(p, c) ==
    \E g \in Gateway : \E k \in 1..Len(results[g]) :
        p = <<"result", g, k>> /\ results[g][k].id = c

AtHand(p, c) ==
    \E g \in Gateway : p = <<"hand", g>> /\ inhand[g] # Nil /\ inhand[g].id = c

\* The four kinds of copies.
IsPlaced ==
    \A c, p : p \in Copies(c) <=> AtWork(p, c) \/ AtBatch(p, c) \/ AtResults(p, c) \/ AtHand(p, c)

LEMMA CopyPlaces == IsPlaced
<1> SUFFICES ASSUME NEW c, NEW p
             PROVE  p \in Copies(c) <=> AtWork(p, c) \/ AtBatch(p, c) \/ AtResults(p, c) \/ AtHand(p, c)
  BY DEF IsPlaced
<1> DEFINE A == UNION {{<<"work", l, k>> : k \in {j \in 1..Len(work[l]) : work[l][j].id = c}} :
                          l \in Lane}
           B == UNION {{<<"batch", w, k>> : k \in {j \in Unpublished(w) : batch[w][j].id = c}} :
                          w \in Worker}
           R == UNION {{<<"result", g, k>> : k \in {j \in 1..Len(results[g]) : results[g][j].id = c}} :
                          g \in Gateway}
           H == {<<"hand", g>> : g \in {h \in Gateway : inhand[h] # Nil /\ inhand[h].id = c}}
<1>1. p \in A <=> AtWork(p, c)
  BY DEF AtWork
<1>2. p \in B <=> AtBatch(p, c)
  BY DEF AtBatch
<1>3. p \in R <=> AtResults(p, c)
  BY DEF AtResults
<1>4. p \in H <=> AtHand(p, c)
  BY DEF AtHand
<1>5. Copies(c) = UNION {A, B, R, H}
  BY DEF Copies
<1> HIDE DEF A, B, R, H
<1> QED
  BY <1>1, <1>2, <1>3, <1>4, <1>5, Zenon

\* The same in the next state.
LEMMA CopyPlacesNext == IsPlaced'
BY CopyPlaces, PTL

\* A step that empties lists or hands, or shortens what is left of a batch, moves
\* nothing.
LEMMA CopiesShrink ==
    ASSUME \A l \in Lane : work'[l] \in {work[l], <<>>},
           \A w \in Worker : \A k \in Unpublished(w)' :
               k \in Unpublished(w) /\ batch'[w][k] = batch[w][k],
           \A g \in Gateway : results'[g] \in {results[g], <<>>},
           \A g \in Gateway : inhand'[g] \in {inhand[g], Nil},
           NEW c
    PROVE  Copies(c)' \subseteq Copies(c)
<1> SUFFICES ASSUME NEW p, p \in Copies(c)' PROVE p \in Copies(c)
  OBVIOUS
<1>1. AtWork(p, c)' \/ AtBatch(p, c)' \/ AtResults(p, c)' \/ AtHand(p, c)'
  BY CopyPlacesNext, Zenon DEF IsPlaced
<1>2. AtWork(p, c)' => AtWork(p, c)
  BY DEF AtWork
<1>3. AtBatch(p, c)' => AtBatch(p, c)
  BY DEF AtBatch
<1>4. AtResults(p, c)' => AtResults(p, c)
  BY DEF AtResults
<1>5. AtHand(p, c)' => AtHand(p, c)
  BY DEF AtHand
<1> QED
  BY <1>1, <1>2, <1>3, <1>4, <1>5, CopyPlaces, Zenon DEF IsPlaced

\* A step that changes none of them.
LEMMA CopiesStay ==
    ASSUME UNCHANGED <<work, results, inhand>>,
           \A w \in Worker : /\ Unpublished(w)' = Unpublished(w)
                             /\ \A k \in Unpublished(w) : batch'[w][k] = batch[w][k],
           NEW c
    PROVE  Copies(c)' = Copies(c)
<1> SUFFICES ASSUME NEW p PROVE p \in Copies(c)' <=> p \in Copies(c)
  OBVIOUS
<1>1. AtBatch(p, c)' <=> AtBatch(p, c)
  BY DEF AtBatch
<1>2. AtWork(p, c)' <=> AtWork(p, c)
  BY DEF AtWork
<1>3. AtResults(p, c)' <=> AtResults(p, c)
  BY DEF AtResults
<1>4. AtHand(p, c)' <=> AtHand(p, c)
  BY DEF AtHand
<1>5. p \in Copies(c)' <=> AtWork(p, c)' \/ AtBatch(p, c)' \/ AtResults(p, c)' \/ AtHand(p, c)'
  BY CopyPlacesNext, Zenon DEF IsPlaced
<1> QED
  BY <1>1, <1>2, <1>3, <1>4, <1>5, CopyPlaces, Zenon DEF IsPlaced

----------------------------------------------------------------------------
(* What a step does to the copies of a child. *)

\* From one kind of place to the next.
Onward == {<<"work", "batch">>, <<"batch", "result">>, <<"result", "hand">>}

OneAtMost(S) == \A p, q \in S : p = q

\* Every copy comes from a copy, in the same kind of place or the one before, and
\* a single copy stays single.
Flows(c) ==
    /\ \A p \in Copies(c)' : \E q \in Copies(c) : p[1] = q[1] \/ <<q[1], p[1]>> \in Onward
    /\ OneAtMost(Copies(c)) => OneAtMost(Copies(c)')

\* A child that has a copy keeps one.
Keeps(c) == Copies(c) # {} => Copies(c)' # {}

\* Copies that come from different copies.
LEMMA FlowsFrom ==
    ASSUME NEW c, NEW origin,
           \A p \in Copies(c)' : /\ origin[p] \in Copies(c)
                                 /\ p[1] = origin[p][1] \/ <<origin[p][1], p[1]>> \in Onward,
           \A p, q \in Copies(c)' : origin[p] = origin[q] => p = q
    PROVE  Flows(c)
<1>1. \A p \in Copies(c)' : \E q \in Copies(c) : p[1] = q[1] \/ <<q[1], p[1]>> \in Onward
  BY Zenon
<1>2. OneAtMost(Copies(c)) => OneAtMost(Copies(c)')
  BY Zenon DEF OneAtMost
<1> QED
  BY <1>1, <1>2 DEF Flows

\* Copies that were there.
LEMMA ShrinkFlows ==
    ASSUME NEW c, Copies(c)' \subseteq Copies(c)
    PROVE  Flows(c)
BY Zenon DEF Flows, OneAtMost

\* One copy goes on.
LEMMA OneGoesOn ==
    ASSUME NEW c, NEW old, NEW new, <<old[1], new[1]>> \in Onward,
           Copies(c)' = IF old \in Copies(c) THEN (Copies(c) \ {old}) \cup {new} ELSE Copies(c)
    PROVE  Flows(c) /\ Keeps(c)
<1>1. CASE old \in Copies(c)
  <2>1. Copies(c)' = (Copies(c) \ {old}) \cup {new}
    BY <1>1
  <2>2. OneAtMost(Copies(c)) => Copies(c)' = {new}
    BY <1>1, <2>1 DEF OneAtMost
  <2>3. \A p \in Copies(c)' : p \in Copies(c) \/ p = new
    BY <2>1
  <2>4. \A p \in Copies(c)' : \E q \in Copies(c) : p[1] = q[1] \/ <<q[1], p[1]>> \in Onward
    BY <1>1, <2>3, Zenon
  <2>5. OneAtMost({new})
    BY DEF OneAtMost
  <2> QED BY <2>1, <2>2, <2>4, <2>5 DEF Flows, Keeps
<1>2. CASE old \notin Copies(c)
  BY <1>2, ShrinkFlows DEF Keeps
<1> QED
  BY <1>1, <1>2

----------------------------------------------------------------------------
(* The steps that move copies. *)

\* What the claim script does to a lane.
LEMMA ClaimTakesPrefix ==
    ASSUME NEW l \in Lane, NEW seenSet, work \in [Lane -> Seq(GoodItem)]
    PROVE  LET q == work[l]
               claim == ClaimFrom(l, seenSet)
           IN  /\ claim.selected \in Seq(GoodItem)
               /\ \E n \in 0..Len(q) :
                     /\ claim.rest = SubSeq(q, n + 1, Len(q))
                     /\ ItemsOf(claim.selected, Len(claim.selected))
                          = ItemsOf(q, n) \ Overdue(q, seenSet)
                     /\ Picks(claim.selected, q, n)
<1> DEFINE q == work[l]
           S == {q[k] : k \in 1..Len(q)}
<1>1. q \in Seq(GoodItem) /\ Len(q) \in Nat
  BY LenProperties
<1>2. S \subseteq GoodItem
  BY <1>1, ElementOfSeq
<1>3. q \in Seq(S)
  BY <1>1, LenProperties
<1>4. TokenView(q) \in [S -> Nat]
  <2>1. ASSUME NEW item \in S PROVE TokenCount(item.id) \in Nat
    <3>1. item.id \in Child
      BY <1>2 DEF GoodItem, Item
    <3> QED BY <3>1, ChildParts, TokensAreCounted DEF TokenCount
  <2> QED BY <2>1 DEF TokenView
<1>5. MaxItems[l] \in Nat /\ Budget[l] \in Nat
  BY ConstantsAssumption
<1>6. ClaimFrom(l, seenSet) = Claim(q, MaxItems[l], Budget[l], Overdue(q, seenSet), TokenView(q))
  BY DEF ClaimFrom
<1>7. ClaimFrom(l, seenSet).selected \in Seq(GoodItem)
  BY ClaimIsGenuine
<1> HIDE DEF S
<1> QED
  <2> HIDE DEF q
  <2>1. \E n \in 0..Len(q) :
           /\ ClaimFrom(l, seenSet).rest = SubSeq(q, n + 1, Len(q))
           /\ ItemsOf(ClaimFrom(l, seenSet).selected, Len(ClaimFrom(l, seenSet).selected))
                = ItemsOf(q, n) \ Overdue(q, seenSet)
           /\ Picks(ClaimFrom(l, seenSet).selected, q, n)
    <3> DEFINE claim == Claim(q, MaxItems[l], Budget[l], Overdue(q, seenSet), TokenView(q))
    <3>1. \E n \in 0..Len(q) :
             /\ claim.rest = SubSeq(q, n + 1, Len(q))
             /\ ItemsOf(claim.selected, Len(claim.selected)) = ItemsOf(q, n) \ Overdue(q, seenSet)
             /\ Picks(claim.selected, q, n)
      BY <1>3, <1>4, <1>5, ClaimTakesLivePrefix
    <3>2. ClaimFrom(l, seenSet) = claim
      BY <1>6
    <3> HIDE DEF claim
    <3> QED BY <3>1, <3>2, Zenon
  <2> QED BY <1>7, <2>1 DEF q

\* Which positions of a batch have no result yet, by where the worker is.
LEMMA UnpublishedIs ==
    ASSUME NEW w \in Worker
    PROVE  /\ wpc[w] = "embed" => Unpublished(w) = 1..Len(batch[w])
           /\ wpc[w] = "publish" => Unpublished(w) = pos[w]..Len(batch[w])
           /\ wpc[w] \in {"expire", "reexpire"} => Unpublished(w) = (pos[w] + 1)..Len(batch[w])
           /\ wpc[w] \in {"idle", "claim", "down"} => Unpublished(w) = {}
BY DEF Unpublished

LEMMA UnpublishedIsNext ==
    ASSUME NEW w \in Worker
    PROVE  /\ wpc'[w] = "embed" => Unpublished(w)' = 1..Len(batch'[w])
           /\ wpc'[w] = "publish" => Unpublished(w)' = pos'[w]..Len(batch'[w])
           /\ wpc'[w] \in {"expire", "reexpire"} => Unpublished(w)' = (pos'[w] + 1)..Len(batch'[w])
           /\ wpc'[w] \in {"idle", "claim", "down"} => Unpublished(w)' = {}
BY DEF Unpublished

\* A claim moves what it selects from the list to the batch.
LEMMA ClaimFlows ==
    ASSUME Whereabouts, NEW w \in Worker, ClaimBatch(w), UNCHANGED gatewayVars, NEW c
    PROVE  Flows(c)
<1> DEFINE l == WorkerLane[w]
           q == work[l]
           sel == ClaimFrom(l, seen[w]).selected
<1>0. /\ work \in [Lane -> Seq(GoodItem)] /\ l \in Lane /\ wpc \in [Worker -> WorkerPc]
      /\ batch \in [Worker -> Seq(Item)]
      /\ q \in Seq(GoodItem) /\ Len(q) \in Nat
  <2>1. work \in [Lane -> Seq(GoodItem)] /\ l \in Lane /\ wpc \in [Worker -> WorkerPc]
        /\ batch \in [Worker -> Seq(Item)]
    BY ConstantsAssumption DEF Whereabouts, GenuineDelivery, GenuineAnswers, WorkIsGenuine, TypeOK, WorkerTypeOK
  <2> QED BY <2>1, LenProperties
<1>1. PICK n \in 0..Len(q) : /\ ClaimFrom(l, seen[w]).rest = SubSeq(q, n + 1, Len(q))
                             /\ Picks(sel, q, n)
  BY <1>0, ClaimTakesPrefix
<1>2. PICK at \in [1..Len(sel) -> 1..n] :
          /\ \A i \in 1..Len(sel) : sel[i] = q[at[i]]
          /\ \A i, j \in 1..Len(sel) : i < j => at[i] < at[j]
  BY <1>1 DEF Picks
<1>3. /\ wpc[w] = "claim"
      /\ work' = [work EXCEPT ![l] = SubSeq(q, n + 1, Len(q))]
      /\ batch' = [batch EXCEPT ![w] = sel]
      /\ wpc' = [wpc EXCEPT ![w] = IF sel = <<>> THEN "idle" ELSE "embed"]
      /\ UNCHANGED <<results, pos>>
  BY <1>1 DEF ClaimBatch, ClaimEmbeddingBatch
<1>4. UNCHANGED inhand
  BY DEF gatewayVars
<1>5. /\ \A k \in 1..Len(work'[l]) : k + n \in 1..Len(q) /\ work'[l][k] = q[k + n]
      /\ \A m \in Lane : m # l => work'[m] = work[m]
  <2>1. work'[l] = SubSeq(q, n + 1, Len(q))
    BY <1>0, <1>3
  <2>2. /\ Len(SubSeq(q, n + 1, Len(q))) = Len(q) - n
        /\ \A k \in 1..(Len(q) - n) : SubSeq(q, n + 1, Len(q))[k] = q[k + n]
    BY <1>0, SubSeqProperties, Z3
  <2> QED BY <1>0, <1>3, <2>1, <2>2
<1>6. /\ Unpublished(w)' \subseteq 1..Len(sel)
      /\ batch'[w] = sel
      /\ \A v \in Worker : v # w => Unpublished(v)' = Unpublished(v) /\ batch'[v] = batch[v]
  <2>1. batch'[w] = sel /\ (wpc'[w] = "idle" \/ wpc'[w] = "embed")
    BY <1>0, <1>3
  <2>2. Unpublished(w)' \subseteq 1..Len(sel)
    BY <2>1, UnpublishedIsNext
  <2>3. ASSUME NEW v \in Worker, v # w PROVE Unpublished(v)' = Unpublished(v) /\ batch'[v] = batch[v]
    BY <1>0, <1>3, <2>3 DEF Unpublished
  <2> QED BY <2>1, <2>2, <2>3
<1> HIDE DEF sel, q, l
<1> DEFINE origin ==
      [p \in Copies(c)' |->
          IF p[1] = "work" /\ p[2] = l THEN <<"work", l, p[3] + n>>
          ELSE IF p[1] = "batch" /\ p[2] = w THEN <<"work", l, at[p[3]]>>
          ELSE p]
\* The copies left in the list, the copies in the batch, and the others.
      FromRest(p) == \E k \in Nat \ {0} : p = <<"work", l, k>> /\ origin[p] = <<"work", l, k + n>>
      FromBatch(p) == \E k \in 1..Len(sel) : p = <<"batch", w, k>> /\ origin[p] = <<"work", l, at[k]>>
      Stays(p) == origin[p] = p /\ \A k : p # <<"work", l, k>>
<1>7. ASSUME NEW p \in Copies(c)'
      PROVE  origin[p] \in Copies(c) /\ (FromRest(p) \/ FromBatch(p) \/ Stays(p))
  <2>0. AtWork(p, c)' \/ AtBatch(p, c)' \/ AtResults(p, c)' \/ AtHand(p, c)'
    BY CopyPlacesNext, Zenon DEF IsPlaced
  <2>1. CASE AtWork(p, c)'
    <3>1. PICK m \in Lane : \E k \in 1..Len(work'[m]) : p = <<"work", m, k>> /\ work'[m][k].id = c
      BY <2>1, Zenon DEF AtWork
    <3>2. PICK k \in 1..Len(work'[m]) : p = <<"work", m, k>> /\ work'[m][k].id = c
      BY <3>1
    <3>3. CASE m = l
      <4>1. origin[p] = <<"work", l, k + n>> /\ k \in Nat \ {0}
        BY <3>2, <3>3
      <4>2. AtWork(<<"work", l, k + n>>, c)
        BY <1>0, <1>5, <3>2, <3>3 DEF AtWork, q
      <4> QED BY <3>2, <3>3, <4>1, <4>2, CopyPlaces DEF IsPlaced
    <3>4. CASE m # l
      <4>1. origin[p] = p
        BY <3>2, <3>4
      <4>2. AtWork(p, c)
        BY <1>5, <3>2, <3>4 DEF AtWork
      <4>3. \A i : p # <<"work", l, i>>
        BY <3>2, <3>4
      <4> HIDE DEF origin
      <4> QED BY <4>1, <4>2, <4>3, CopyPlaces DEF IsPlaced
    <3> QED BY <3>3, <3>4
  <2>2. CASE AtBatch(p, c)'
    <3>1. PICK v \in Worker : \E k \in Unpublished(v)' : p = <<"batch", v, k>> /\ batch'[v][k].id = c
      BY <2>2, Zenon DEF AtBatch
    <3>2. PICK k \in Unpublished(v)' : p = <<"batch", v, k>> /\ batch'[v][k].id = c
      BY <3>1
    <3>3. CASE v = w
      <4>1. k \in 1..Len(sel) /\ batch'[v] = sel
        BY <1>6, <3>2, <3>3
      <4>2. origin[p] = <<"work", l, at[k]>>
        BY <3>2, <3>3
      <4>3. at[k] \in 1..Len(q) /\ q[at[k]].id = c
        BY <1>0, <1>2, <3>2, <4>1
      <4>4. AtWork(<<"work", l, at[k]>>, c)
        BY <1>0, <4>3 DEF AtWork, q
      <4> HIDE DEF origin
      <4> QED BY <3>2, <3>3, <4>1, <4>2, <4>4, CopyPlaces DEF IsPlaced
    <3>4. CASE v # w
      <4>1. origin[p] = p
        BY <3>2, <3>4
      <4>2. AtBatch(p, c)
        BY <1>6, <3>2, <3>4 DEF AtBatch
      <4>3. \A i : p # <<"work", l, i>>
        BY <3>2
      <4> HIDE DEF origin
      <4> QED BY <4>1, <4>2, <4>3, CopyPlaces DEF IsPlaced
    <3> QED BY <3>3, <3>4
  <2>3. CASE AtResults(p, c)' \/ AtHand(p, c)'
    <3>1. AtResults(p, c) \/ AtHand(p, c)
      BY <1>3, <1>4, <2>3 DEF AtResults, AtHand
    <3>2. p[1] = "result" \/ p[1] = "hand"
      BY <3>1 DEF AtResults, AtHand
    <3>3. origin[p] = p /\ \A i : p # <<"work", l, i>>
      BY <3>2
    <3> HIDE DEF origin
    <3> QED BY <3>1, <3>3, CopyPlaces DEF IsPlaced
  <2> QED BY <2>0, <2>1, <2>2, <2>3
<1> HIDE DEF origin
<1>8. ASSUME NEW p \in Copies(c)'
      PROVE  p[1] = origin[p][1] \/ <<origin[p][1], p[1]>> \in Onward
  BY <1>7 DEF Onward
<1>9. ASSUME NEW p \in Copies(c)', NEW r \in Copies(c)', origin[p] = origin[r]
      PROVE  p = r
  <2>1. \A i \in 1..Len(sel) : at[i] \in Nat /\ at[i] <= n /\ n \in Nat
    OBVIOUS
  <2>2. \A i, j \in 1..Len(sel) : at[i] = at[j] => i = j
    <3>1. Len(sel) \in Nat
      BY <1>0, ClaimTakesPrefix, LenProperties DEF sel
    <3> QED BY <1>2, <2>1, <3>1
  <2>3. CASE FromRest(p) /\ FromRest(r)
    BY <1>9, <2>3
  <2>4. CASE FromBatch(p) /\ FromBatch(r)
    BY <1>9, <2>2, <2>4
  <2>5. ~ (FromRest(p) /\ FromBatch(r)) /\ ~ (FromBatch(p) /\ FromRest(r))
    BY <1>9, <2>1
  <2>6. CASE Stays(p) /\ Stays(r)
    BY <1>9, <2>6
  <2>7. ~ (Stays(p) /\ (FromRest(r) \/ FromBatch(r))) /\ ~ (Stays(r) /\ (FromRest(p) \/ FromBatch(p)))
    BY <1>9
  <2> QED BY <1>7, <2>3, <2>4, <2>5, <2>6, <2>7
<1> QED
  BY <1>7, <1>8, <1>9, FlowsFrom

\* A publication moves one position of a batch to a reply queue.
LEMMA PublishFlows ==
    ASSUME Whereabouts, NEW w \in Worker, Publish(w), UNCHANGED gatewayVars, NEW c
    PROVE  Flows(c) /\ Keeps(c)
<1> DEFINE item == batch[w][pos[w]]
           h == item.reply_to
           res == ResultAt(w, pos[w])
           old == <<"batch", w, pos[w]>>
           new == <<"result", h, Len(results[h]) + 1>>
<1>0. /\ GenuineAnswers /\ batch \in [Worker -> Seq(HomeItem)]
      /\ results \in [Gateway -> Seq(GoodResult)] /\ wpc \in [Worker -> WorkerPc]
  BY DEF Whereabouts, GenuineDelivery, GenuineAnswers, ItemsKnowTheirHome, ResultsAreGenuine,
         TypeOK, WorkerTypeOK
<1>1. pos[w] \in 1..Len(batch[w]) /\ res \in GoodResult /\ res.id = item.id
  BY <1>0, PublishedIsGenuine
<1>2. h \in Gateway
  <2>1. item \in HomeItem
    BY <1>0, <1>1, ElementOfSeq
  <2> QED BY <2>1 DEF HomeItem, GoodItem, Item
<1>3. /\ wpc[w] = "publish" /\ wpc' = [wpc EXCEPT ![w] = "expire"]
      /\ results' = [results EXCEPT ![h] = Append(@, res)]
      /\ UNCHANGED <<work, batch, pos, inhand>>
  BY DEF Publish, PushResult, gatewayVars
<1> HIDE DEF h, res
<1>4. /\ Len(results[h]) \in Nat /\ Len(results'[h]) = Len(results[h]) + 1
      /\ results'[h][Len(results[h]) + 1] = res
      /\ \A k \in 1..Len(results[h]) : results'[h][k] = results[h][k]
      /\ \A g \in Gateway : g # h => results'[g] = results[g]
  <2>1. results[h] \in Seq(GoodResult) /\ results'[h] = Append(results[h], res)
    BY <1>0, <1>2, <1>3
  <2> QED BY <1>0, <1>1, <1>3, <2>1, AppendProperties, LenProperties
<1>5. /\ Unpublished(w) = Unpublished(w)' \cup {pos[w]} /\ pos[w] \notin Unpublished(w)'
      /\ \A v \in Worker : v # w => Unpublished(v)' = Unpublished(v)
  <2>1. wpc'[w] = "expire" /\ pos'[w] = pos[w] /\ batch'[w] = batch[w]
    BY <1>0, <1>3
  <2>2. Unpublished(w) = pos[w]..Len(batch[w]) /\ Unpublished(w)' = (pos[w] + 1)..Len(batch[w])
    BY <1>3, <2>1, UnpublishedIs, UnpublishedIsNext
  <2>3. Len(batch[w]) \in Nat
    BY <1>0, LenProperties
  <2>4. ASSUME NEW v \in Worker, v # w PROVE Unpublished(v)' = Unpublished(v)
    BY <1>0, <1>3, <2>4 DEF Unpublished
  <2> QED BY <1>1, <2>2, <2>3, <2>4
<1>6. \A p : AtBatch(p, c) <=> AtBatch(p, c)' \/ (p = old /\ item.id = c)
  <2> SUFFICES ASSUME NEW p PROVE AtBatch(p, c) <=> AtBatch(p, c)' \/ (p = old /\ item.id = c)
    OBVIOUS
  <2>1. AtBatch(p, c) => AtBatch(p, c)' \/ (p = old /\ item.id = c)
    BY <1>3, <1>5 DEF AtBatch
  <2>2. AtBatch(p, c)' => AtBatch(p, c)
    BY <1>3, <1>5 DEF AtBatch
  <2>3. p = old /\ item.id = c => AtBatch(p, c)
    BY <1>5 DEF AtBatch
  <2> QED BY <2>1, <2>2, <2>3
<1>7. \A p : p = old => ~ AtBatch(p, c)'
  BY <1>5 DEF AtBatch
<1>8. \A p : AtResults(p, c)' <=> AtResults(p, c) \/ (p = new /\ item.id = c)
  <2> SUFFICES ASSUME NEW p PROVE AtResults(p, c)' <=> AtResults(p, c) \/ (p = new /\ item.id = c)
    OBVIOUS
  <2>1. AtResults(p, c) => AtResults(p, c)'
    <3>1. ASSUME NEW g \in Gateway, NEW k \in 1..Len(results[g])
          PROVE  k \in 1..Len(results'[g]) /\ results'[g][k] = results[g][k]
      BY <1>4
    <3> QED BY <3>1 DEF AtResults
  <2>2. p = new /\ item.id = c => AtResults(p, c)'
    BY <1>1, <1>2, <1>4 DEF AtResults
  <2>3. ASSUME AtResults(p, c)' PROVE AtResults(p, c) \/ (p = new /\ item.id = c)
    <3>1. PICK g \in Gateway : \E k \in 1..Len(results'[g]) :
                 p = <<"result", g, k>> /\ results'[g][k].id = c
      BY <2>3, Zenon DEF AtResults
    <3>2. PICK k \in 1..Len(results'[g]) : p = <<"result", g, k>> /\ results'[g][k].id = c
      BY <3>1
    <3>3. CASE g = h /\ k = Len(results[h]) + 1
      BY <1>1, <1>4, <3>2, <3>3
    <3>4. CASE ~ (g = h /\ k = Len(results[h]) + 1)
      <4>1. k \in 1..Len(results[g]) /\ results'[g][k] = results[g][k]
        BY <1>4, <3>4
      <4> QED BY <3>2, <4>1 DEF AtResults
    <3> QED BY <3>3, <3>4
  <2> QED BY <2>1, <2>2, <2>3
<1>9. \A p : (AtWork(p, c)' <=> AtWork(p, c)) /\ (AtHand(p, c)' <=> AtHand(p, c))
  BY <1>3 DEF AtWork, AtHand
<1>10. /\ old \in Copies(c) <=> item.id = c
       /\ \A p : p = old => ~ AtWork(p, c) /\ ~ AtResults(p, c) /\ ~ AtHand(p, c)
  <2>1. \A p : p = old => ~ AtWork(p, c) /\ ~ AtResults(p, c) /\ ~ AtHand(p, c)
    BY DEF AtWork, AtResults, AtHand
  <2> HIDE DEF old, item
  <2> QED BY <1>6, <1>7, <2>1, CopyPlaces, Zenon DEF IsPlaced
<1>11. \A p : p \in Copies(c)' <=> (p \in Copies(c) /\ p # old) \/ (p = new /\ item.id = c)
  <2>1. old # new
    OBVIOUS
  <2> HIDE DEF old, new, item
  <2> QED BY <1>6, <1>7, <1>8, <1>9, <1>10, <2>1, CopyPlaces, CopyPlacesNext, Zenon DEF IsPlaced
<1>12. Copies(c)' = IF old \in Copies(c) THEN (Copies(c) \ {old}) \cup {new} ELSE Copies(c)
  <2> HIDE DEF old, new, item
  <2> QED BY <1>10, <1>11
<1>13. <<old[1], new[1]>> \in Onward
  BY DEF Onward
<1> HIDE DEF old, new
<1> QED
  BY <1>12, <1>13, OneGoesOn

\* A BLPOP moves the first result to the listener's hand, and the others up.
LEMMA BlpopFlows ==
    ASSUME Whereabouts, NEW g \in Gateway, BlpopEmbeddingResult(g), UNCHANGED workerVars, NEW c
    PROVE  Flows(c) /\ Keeps(c)
<1>0. /\ results \in [Gateway -> Seq(GoodResult)] /\ inhand \in [Gateway -> GoodResult \cup {Nil}]
  BY DEF Whereabouts, GenuineDelivery, GenuineAnswers, ResultsAreGenuine
<1>1. /\ results[g] # <<>> /\ inhand[g] = Nil
      /\ results' = [results EXCEPT ![g] = Tail(@)]
      /\ inhand' = [inhand EXCEPT ![g] = Head(results[g])]
      /\ UNCHANGED <<work, wpc, batch, pos>>
  BY DEF BlpopEmbeddingResult, PopResult, workerVars
<1>2. /\ Len(results[g]) \in Nat \ {0} /\ inhand'[g] = results[g][1]
      /\ \A k \in 1..Len(results'[g]) : k + 1 \in 1..Len(results[g]) /\ results'[g][k] = results[g][k + 1]
      /\ \A k \in 2..Len(results[g]) : k - 1 \in 1..Len(results'[g]) /\ results'[g][k - 1] = results[g][k]
      /\ \A h \in Gateway : h # g => results'[h] = results[h] /\ inhand'[h] = inhand[h]
  <2>1. results[g] \in Seq(GoodResult) /\ results'[g] = Tail(results[g]) /\ inhand'[g] = Head(results[g])
    BY <1>0, <1>1
  <2>2. Len(results[g]) \in Nat \ {0}
    BY <1>1, <2>1, LenProperties, EmptySeq
  <2>3. /\ Len(Tail(results[g])) = Len(results[g]) - 1
        /\ \A k \in 1..(Len(results[g]) - 1) : Tail(results[g])[k] = results[g][k + 1]
        /\ Head(results[g]) = results[g][1]
    BY <1>1, <2>1, HeadTailProperties
  <2>4. \A k \in 1..Len(results'[g]) : k + 1 \in 1..Len(results[g]) /\ results'[g][k] = results[g][k + 1]
    BY <2>1, <2>2, <2>3
  <2>5. ASSUME NEW k \in 2..Len(results[g])
        PROVE  k - 1 \in 1..Len(results'[g]) /\ results'[g][k - 1] = results[g][k]
    <3>1. k - 1 \in 1..(Len(results[g]) - 1) /\ (k - 1) + 1 = k
      BY <2>2
    <3> QED BY <2>1, <2>3, <3>1
  <2> QED BY <1>0, <1>1, <2>1, <2>2, <2>3, <2>4, <2>5
<1>3. \A p : (AtWork(p, c)' <=> AtWork(p, c)) /\ (AtBatch(p, c)' <=> AtBatch(p, c))
  BY <1>1 DEF AtWork, AtBatch, Unpublished
<1>4. results[g][1] # Nil
  <2>1. results[g][1] \in GoodResult
    BY <1>0, <1>2, ElementOfSeq
  <2> QED BY <2>1, NilAssumption DEF GoodResult
<1> DEFINE origin ==
      [p \in Copies(c)' |->
          IF p[1] = "hand" /\ p[2] = g THEN <<"result", g, 1>>
          ELSE IF p[1] = "result" /\ p[2] = g THEN <<"result", g, p[3] + 1>>
          ELSE p]
      FromHead(p) == p = <<"hand", g>> /\ origin[p] = <<"result", g, 1>>
      FromTail(p) == \E k \in Nat \ {0} : p = <<"result", g, k>> /\ origin[p] = <<"result", g, k + 1>>
      Stays(p) == origin[p] = p /\ \A k : p # <<"result", g, k>>
<1>5. ASSUME NEW p \in Copies(c)'
      PROVE  origin[p] \in Copies(c) /\ (FromHead(p) \/ FromTail(p) \/ Stays(p))
  <2>0. AtWork(p, c)' \/ AtBatch(p, c)' \/ AtResults(p, c)' \/ AtHand(p, c)'
    BY CopyPlacesNext, Zenon DEF IsPlaced
  <2>1. CASE AtWork(p, c)' \/ AtBatch(p, c)'
    <3>1. AtWork(p, c) \/ AtBatch(p, c)
      BY <1>3, <2>1
    <3>2. p[1] = "work" \/ p[1] = "batch"
      BY <3>1 DEF AtWork, AtBatch
    <3>3. origin[p] = p /\ \A k : p # <<"result", g, k>>
      BY <3>2
    <3> HIDE DEF origin
    <3> QED BY <3>1, <3>3, CopyPlaces DEF IsPlaced
  <2>2. CASE AtResults(p, c)'
    <3>1. PICK h \in Gateway : \E k \in 1..Len(results'[h]) :
                 p = <<"result", h, k>> /\ results'[h][k].id = c
      BY <2>2, Zenon DEF AtResults
    <3>2. PICK k \in 1..Len(results'[h]) : p = <<"result", h, k>> /\ results'[h][k].id = c
      BY <3>1
    <3>3. CASE h = g
      <4>1. origin[p] = <<"result", g, k + 1>> /\ k \in Nat \ {0}
        BY <3>2, <3>3
      <4>2. AtResults(<<"result", g, k + 1>>, c)
        BY <1>2, <3>2, <3>3 DEF AtResults
      <4> HIDE DEF origin
      <4> QED BY <3>2, <3>3, <4>1, <4>2, CopyPlaces DEF IsPlaced
    <3>4. CASE h # g
      <4>1. origin[p] = p /\ \A i : p # <<"result", g, i>>
        BY <3>2, <3>4
      <4>2. AtResults(p, c)
        BY <1>2, <3>2, <3>4 DEF AtResults
      <4> HIDE DEF origin
      <4> QED BY <4>1, <4>2, CopyPlaces DEF IsPlaced
    <3> QED BY <3>3, <3>4
  <2>3. CASE AtHand(p, c)'
    <3>1. PICK h \in Gateway : p = <<"hand", h>> /\ inhand'[h] # Nil /\ inhand'[h].id = c
      BY <2>3, Zenon DEF AtHand
    <3>2. CASE h = g
      <4>1. p = <<"hand", g>> /\ origin[p] = <<"result", g, 1>>
        BY <3>1, <3>2
      <4>2. AtResults(<<"result", g, 1>>, c)
        BY <1>2, <3>1, <3>2 DEF AtResults
      <4> HIDE DEF origin
      <4> QED BY <4>1, <4>2, CopyPlaces DEF IsPlaced
    <3>3. CASE h # g
      <4>1. origin[p] = p /\ \A k : p # <<"result", g, k>>
        BY <3>1, <3>3
      <4>2. AtHand(p, c)
        BY <1>2, <3>1, <3>3 DEF AtHand
      <4> HIDE DEF origin
      <4> QED BY <4>1, <4>2, CopyPlaces DEF IsPlaced
    <3> QED BY <3>2, <3>3
  <2> QED BY <2>0, <2>1, <2>2, <2>3
<1> HIDE DEF origin
<1>6. ASSUME NEW p \in Copies(c)'
      PROVE  p[1] = origin[p][1] \/ <<origin[p][1], p[1]>> \in Onward
  BY <1>5 DEF Onward
<1>7. ASSUME NEW p \in Copies(c)', NEW r \in Copies(c)', origin[p] = origin[r]
      PROVE  p = r
  <2>1. CASE FromHead(p) /\ FromHead(r)
    BY <2>1
  <2>2. CASE FromTail(p) /\ FromTail(r)
    BY <1>7, <2>2
  <2>3. ~ (FromHead(p) /\ FromTail(r)) /\ ~ (FromTail(p) /\ FromHead(r))
    BY <1>7
  <2>4. CASE Stays(p) /\ Stays(r)
    BY <1>7, <2>4
  <2>5. ~ (Stays(p) /\ (FromHead(r) \/ FromTail(r))) /\ ~ (Stays(r) /\ (FromHead(p) \/ FromTail(p)))
    BY <1>7
  <2> QED BY <1>5, <2>1, <2>2, <2>3, <2>4, <2>5
<1>8. Flows(c)
  BY <1>5, <1>6, <1>7, FlowsFrom
<1>9. ASSUME NEW p \in Copies(c) PROVE \E r : r \in Copies(c)'
  <2>0. AtWork(p, c) \/ AtBatch(p, c) \/ AtResults(p, c) \/ AtHand(p, c)
    BY CopyPlaces, Zenon DEF IsPlaced
  <2>1. AtResults(p, c) => (\E r : AtResults(r, c)') \/ (\E r : AtHand(r, c)')
    <3> SUFFICES ASSUME NEW h \in Gateway, NEW k \in 1..Len(results[h]), results[h][k].id = c
                 PROVE  (\E r : AtResults(r, c)') \/ (\E r : AtHand(r, c)')
      BY DEF AtResults
    <3>1. CASE h # g
      <4>1. AtResults(<<"result", h, k>>, c)'
        BY <1>2, <3>1 DEF AtResults
      <4> QED BY <4>1
    <3>2. CASE h = g /\ k = 1
      <4>1. AtHand(<<"hand", g>>, c)'
        BY <1>2, <1>4, <3>2 DEF AtHand
      <4> QED BY <4>1
    <3>3. CASE h = g /\ k # 1
      <4>1. k \in 2..Len(results[g])
        BY <1>2, <3>3
      <4>2. AtResults(<<"result", g, k - 1>>, c)'
        BY <1>2, <3>3, <4>1 DEF AtResults
      <4> QED BY <4>2
    <3> QED BY <3>1, <3>2, <3>3
  <2>2. AtHand(p, c) => AtHand(p, c)'
    BY <1>1, <1>2 DEF AtHand
  <2> QED BY <1>3, <2>0, <2>1, <2>2, CopyPlacesNext, Zenon DEF IsPlaced
<1> QED
  BY <1>8, <1>9, Zenon DEF Keeps

\* An RPUSH of work adds a copy of the current child, at the end of its lane.
LEMMA PushAddsOne ==
    ASSUME Whereabouts, NEW r \in Request, Push(r), UNCHANGED workerVars, NEW c
    PROVE  LET new == <<"work", LaneOf[r], Len(work[LaneOf[r]]) + 1>>
           IN  Copies(c)' = IF c = <<r, next[r]>> THEN Copies(c) \cup {new} ELSE Copies(c)
<1> DEFINE l == LaneOf[r]
           item == WorkItem(r, next[r], home[r])
           new == <<"work", l, Len(work[l]) + 1>>
<1>0. /\ work \in [Lane -> Seq(GoodItem)] /\ l \in Lane
      /\ home[r] \in Gateway /\ next[r] \in Indexes(r)
  <2>1. InFlight(r)
    BY DEF Push, InFlight
  <2> QED BY <2>1, ConstantsAssumption
          DEF Whereabouts, GenuineDelivery, GenuineAnswers, WorkIsGenuine, RequestsAtHome
<1>1. item \in GoodItem /\ item.id = <<r, next[r]>>
  BY <1>0, WorkItemIsGood DEF WorkItem
<1>2. /\ work' = [work EXCEPT ![l] = Append(@, item)]
      /\ UNCHANGED <<results, inhand, wpc, batch, pos>>
  BY DEF Push, EnqueueEmbeddingWork, workerVars
<1> HIDE DEF l, item
<1>3. /\ Len(work[l]) \in Nat /\ Len(work'[l]) = Len(work[l]) + 1
      /\ work'[l][Len(work[l]) + 1] = item
      /\ \A k \in 1..Len(work[l]) : work'[l][k] = work[l][k]
      /\ \A m \in Lane : m # l => work'[m] = work[m]
  <2>1. work[l] \in Seq(GoodItem) /\ work'[l] = Append(work[l], item)
    BY <1>0, <1>2
  <2> QED BY <1>0, <1>1, <1>2, <2>1, AppendProperties, LenProperties
<1>4. \A p : AtWork(p, c)' <=> AtWork(p, c) \/ (p = new /\ c = <<r, next[r]>>)
  <2> SUFFICES ASSUME NEW p PROVE AtWork(p, c)' <=> AtWork(p, c) \/ (p = new /\ c = <<r, next[r]>>)
    OBVIOUS
  <2>1. AtWork(p, c) => AtWork(p, c)'
    <3>1. ASSUME NEW m \in Lane, NEW k \in 1..Len(work[m])
          PROVE  k \in 1..Len(work'[m]) /\ work'[m][k] = work[m][k]
      BY <1>3
    <3> QED BY <3>1 DEF AtWork
  <2>2. p = new /\ c = <<r, next[r]>> => AtWork(p, c)'
    BY <1>0, <1>1, <1>3 DEF AtWork
  <2>3. ASSUME AtWork(p, c)' PROVE AtWork(p, c) \/ (p = new /\ c = <<r, next[r]>>)
    <3>1. PICK m \in Lane : \E k \in 1..Len(work'[m]) : p = <<"work", m, k>> /\ work'[m][k].id = c
      BY <2>3, Zenon DEF AtWork
    <3>2. PICK k \in 1..Len(work'[m]) : p = <<"work", m, k>> /\ work'[m][k].id = c
      BY <3>1
    <3>3. CASE m = l /\ k = Len(work[l]) + 1
      BY <1>1, <1>3, <3>2, <3>3
    <3>4. CASE ~ (m = l /\ k = Len(work[l]) + 1)
      <4>1. k \in 1..Len(work[m]) /\ work'[m][k] = work[m][k]
        BY <1>3, <3>4
      <4> QED BY <3>2, <4>1 DEF AtWork
    <3> QED BY <3>3, <3>4
  <2> QED BY <2>1, <2>2, <2>3
<1>5. \A p : /\ AtBatch(p, c)' <=> AtBatch(p, c)
             /\ AtResults(p, c)' <=> AtResults(p, c)
             /\ AtHand(p, c)' <=> AtHand(p, c)
  BY <1>2 DEF AtBatch, AtResults, AtHand, Unpublished
<1> HIDE DEF new
<1>6. \A p : p \in Copies(c)' <=> p \in Copies(c) \/ (p = new /\ c = <<r, next[r]>>)
  BY <1>4, <1>5, CopyPlaces, CopyPlacesNext, Zenon DEF IsPlaced
<1> QED
  BY <1>6 DEF new, l

----------------------------------------------------------------------------
(* The steps that do not. *)

\* A worker's other steps keep what is left to publish.
LEMMA WorkerKeepsCopies ==
    ASSUME Whereabouts, NEW w \in Worker, UNCHANGED gatewayVars,
           ReadClock(w) \/ EmbedOk(w) \/ EmbedFails(w) \/ SetTtl(w) \/ WorkerRestart(w),
           NEW c
    PROVE  Copies(c)' = Copies(c)
<1>0. /\ wpc \in [Worker -> WorkerPc] /\ pos \in [Worker -> Nat] /\ batch \in [Worker -> Seq(Item)]
      /\ AlignedBatch(w)
  BY DEF Whereabouts, GenuineDelivery, GenuineAnswers, BatchesAligned, TypeOK, WorkerTypeOK
<1>1. UNCHANGED <<work, results, inhand>>
  BY DEF ReadClock, EmbedOk, EmbedFails, SetTtl, WorkerRestart, redisVars, gatewayVars
<1>2. ASSUME NEW v \in Worker, v # w
      PROVE  wpc'[v] = wpc[v] /\ pos'[v] = pos[v] /\ batch'[v] = batch[v]
  BY <1>0, <1>2 DEF ReadClock, EmbedOk, EmbedFails, SetTtl, WorkerRestart, Forget
<1>3. ASSUME NEW v \in Worker, v # w
      PROVE  Unpublished(v)' = Unpublished(v) /\ batch'[v] = batch[v]
  BY <1>2, <1>3 DEF Unpublished
<1>4. Unpublished(w)' = Unpublished(w) /\ \A k \in Unpublished(w) : batch'[w][k] = batch[w][k]
  <2>1. CASE ReadClock(w) \/ WorkerRestart(w)
    <3>1. /\ wpc[w] \in {"idle", "claim", "down"} /\ wpc'[w] \in {"idle", "claim", "down"}
      BY <1>0, <2>1 DEF ReadClock, WorkerRestart
    <3> QED BY <3>1, UnpublishedIs, UnpublishedIsNext
  <2>2. CASE EmbedOk(w) \/ EmbedFails(w)
    <3>1. wpc[w] = "embed" /\ wpc'[w] = "publish" /\ pos'[w] = 1 /\ batch'[w] = batch[w]
      BY <1>0, <2>2 DEF EmbedOk, EmbedFails
    <3> QED BY <3>1, UnpublishedIs, UnpublishedIsNext
  <2>3. CASE SetTtl(w)
    <3>1. wpc[w] \in {"expire", "reexpire"} /\ pos[w] \in 1..Len(batch[w]) /\ Len(batch[w]) \in Nat
      BY <1>0, <2>3, LenProperties DEF SetTtl, AlignedBatch, Publishing
    <3>2. Unpublished(w) = (pos[w] + 1)..Len(batch[w])
      BY <3>1, UnpublishedIs
    <3>3. CASE pos[w] < Len(batch[w])
      <4>1. pos'[w] = pos[w] + 1 /\ wpc'[w] = "publish" /\ batch'[w] = batch[w]
        BY <1>0, <2>3, <3>3 DEF SetTtl
      <4> QED BY <3>2, <4>1, UnpublishedIsNext
    <3>4. CASE ~ (pos[w] < Len(batch[w]))
      <4>1. wpc'[w] = "idle"
        BY <1>0, <2>3, <3>4 DEF SetTtl
      <4>2. Unpublished(w)' = {} /\ Unpublished(w) = {}
        BY <3>1, <3>2, <3>4, <4>1, UnpublishedIsNext
      <4> QED BY <4>2
    <3> QED BY <3>3, <3>4
  <2> QED BY <2>1, <2>2, <2>3
<1> QED
  BY <1>1, <1>3, <1>4, CopiesStay

\* A worker that dies takes its copies with it.
LEMMA WorkerCrashFlows ==
    ASSUME Whereabouts, NEW w \in Worker, UNCHANGED gatewayVars, WorkerCrash(w), NEW c
    PROVE  Flows(c)
<1>0. wpc \in [Worker -> WorkerPc] /\ pos \in [Worker -> Nat] /\ batch \in [Worker -> Seq(Item)]
  BY DEF Whereabouts, GenuineDelivery, GenuineAnswers, TypeOK, WorkerTypeOK
<1>1. UNCHANGED <<work, results, inhand>>
  BY DEF WorkerCrash, redisVars, gatewayVars
<1>2. ASSUME NEW v \in Worker, v # w
      PROVE  wpc'[v] = wpc[v] /\ pos'[v] = pos[v] /\ batch'[v] = batch[v]
  BY <1>0, <1>2 DEF WorkerCrash, Forget
<1>3. ASSUME NEW v \in Worker, v # w
      PROVE  Unpublished(v)' = Unpublished(v) /\ batch'[v] = batch[v]
  BY <1>2, <1>3 DEF Unpublished
<1>4. Unpublished(w)' = {}
  <2>1. wpc'[w] = "down"
    BY <1>0 DEF WorkerCrash
  <2> QED BY <2>1, UnpublishedIsNext
<1>5. \A v \in Worker : \A k \in Unpublished(v)' : k \in Unpublished(v) /\ batch'[v][k] = batch[v][k]
  BY <1>3, <1>4
<1> QED
  BY <1>1, <1>5, CopiesShrink, ShrinkFlows

\* The gateway steps that touch neither Redis nor what a listener holds.
QuietRequest(r) ==
    PushReturns(r) \/ Collect(r) \/ TimeoutFires(r) \/ TimeoutFinish(r) \/ PushError(r)

LEMMA QuietKeepsCopies ==
    ASSUME UNCHANGED workerVars,
           \/ \E r \in Request, g \in Gateway : Accept(r, g) \/ Reject(r, g)
           \/ \E r \in Request : QuietRequest(r)
           \/ \E g \in Gateway : StopEnd(g) \/ GatewayRestart(g),
           NEW c
    PROVE  Copies(c)' = Copies(c)
<1>1. ASSUME NEW r \in Request, NEW g \in Gateway, Accept(r, g) \/ Reject(r, g)
      PROVE  UNCHANGED <<work, results, inhand>>
  BY <1>1 DEF Accept, Reject, redisVars
<1>2. ASSUME NEW r \in Request, QuietRequest(r)
      PROVE  UNCHANGED <<work, results, inhand>>
  BY <1>2, Zenon DEF QuietRequest, PushReturns, Collect, TimeoutFires, TimeoutFinish, PushError, Finish, redisVars
<1>3. ASSUME NEW g \in Gateway, StopEnd(g) \/ GatewayRestart(g)
      PROVE  UNCHANGED <<work, results, inhand>>
  BY <1>3 DEF StopEnd, GatewayRestart, redisVars
<1>4. UNCHANGED <<work, results, inhand>>
  BY <1>1, <1>2, <1>3
<1>5. \A w \in Worker : /\ Unpublished(w)' = Unpublished(w)
                        /\ \A k \in Unpublished(w) : batch'[w][k] = batch[w][k]
  BY DEF workerVars, Unpublished
<1> QED
  BY <1>4, <1>5, CopiesStay

\* The gateway steps that empty the listener's hand.
HandEmpties(g) == Deliver(g) \/ ListenerError(g) \/ StopBegin(g) \/ GatewayCrash(g)

LEMMA HandEmptiesCopies ==
    ASSUME Whereabouts, NEW g \in Gateway, HandEmpties(g), UNCHANGED workerVars, NEW c
    PROVE  Copies(c)' = Copies(c) \ {<<"hand", g>>}
<1>0. inhand \in [Gateway -> Result \cup {Nil}]
  BY DEF Whereabouts, GenuineDelivery, GenuineAnswers, TypeOK, GatewayTypeOK
<1>1. inhand' = [inhand EXCEPT ![g] = Nil] /\ UNCHANGED <<work, results>>
  BY DEF HandEmpties, Deliver, ListenerError, StopBegin, GatewayCrash, redisVars
<1>2. \A p : AtHand(p, c)' <=> AtHand(p, c) /\ p # <<"hand", g>>
  BY <1>0, <1>1 DEF AtHand
<1>3. \A p : /\ AtWork(p, c)' <=> AtWork(p, c)
             /\ AtBatch(p, c)' <=> AtBatch(p, c)
             /\ AtResults(p, c)' <=> AtResults(p, c)
  BY <1>1 DEF AtWork, AtBatch, AtResults, Unpublished, workerVars
<1>4. \A p : AtWork(p, c) \/ AtBatch(p, c) \/ AtResults(p, c) => p # <<"hand", g>>
  BY DEF AtWork, AtBatch, AtResults
<1>5. \A p : p \in Copies(c)' <=> p \in Copies(c) /\ p # <<"hand", g>>
  BY <1>2, <1>3, <1>4, CopyPlaces, CopyPlacesNext, Zenon DEF IsPlaced
<1> QED
  BY <1>5

LEMMA RedisFlows ==
    ASSUME Whereabouts, RedisFault, UNCHANGED <<gatewayVars, workerVars>>, NEW c
    PROVE  Flows(c)
<1>0. results \in [Gateway -> Seq(Result)]
  BY DEF Whereabouts, GenuineDelivery, GenuineAnswers, TypeOK, RedisTypeOK
<1>1. /\ \A l \in Lane : work'[l] \in {work[l], <<>>}
      /\ \A g \in Gateway : results'[g] \in {results[g], <<>>}
  BY <1>0 DEF RedisFault, DeadlinePasses, ResultsExpire, RedisLoss
<1>2. \A g \in Gateway : inhand'[g] \in {inhand[g], Nil}
  BY DEF gatewayVars
<1>3. \A w \in Worker : \A k \in Unpublished(w)' : k \in Unpublished(w) /\ batch'[w][k] = batch[w][k]
  BY DEF workerVars, Unpublished
<1> QED
  BY <1>1, <1>2, <1>3, CopiesShrink, ShrinkFlows

----------------------------------------------------------------------------
(* Without a repeated command. *)

\* What one step does to the copies of a child, if it does not enqueue the child.
LEMMA StepFlows ==
    ASSUME Whereabouts, [Next]_vars, "retry" \notin Faults, NEW c
    PROVE  \/ Flows(c)
           \/ \E r \in Request : Push(r) /\ c = <<r, next[r]>> /\ UNCHANGED workerVars
<1>1. CASE GatewayNormal /\ UNCHANGED workerVars
  <2>1. ASSUME NEW r \in Request, Push(r), c # <<r, next[r]>>
        PROVE  Flows(c)
    BY <1>1, <2>1, PushAddsOne, ShrinkFlows
  <2>2. ASSUME NEW g \in Gateway, BlpopEmbeddingResult(g)
        PROVE  Flows(c)
    BY <1>1, <2>2, BlpopFlows
  <2>3. ASSUME NEW g \in Gateway, Deliver(g)
        PROVE  Flows(c)
    BY <1>1, <2>3, HandEmptiesCopies, ShrinkFlows DEF HandEmpties
  <2>4. ASSUME \/ \E r \in Request, g \in Gateway : Accept(r, g) \/ Reject(r, g)
               \/ \E r \in Request : QuietRequest(r)
               \/ \E g \in Gateway : StopEnd(g) \/ GatewayRestart(g)
        PROVE  Flows(c)
    BY <1>1, <2>4, QuietKeepsCopies, ShrinkFlows
  <2> QED BY <1>1, <2>1, <2>2, <2>3, <2>4 DEF GatewayNormal, RequestStep, QuietRequest, ListenerStep
<1>2. CASE GatewayFault /\ UNCHANGED workerVars
  <2>1. ASSUME NEW r \in Request, PushError(r)
        PROVE  Flows(c)
    BY <1>2, <2>1, QuietKeepsCopies, ShrinkFlows DEF QuietRequest
  <2>2. ASSUME NEW g \in Gateway, ListenerError(g) \/ StopBegin(g) \/ GatewayCrash(g)
        PROVE  Flows(c)
    BY <1>2, <2>2, HandEmptiesCopies, ShrinkFlows DEF HandEmpties
  <2> QED BY <1>2, <2>1, <2>2 DEF GatewayFault
<1>3. CASE (WorkerNormal \/ WorkerFault) /\ UNCHANGED gatewayVars
  <2>1. ASSUME NEW w \in Worker,
               ReadClock(w) \/ EmbedOk(w) \/ EmbedFails(w) \/ SetTtl(w) \/ WorkerRestart(w)
        PROVE  Flows(c)
    BY <1>3, <2>1, WorkerKeepsCopies, ShrinkFlows
  <2>2. ASSUME NEW w \in Worker, ClaimBatch(w) \/ Publish(w) \/ WorkerCrash(w)
        PROVE  Flows(c)
    BY <1>3, <2>2, ClaimFlows, PublishFlows, WorkerCrashFlows
  <2> QED BY <1>3, <2>1, <2>2 DEF WorkerNormal, WorkerFault
<1>4. CASE RedisFault /\ UNCHANGED <<gatewayVars, workerVars>>
  BY <1>4, RedisFlows
<1>5. CASE UNCHANGED vars
  <2>1. UNCHANGED <<work, results, inhand>> /\ UNCHANGED workerVars
    BY <1>5 DEF vars, redisVars, gatewayVars
  <2>2. \A w \in Worker : /\ Unpublished(w)' = Unpublished(w)
                          /\ \A k \in Unpublished(w) : batch'[w][k] = batch[w][k]
    BY <2>1 DEF workerVars, Unpublished
  <2> QED BY <2>1, <2>2, CopiesStay, ShrinkFlows
<1> QED
  BY <1>1, <1>2, <1>3, <1>4, <1>5 DEF Next

\* How a step moves a request on.
RequestMoves(r) ==
    \/ phase'[r] = phase[r] /\ next'[r] = next[r]
    \/ phase'[r] \notin {"push", "idle"} /\ phase[r] # "done" /\ next'[r] = next[r]
    \/ phase[r] = "idle" /\ phase'[r] = "push" /\ next'[r] = 1
    \/ phase[r] \in {"pushed", "repushed"} /\ phase'[r] = "push" /\ next'[r] = next[r] + 1

LEMMA StepMovesRequests ==
    ASSUME Whereabouts, [Next]_vars, NEW q \in Request
    PROVE  RequestMoves(q)
<1>0. phase \in [Request -> Phase] /\ next \in [Request -> Nat]
  BY DEF Whereabouts, GenuineDelivery, GenuineAnswers, TypeOK, GatewayTypeOK
<1>1. CASE UNCHANGED <<phase, next>>
  BY <1>1 DEF RequestMoves
<1>2. ASSUME NEW r \in Request, NEW g \in Gateway, Accept(r, g) \/ Reject(r, g)
      PROVE  RequestMoves(q)
  BY <1>0, <1>2 DEF Accept, Reject, RegisterChild, RequestMoves
<1>3. ASSUME NEW r \in Request, RequestStep(r) \/ PushError(r) \/ PushAgain(r)
      PROVE  RequestMoves(q)
  <2>1. CASE PushReturns(r)
    BY <1>0, <2>1 DEF PushReturns, RegisterChild, RequestMoves
  <2>2. CASE ~ PushReturns(r)
    <3>1. /\ \E p \in {"pushed", "repushed", "cancelling", "done"} : phase' = [phase EXCEPT ![r] = p]
          /\ UNCHANGED next /\ phase[r] # "done"
      BY <1>3, <2>2, Zenon DEF RequestStep, PushError, PushAgain, Push, Collect, TimeoutFires, TimeoutFinish, Finish
    <3> QED BY <1>0, <3>1 DEF RequestMoves
  <2> QED BY <2>1, <2>2
<1>4. ASSUME NEW g \in Gateway,
             ListenerStep(g) \/ StopEnd(g) \/ GatewayRestart(g) \/ ListenerError(g) \/ StopBegin(g)
      PROVE  UNCHANGED <<phase, next>>
  BY <1>4, Zenon DEF ListenerStep, BlpopEmbeddingResult, Deliver, StopEnd, GatewayRestart, ListenerError, StopBegin
<1>5. ASSUME NEW g \in Gateway, GatewayCrash(g)
      PROVE  RequestMoves(q)
  BY <1>0, <1>5 DEF GatewayCrash, InFlight, RequestMoves
<1>6. GatewayNormal \/ GatewayFault => RequestMoves(q)
  BY <1>1, <1>2, <1>3, <1>4, <1>5 DEF GatewayNormal, GatewayFault
<1> QED
  BY <1>1, <1>6 DEF Next, vars, gatewayVars

\* What was pushed stays pushed.
LEMMA PushedStays ==
    ASSUME Whereabouts, [Next]_vars, NEW c \in Child, Pushed(c)
    PROVE  Pushed(c)'
<1>0. /\ c[1] \in Request /\ c[2] \in Nat \ {0} /\ next \in [Request -> Nat] /\ UnsentIsNew
  BY ChildParts DEF Indexes, Whereabouts, GenuineDelivery, GenuineAnswers, TypeOK, GatewayTypeOK
<1>1. RequestMoves(c[1])
  BY <1>0, StepMovesRequests
<1> QED
  BY <1>0, <1>1 DEF RequestMoves, Pushed, UnsentIsNew

\* A future gets its result from the listener's hand.
LEMMA StepOfDone ==
    ASSUME Whereabouts, [Next]_vars, NEW c \in Child, future'[c].state = "done"
    PROVE  \/ future[c].state = "done"
           \/ \E g \in Gateway : /\ Deliver(g) /\ UNCHANGED workerVars
                                 /\ inhand[g] # Nil /\ inhand[g].id = c
<1>0. future \in [Child -> Future]
  BY DEF Whereabouts, GenuineDelivery, GenuineAnswers, TypeOK, GatewayTypeOK
<1>1. CASE UNCHANGED future
  BY <1>1
<1>2. ASSUME NEW r \in Request, NEW i, NEW g, RegisterChild(r, i, g)
      PROVE  future[c].state = "done"
  BY <1>0, <1>2 DEF RegisterChild, PendingFuture
<1>3. ASSUME NEW r \in Request, NEW rep, Finish(r, rep)
      PROVE  future[c].state = "done"
  BY <1>3 DEF Finish, NoFuture
<1>4. ASSUME NEW r \in Request, NEW g \in Gateway, Accept(r, g) \/ Reject(r, g)
      PROVE  future[c].state = "done"
  BY <1>1, <1>2, <1>4 DEF Accept, Reject
<1>5. ASSUME NEW r \in Request, RequestStep(r) \/ PushError(r) \/ PushAgain(r)
      PROVE  future[c].state = "done"
  <2>1. CASE TimeoutFires(r)
    BY <2>1 DEF TimeoutFires
  <2>2. CASE Push(r) \/ PushAgain(r) \/ PushReturns(r)
    BY <1>1, <1>2, <2>2 DEF Push, PushAgain, PushReturns
  <2>3. CASE \E rep : Finish(r, rep)
    BY <1>3, <2>3
  <2>4. Collect(r) \/ TimeoutFinish(r) \/ PushError(r) => \E rep : Finish(r, rep)
    BY Zenon DEF Collect, TimeoutFinish, PushError
  <2> QED BY <1>5, <2>1, <2>2, <2>3, <2>4 DEF RequestStep
<1>6. ASSUME NEW g \in Gateway, Deliver(g)
      PROVE  future[c].state = "done" \/ (inhand[g] # Nil /\ inhand[g].id = c)
  BY <1>0, <1>6 DEF Deliver
<1>7. ASSUME NEW g \in Gateway,
             \/ BlpopEmbeddingResult(g) \/ StopEnd(g) \/ GatewayRestart(g) \/ ListenerError(g)
             \/ StopBegin(g) \/ GatewayCrash(g)
      PROVE  future[c].state = "done"
  BY <1>7 DEF BlpopEmbeddingResult, StopEnd, GatewayRestart, ListenerError, StopBegin, GatewayCrash, NoFuture
<1>8. CASE (GatewayNormal \/ GatewayFault) /\ UNCHANGED workerVars
  BY <1>4, <1>5, <1>6, <1>7, <1>8 DEF GatewayNormal, GatewayFault, ListenerStep
<1> QED
  BY <1>1, <1>8 DEF Next, vars, gatewayVars

LEMMA StepKeepsEachOnce ==
    ASSUME Whereabouts, EachOnce, [Next]_vars, "retry" \notin Faults
    PROVE  EachOnce'
<1> SUFFICES ASSUME NEW c \in Child PROVE OneCopy(c)'
  BY DEF EachOnce
<1>0. /\ OneAtMost(Copies(c))
      /\ ~ Pushed(c) => Copies(c) = {} /\ future[c].state # "done"
      /\ future[c].state = "done" => Copies(c) = {}
  BY DEF EachOnce, OneCopy, OneAtMost
<1>1. CASE \E r \in Request : Push(r) /\ c = <<r, next[r]>> /\ UNCHANGED workerVars
  <2>1. PICK r \in Request : Push(r) /\ c = <<r, next[r]>> /\ UNCHANGED workerVars
    BY <1>1
  <2>2. /\ phase[r] = "push" /\ phase' = [phase EXCEPT ![r] = "pushed"] /\ UNCHANGED <<next, future>>
        /\ phase \in [Request -> Phase] /\ next \in [Request -> Nat]
    BY <2>1 DEF Push, Whereabouts, GenuineDelivery, GenuineAnswers, TypeOK, GatewayTypeOK
  <2>3. ~ Pushed(c) /\ Pushed(c)'
    BY <2>1, <2>2 DEF Pushed
  <2>4. OneAtMost(Copies(c)')
    <3>1. Copies(c) = {}
      BY <1>0, <2>3
    <3>2. \E new : Copies(c)' = Copies(c) \cup {new}
      BY <2>1, PushAddsOne
    <3> QED BY <3>1, <3>2 DEF OneAtMost
  <2>5. future'[c].state # "done"
    BY <1>0, <2>2, <2>3
  <2> QED BY <2>3, <2>4, <2>5 DEF OneCopy, OneAtMost
<1>2. CASE Flows(c)
  <2>1. OneAtMost(Copies(c)') /\ (Copies(c) = {} => Copies(c)' = {})
    BY <1>0, <1>2 DEF Flows
  <2>2. future'[c].state = "done" => Pushed(c) /\ Copies(c)' = {}
    <3> SUFFICES ASSUME future'[c].state = "done" PROVE Pushed(c) /\ Copies(c)' = {}
      OBVIOUS
    <3>1. CASE future[c].state = "done"
      BY <1>0, <2>1, <3>1
    <3>2. ASSUME NEW g \in Gateway, Deliver(g), UNCHANGED workerVars, inhand[g] # Nil, inhand[g].id = c
          PROVE  Pushed(c) /\ Copies(c)' = {}
      <4>1. AtHand(<<"hand", g>>, c)
        BY <3>2 DEF AtHand
      <4>2. <<"hand", g>> \in Copies(c)
        BY <4>1, CopyPlaces DEF IsPlaced
      <4>3. Copies(c) = {<<"hand", g>>}
        BY <1>0, <4>2 DEF OneAtMost
      <4>4. Copies(c)' = Copies(c) \ {<<"hand", g>>}
        BY <3>2, HandEmptiesCopies DEF HandEmpties
      <4> QED BY <1>0, <4>2, <4>3, <4>4
    <3> QED BY <3>1, <3>2, StepOfDone
  <2>3. ~ Pushed(c)' => Copies(c)' = {} /\ future'[c].state # "done"
    BY <1>0, <2>1, <2>2, PushedStays
  <2> QED BY <2>1, <2>2, <2>3 DEF OneCopy, OneAtMost
<1> QED
  BY <1>1, <1>2, StepFlows

LEMMA InitIsOnce == Init => EachOnce
<1> SUFFICES ASSUME Init, NEW c \in Child PROVE OneCopy(c)
  BY DEF EachOnce
<1>1. \A p : ~ AtWork(p, c) /\ ~ AtBatch(p, c) /\ ~ AtResults(p, c) /\ ~ AtHand(p, c)
  <2>1. \A p : ~ AtWork(p, c) /\ ~ AtResults(p, c)
    BY DEF Init, RedisInit, AtWork, AtResults
  <2>2. \A w \in Worker : Unpublished(w) = {}
    BY UnpublishedIs DEF Init, WorkerInit
  <2>3. \A p : ~ AtBatch(p, c) /\ ~ AtHand(p, c)
    BY <2>2 DEF Init, GatewayInit, AtBatch, AtHand
  <2> QED BY <2>1, <2>3
<1>2. Copies(c) = {}
  BY <1>1, CopyPlaces DEF IsPlaced
<1>3. future[c].state # "done"
  BY DEF Init, GatewayInit, NoFuture
<1> QED
  BY <1>2, <1>3 DEF OneCopy

\* While redis-py repeats no command that Redis has executed: every child has one
\* copy at most in every reachable state, none before its RPUSH or after its result.
THEOREM EachOnceInvariant ==
    ASSUME "retry" \notin Faults
    PROVE  Spec => []EachOnce
<1>1. Whereabouts /\ EachOnce /\ [Next]_vars => EachOnce'
  BY StepKeepsEachOnce
<1> QED
  BY <1>1, InitIsOnce, WhereaboutsInvariant, PTL DEF Spec

\* A child is never in two places at once, nor anywhere beside its own result,
\* whoever crashes and whatever is lost, unless a command is repeated.
THEOREM AtMostOnceInvariant ==
    ASSUME "retry" \notin Faults
    PROVE  Spec => []AtMostOnce
<1>1. EachOnce => AtMostOnce
  <2> SUFFICES ASSUME EachOnce, NEW c \in Child
               PROVE  Cardinality(Copies(c)) + (IF future[c].state = "done" THEN 1 ELSE 0) <= 1
    BY DEF AtMostOnce
  <2>1. CASE Copies(c) = {}
    BY <2>1, FS_EmptySet
  <2>2. CASE Copies(c) # {}
    <3>1. PICK p \in Copies(c) : Copies(c) = {p}
      <4>1. PICK p \in Copies(c) : TRUE
        BY <2>2
      <4>2. \A q \in Copies(c) : q = p
        BY <4>1 DEF EachOnce, OneCopy
      <4> QED BY <4>1, <4>2
    <3>2. Cardinality(Copies(c)) = 1
      BY <3>1, FS_Singleton
    <3>3. future[c].state # "done"
      BY <2>2 DEF EachOnce, OneCopy
    <3> QED BY <3>2, <3>3
  <2> QED BY <2>1, <2>2
<1> QED
  BY <1>1, EachOnceInvariant, PTL

----------------------------------------------------------------------------
(* The stations of a child. *)

StationAt == [work |-> "queued", batch |-> "claimed", result |-> "replied", hand |-> "received"]

\* A child's station is where its copy is; without one, before or after its way.
IsStationed ==
    \A c : /\ Copies(c) # {} /\ OneAtMost(Copies(c)) =>
                 \A p \in Copies(c) : p[1] \in DOMAIN StationAt /\ StationOf(c) = StationAt[p[1]]
           /\ Copies(c) = {} =>
                 StationOf(c) = IF ~ Pushed(c) /\ phase[c[1]] # "done" THEN "unsent" ELSE "gone"

LEMMA CopyStations == IsStationed
<1> SUFFICES ASSUME NEW c
             PROVE  /\ OneAtMost(Copies(c)) =>
                          \A p \in Copies(c) : p[1] \in DOMAIN StationAt /\ StationOf(c) = StationAt[p[1]]
                    /\ Copies(c) = {} =>
                          StationOf(c) = IF ~ Pushed(c) /\ phase[c[1]] # "done" THEN "unsent" ELSE "gone"
  BY Zenon DEF IsStationed
<1> DEFINE InHand == \E g \in Gateway : inhand[g] # Nil /\ inhand[g].id = c
           InResults == \E g \in Gateway : \E k \in 1..Len(results[g]) : results[g][k].id = c
           InBatch == \E w \in Worker : \E k \in Unpublished(w) : batch[w][k].id = c
           InWork == \E l \in Lane : \E k \in 1..Len(work[l]) : work[l][k].id = c
<1>1. StationOf(c) = IF InHand THEN "received"
                     ELSE IF InResults THEN "replied"
                     ELSE IF InBatch THEN "claimed"
                     ELSE IF InWork THEN "queued"
                     ELSE IF ~ Pushed(c) /\ phase[c[1]] # "done" THEN "unsent" ELSE "gone"
  BY DEF StationOf
<1>2. /\ InHand <=> \E p \in Copies(c) : AtHand(p, c)
      /\ InResults <=> \E p \in Copies(c) : AtResults(p, c)
      /\ InBatch <=> \E p \in Copies(c) : AtBatch(p, c)
      /\ InWork <=> \E p \in Copies(c) : AtWork(p, c)
  <2>1. /\ InHand <=> \E p : AtHand(p, c)
        /\ InResults <=> \E p : AtResults(p, c)
        /\ InBatch <=> \E p : AtBatch(p, c)
        /\ InWork <=> \E p : AtWork(p, c)
    BY Zenon DEF AtHand, AtResults, AtBatch, AtWork
  <2> QED BY <2>1, CopyPlaces, Zenon DEF IsPlaced
<1> HIDE DEF InHand, InResults, InBatch, InWork
<1>3. ASSUME Copies(c) = {}
      PROVE  StationOf(c) = IF ~ Pushed(c) /\ phase[c[1]] # "done" THEN "unsent" ELSE "gone"
  BY <1>1, <1>2, <1>3
<1>4. ASSUME OneAtMost(Copies(c)), NEW p \in Copies(c)
      PROVE  p[1] \in DOMAIN StationAt /\ StationOf(c) = StationAt[p[1]]
  <2>1. \A q \in Copies(c) : q = p
    BY <1>4 DEF OneAtMost
  <2>2. AtWork(p, c) \/ AtBatch(p, c) \/ AtResults(p, c) \/ AtHand(p, c)
    BY <1>4, CopyPlaces, Zenon DEF IsPlaced
  <2>3. /\ InHand <=> AtHand(p, c)
        /\ InResults <=> AtResults(p, c)
        /\ InBatch <=> AtBatch(p, c)
        /\ InWork <=> AtWork(p, c)
    BY <1>2, <1>4, <2>1, Zenon
  <2>4. /\ AtHand(p, c) => p[1] = "hand"
        /\ AtResults(p, c) => p[1] = "result"
        /\ AtBatch(p, c) => p[1] = "batch"
        /\ AtWork(p, c) => p[1] = "work"
    BY DEF AtHand, AtResults, AtBatch, AtWork
  <2> QED BY <1>1, <2>2, <2>3, <2>4 DEF StationAt
<1> QED
  BY <1>3, <1>4

LEMMA CopyStationsNext == IsStationed'
BY CopyStations, PTL

\* A step moves a child from its station to the next, or drops it.
LEMMA StepMovesOn ==
    ASSUME Whereabouts, EachOnce, [Next]_vars, "retry" \notin Faults, NEW c \in Child
    PROVE  /\ StationOf(c)' \in Life!Station
           /\ StationOf(c)' = StationOf(c) \/ StationOf(c)' \in Life!Following(StationOf(c))
<1>0. /\ OneAtMost(Copies(c)) /\ OneAtMost(Copies(c)')
      /\ ~ Pushed(c) => Copies(c) = {}
      /\ ~ Pushed(c)' => Copies(c)' = {}
  <2>1. EachOnce'
    BY StepKeepsEachOnce
  <2> QED BY <2>1 DEF EachOnce, OneCopy, OneAtMost
<1>1. /\ Copies(c) # {} => \A p \in Copies(c) : p[1] \in DOMAIN StationAt /\ StationOf(c) = StationAt[p[1]]
      /\ Copies(c) = {} => StationOf(c) = IF ~ Pushed(c) /\ phase[c[1]] # "done" THEN "unsent" ELSE "gone"
  BY <1>0, CopyStations, Zenon DEF IsStationed
<1>2. /\ Copies(c)' # {} => \A p \in Copies(c)' : p[1] \in DOMAIN StationAt /\ StationOf(c)' = StationAt[p[1]]
      /\ Copies(c)' = {} => StationOf(c)' = IF ~ Pushed(c)' /\ phase'[c[1]] # "done" THEN "unsent" ELSE "gone"
  <2>1. StationAt' = StationAt
    BY DEF StationAt
  <2> QED BY <1>0, <2>1, CopyStationsNext, Zenon DEF IsStationed
<1>3. Pushed(c) => Pushed(c)'
  BY PushedStays
<1>4. phase[c[1]] = "done" => phase'[c[1]] = "done"
  BY ChildParts, StepMovesRequests DEF RequestMoves
<1>5. CASE Copies(c) = {} /\ Copies(c)' = {}
  BY <1>1, <1>2, <1>3, <1>4, <1>5 DEF Life!Station, Life!Following
<1>6. CASE Copies(c) # {} /\ Copies(c)' = {}
  <2>1. StationOf(c)' = "gone"
    BY <1>0, <1>2, <1>3, <1>6
  <2>2. StationOf(c) \in {"queued", "claimed", "replied", "received"}
    BY <1>1, <1>6 DEF StationAt
  <2> QED BY <2>1, <2>2 DEF Life!Station, Life!Following
<1>7. CASE Copies(c)' # {} /\ Flows(c)
  <2>1. PICK p \in Copies(c)' : TRUE
    BY <1>7
  <2>2. PICK q \in Copies(c) : p[1] = q[1] \/ <<q[1], p[1]>> \in Onward
    BY <1>7, <2>1 DEF Flows
  <2>3. /\ p[1] \in DOMAIN StationAt /\ StationOf(c)' = StationAt[p[1]]
        /\ q[1] \in DOMAIN StationAt /\ StationOf(c) = StationAt[q[1]]
    BY <1>1, <1>2, <2>1, <2>2
  <2>4. \/ p[1] = q[1]
        \/ q[1] = "work" /\ p[1] = "batch"
        \/ q[1] = "batch" /\ p[1] = "result"
        \/ q[1] = "result" /\ p[1] = "hand"
    BY <2>2 DEF Onward
  <2> QED BY <2>3, <2>4 DEF StationAt, Life!Station, Life!Following
<1>8. ASSUME NEW r \in Request, Push(r), c = <<r, next[r]>>, UNCHANGED workerVars, Copies(c)' # {}
      PROVE  StationOf(c) = "unsent" /\ StationOf(c)' = "queued"
  <2>1. phase[r] = "push" /\ c[1] = r /\ c[2] = next[r]
    BY <1>8 DEF Push
  <2>2. ~ Pushed(c) /\ Copies(c) = {} /\ next[r] \in Nat
    <3>1. next \in [Request -> Nat]
      BY DEF Whereabouts, GenuineDelivery, GenuineAnswers, TypeOK, GatewayTypeOK
    <3> QED BY <1>0, <2>1, <3>1 DEF Pushed
  <2>3. StationOf(c) = "unsent"
    BY <1>1, <2>1, <2>2
  <2>4. PICK p \in Copies(c)' : p[1] = "work"
    BY <1>8, <2>2, PushAddsOne
  <2> QED BY <1>2, <2>3, <2>4 DEF StationAt
<1> QED
  BY <1>5, <1>6, <1>7, <1>8, StepFlows DEF Life!Station, Life!Following

\* Unless a command is repeated, the batched path implements ChildLife: whatever
\* else fails, no step of it puts a child back to a station it has left.
THEOREM ImplementsChildLifeHolds ==
    ASSUME "retry" \notin Faults
    PROVE  Spec => ImplementsChildLife
<1>1. Init => Life!LifeInit
  <2> SUFFICES ASSUME Init, NEW c \in Child PROVE StationOf(c) = "unsent"
    BY DEF Life!LifeInit
  <2>1. ~ Pushed(c) /\ phase[c[1]] # "done"
    BY ChildParts DEF Init, GatewayInit, Pushed, Indexes
  <2>2. Copies(c) = {}
    BY <2>1, InitIsOnce DEF EachOnce, OneCopy
  <2> QED BY <2>1, <2>2, CopyStations DEF IsStationed
<1>2. Whereabouts /\ EachOnce /\ [Next]_vars => [Life!Move]_([c \in Child |-> StationOf(c)])
  <2> SUFFICES ASSUME Whereabouts, EachOnce, [Next]_vars PROVE Life!Move
    OBVIOUS
  <2> QED BY StepMovesOn DEF Life!Move
<1> QED
  BY <1>1, <1>2, EachOnceInvariant, WhereaboutsInvariant, PTL DEF Spec, ImplementsChildLife, Life!LifeSpec

----------------------------------------------------------------------------
(* What somebody waits for. *)

\* The children NeverLost is about: enqueued, of a request that a live gateway
\* serves and whose deadline has not passed, and still without an answer.
Waits(c) ==
    /\ InFlight(c[1]) /\ Pushed(c)
    /\ gw[home[c[1]]] = "up"
    /\ future[c].state = "pending"
    /\ c[1] \notin expired

\* A future becomes pending only when its child is registered.
LEMMA StepOfPending ==
    ASSUME Whereabouts, [Next]_vars, NEW c \in Child, future'[c].state = "pending"
    PROVE  \/ future[c].state = "pending"
           \/ next'[c[1]] = c[2] /\ phase'[c[1]] = "push"
<1>0. /\ future \in [Child -> Future] /\ phase \in [Request -> Phase] /\ next \in [Request -> Nat]
      /\ c[1] \in Request
  BY ChildParts DEF Whereabouts, GenuineDelivery, GenuineAnswers, TypeOK, GatewayTypeOK
<1> DEFINE Was == future[c].state = "pending"
           Registers == next'[c[1]] = c[2] /\ phase'[c[1]] = "push"
<1>1. CASE UNCHANGED future
  BY <1>1
<1>2. ASSUME NEW r \in Request, NEW i, NEW g, RegisterChild(r, i, g)
      PROVE  Was \/ Registers
  <2>1. CASE c = <<r, i>>
    BY <1>0, <1>2, <2>1 DEF RegisterChild
  <2>2. CASE c # <<r, i>>
    BY <1>0, <1>2, <2>2 DEF RegisterChild
  <2> QED BY <2>1, <2>2
<1>3. ASSUME NEW r \in Request, NEW rep, Finish(r, rep)
      PROVE  Was
  BY <1>3 DEF Finish, NoFuture
<1>4. ASSUME NEW r \in Request, NEW g \in Gateway, Accept(r, g) \/ Reject(r, g)
      PROVE  Was \/ Registers
  BY <1>1, <1>2, <1>4 DEF Accept, Reject
<1>5. ASSUME NEW r \in Request, RequestStep(r) \/ PushError(r) \/ PushAgain(r)
      PROVE  Was \/ Registers
  <2>1. CASE TimeoutFires(r)
    BY <2>1 DEF TimeoutFires
  <2>2. CASE Push(r) \/ PushAgain(r) \/ PushReturns(r)
    BY <1>1, <1>2, <2>2 DEF Push, PushAgain, PushReturns
  <2>3. CASE \E rep : Finish(r, rep)
    BY <1>3, <2>3
  <2>4. Collect(r) \/ TimeoutFinish(r) \/ PushError(r) => \E rep : Finish(r, rep)
    BY Zenon DEF Collect, TimeoutFinish, PushError
  <2> QED BY <1>5, <2>1, <2>2, <2>3, <2>4 DEF RequestStep
<1>6. ASSUME NEW g \in Gateway,
             \/ ListenerStep(g) \/ StopEnd(g) \/ GatewayRestart(g) \/ ListenerError(g)
             \/ StopBegin(g) \/ GatewayCrash(g)
      PROVE  Was
  <2>1. CASE Deliver(g)
    BY <1>0, <2>1 DEF Deliver
  <2> QED BY <1>6, <2>1 DEF ListenerStep, BlpopEmbeddingResult, StopEnd, GatewayRestart, ListenerError,
                            StopBegin, GatewayCrash, NoFuture
<1>7. GatewayNormal \/ GatewayFault => Was \/ Registers
  BY <1>4, <1>5, <1>6 DEF GatewayNormal, GatewayFault
<1> QED
  BY <1>1, <1>7 DEF Next, vars, gatewayVars

\* A gateway comes up by a restart, which leaves the requests alone.
LEMMA StepOfUp ==
    ASSUME Whereabouts, [Next]_vars, NEW g \in Gateway, gw'[g] = "up"
    PROVE  gw[g] = "up" \/ (gw[g] = "down" /\ UNCHANGED <<home, phase, next>>)
<1>0. gw \in [Gateway -> {"up", "stopping", "stopped", "down"}]
  BY DEF Whereabouts, GenuineDelivery, GenuineAnswers, TypeOK, GatewayTypeOK
<1>1. CASE UNCHANGED gw
  BY <1>1
<1>2. ASSUME NEW h \in Gateway, StopBegin(h) \/ StopEnd(h) \/ GatewayCrash(h)
      PROVE  gw[g] = "up"
  BY <1>0, <1>2 DEF StopBegin, StopEnd, GatewayCrash
<1>3. ASSUME NEW h \in Gateway, GatewayRestart(h)
      PROVE  gw[g] = "up" \/ (gw[g] = "down" /\ UNCHANGED <<home, phase, next>>)
  BY <1>0, <1>3 DEF GatewayRestart
<1>4. ASSUME NEW r \in Request, NEW h \in Gateway, Accept(r, h) \/ Reject(r, h)
      PROVE  UNCHANGED gw
  BY <1>4 DEF Accept, Reject
<1>5. ASSUME NEW r \in Request, RequestStep(r) \/ PushError(r) \/ PushAgain(r)
      PROVE  UNCHANGED gw
  BY <1>5, Zenon DEF RequestStep, PushError, PushAgain, Push, PushReturns, Collect, TimeoutFires,
                     TimeoutFinish, Finish
<1>6. ASSUME NEW h \in Gateway, ListenerStep(h) \/ ListenerError(h)
      PROVE  UNCHANGED gw
  BY <1>6, Zenon DEF ListenerStep, BlpopEmbeddingResult, Deliver, ListenerError
<1>7. GatewayNormal \/ GatewayFault =>
          gw[g] = "up" \/ (gw[g] = "down" /\ UNCHANGED <<home, phase, next>>)
  BY <1>1, <1>2, <1>3, <1>4, <1>5, <1>6 DEF GatewayNormal, GatewayFault
<1> QED
  BY <1>1, <1>7 DEF Next, vars, gatewayVars

\* Deadlines that have passed have passed.
LEMMA ExpiredGrows ==
    ASSUME [Next]_vars
    PROVE  expired \subseteq expired'
<1>1. CASE UNCHANGED expired
  BY <1>1
<1>2. CASE RedisFault
  BY <1>2 DEF RedisFault, DeadlinePasses, ResultsExpire, RedisLoss
<1>3. GatewayNormal \/ GatewayFault => UNCHANGED expired
  BY Zenon DEF GatewayNormal, GatewayFault, Accept, Reject, RequestStep, Push, PushReturns, Collect,
         TimeoutFires, TimeoutFinish, Finish, PushError, PushAgain, ListenerStep,
         BlpopEmbeddingResult, Deliver, ListenerError, StopBegin, StopEnd, GatewayCrash,
         GatewayRestart, redisVars
<1>4. WorkerNormal \/ WorkerFault => UNCHANGED expired
  BY Zenon DEF WorkerNormal, WorkerFault, ReadClock, ClaimBatch, EmbedOk, EmbedFails, Publish, SetTtl,
         WorkerRestart, ClaimAgain, PublishAgain, WorkerCrash, redisVars
<1> QED
  BY <1>1, <1>2, <1>3, <1>4 DEF Next, vars, redisVars

\* Only the RPUSH of a request's current child takes its coroutine past it.
LEMMA StepPushes ==
    ASSUME Whereabouts, [Next]_vars, NEW q \in Request, phase[q] = "push",
           phase'[q] \notin {"push", "done"}
    PROVE  Push(q) /\ UNCHANGED workerVars
<1>0. phase \in [Request -> Phase]
  BY DEF Whereabouts, GenuineDelivery, GenuineAnswers, TypeOK, GatewayTypeOK
<1>1. ~ UNCHANGED phase
  OBVIOUS
<1>2. ASSUME NEW r \in Request, NEW g \in Gateway, Accept(r, g) \/ Reject(r, g)
      PROVE  FALSE
  BY <1>0, <1>2 DEF Accept, Reject, RegisterChild
<1>3. ASSUME NEW r \in Request, PushError(r) \/ PushAgain(r) \/ QuietRequest(r)
      PROVE  FALSE
  <2>1. /\ \E p \in {"push", "repushed", "wait", "cancelling", "done"} : phase' = [phase EXCEPT ![r] = p]
        /\ phase[r] = "push" => phase'[r] = "done"
    BY <1>0, <1>3 DEF QuietRequest, PushReturns, RegisterChild, PushError, PushAgain, Collect,
                      TimeoutFires, TimeoutFinish, Finish
  <2> QED BY <1>0, <2>1
<1>4. ASSUME NEW r \in Request, Push(r)
      PROVE  r = q
  BY <1>0, <1>4 DEF Push
<1>5. ASSUME NEW g \in Gateway,
             ListenerStep(g) \/ StopEnd(g) \/ GatewayRestart(g) \/ ListenerError(g) \/ StopBegin(g)
      PROVE  FALSE
  BY <1>1, <1>5, Zenon DEF ListenerStep, BlpopEmbeddingResult, Deliver, StopEnd, GatewayRestart, ListenerError, StopBegin
<1>6. ASSUME NEW g \in Gateway, GatewayCrash(g)
      PROVE  FALSE
  BY <1>0, <1>6 DEF GatewayCrash
<1>7. CASE (GatewayNormal \/ GatewayFault) /\ UNCHANGED workerVars
  BY <1>2, <1>3, <1>4, <1>5, <1>6, <1>7 DEF GatewayNormal, GatewayFault, RequestStep, QuietRequest
<1> QED
  BY <1>1, <1>7 DEF Next, vars, gatewayVars

\* Somebody waits for a child since it was pushed.
LEMMA StepOfWaiting ==
    ASSUME Whereabouts, [Next]_vars, NEW c \in Child, Waits(c)'
    PROVE  \/ Waits(c)
           \/ Push(c[1]) /\ c[2] = next[c[1]] /\ UNCHANGED workerVars
<1> DEFINE r == c[1]
<1>0. /\ r \in Request /\ c[2] \in Nat \ {0}
      /\ next \in [Request -> Nat] /\ phase \in [Request -> Phase]
      /\ UnsentIsNew /\ GenuineDelivery
  BY ChildParts DEF Indexes, Whereabouts, GenuineDelivery, GenuineAnswers, TypeOK, GatewayTypeOK
<1>1. /\ InFlight(r)' /\ Pushed(c)' /\ gw'[home'[r]] = "up"
      /\ future'[c].state = "pending" /\ r \notin expired'
  BY DEF Waits
<1>2. RequestMoves(r)
  BY <1>0, StepMovesRequests
<1>3. CASE ~ Pushed(c)
  <2>1. c[2] >= next[r] /\ (c[2] = next[r] => phase[r] = "push")
    BY <1>0, <1>3 DEF Pushed
  <2>2. c[2] < next'[r] \/ (c[2] = next'[r] /\ phase'[r] # "push")
    BY <1>1 DEF Pushed
  <2>3. phase'[r] \notin {"idle", "done"}
    BY <1>1 DEF InFlight
  <2>4. c[2] = next[r] /\ phase[r] = "push" /\ phase'[r] # "push"
    BY <1>0, <1>2, <2>1, <2>2, <2>3 DEF RequestMoves, UnsentIsNew
  <2> QED BY <1>0, <2>3, <2>4, StepPushes
<1>4. CASE Pushed(c)
  <2>1. phase[r] # "idle" /\ InFlight(r)
    <3>1. phase[r] # "idle"
      BY <1>0, <1>4 DEF Pushed, UnsentIsNew
    <3>2. phase[r] # "done"
      BY <1>1, <1>2, <3>1 DEF RequestMoves, InFlight
    <3> QED BY <3>1, <3>2 DEF InFlight
  <2>2. home'[r] = home[r] /\ home[r] \in Gateway
    BY <1>0, <2>1, StepKeepsHomes DEF HomesStay, GenuineDelivery, GenuineAnswers, RequestsAtHome
  <2>3. gw[home[r]] = "up"
    <3> SUFFICES ASSUME gw[home[r]] = "down" PROVE FALSE
      BY <1>1, <2>2, StepOfUp
    <3>1. Registered(home[r]) = {}
      BY <1>0, <2>2 DEF GenuineDelivery, PendingIsRegistered
    <3>2. c[2] <= next[r]
      BY <1>0, <1>4 DEF Pushed
    <3> QED BY <2>1, <3>1, <3>2 DEF Registered
  <2>4. future[c].state = "pending"
    BY <1>0, <1>1, StepOfPending DEF Pushed
  <2>5. r \notin expired
    BY <1>1, ExpiredGrows
  <2> QED BY <1>4, <2>1, <2>3, <2>4, <2>5 DEF Waits
<1> QED
  BY <1>3, <1>4

\* A claim drops nothing whose deadline has not passed: what it trims and does
\* not select was overdue at the clock the worker read, which is not ahead.
LEMMA ClaimKeepsLive ==
    ASSUME Whereabouts, NEW w \in Worker, ClaimBatch(w), UNCHANGED gatewayVars,
           NEW c, c[1] \notin expired
    PROVE  Keeps(c)
<1> DEFINE l == WorkerLane[w]
           q == work[l]
           sel == ClaimFrom(l, seen[w]).selected
<1>0. /\ work \in [Lane -> Seq(GoodItem)] /\ l \in Lane /\ wpc \in [Worker -> WorkerPc]
      /\ batch \in [Worker -> Seq(Item)]
      /\ q \in Seq(GoodItem) /\ Len(q) \in Nat /\ seen[w] \subseteq expired
  <2>1. work \in [Lane -> Seq(GoodItem)] /\ l \in Lane /\ wpc \in [Worker -> WorkerPc]
        /\ batch \in [Worker -> Seq(Item)] /\ seen[w] \subseteq expired
    BY ConstantsAssumption DEF Whereabouts, GenuineDelivery, GenuineAnswers, WorkIsGenuine, TypeOK,
                               WorkerTypeOK, ClocksArePast
  <2> QED BY <2>1, LenProperties
<1>1. PICK n \in 0..Len(q) : /\ ClaimFrom(l, seen[w]).rest = SubSeq(q, n + 1, Len(q))
                             /\ ItemsOf(sel, Len(sel)) = ItemsOf(q, n) \ Overdue(q, seen[w])
  BY <1>0, ClaimTakesPrefix
<1>2. /\ wpc[w] = "claim"
      /\ work' = [work EXCEPT ![l] = SubSeq(q, n + 1, Len(q))]
      /\ batch' = [batch EXCEPT ![w] = sel]
      /\ wpc' = [wpc EXCEPT ![w] = IF sel = <<>> THEN "idle" ELSE "embed"]
      /\ UNCHANGED <<results, pos>>
  BY <1>1 DEF ClaimBatch, ClaimEmbeddingBatch
<1>3. UNCHANGED inhand
  BY DEF gatewayVars
<1>4. sel \in Seq(GoodItem)
  BY <1>0, ClaimTakesPrefix
<1>5. /\ \A k \in 1..Len(q) : k > n => k - n \in 1..Len(work'[l]) /\ work'[l][k - n] = q[k]
      /\ \A m \in Lane : m # l => work'[m] = work[m]
  <2>1. work'[l] = SubSeq(q, n + 1, Len(q))
    BY <1>0, <1>2
  <2>2. /\ Len(SubSeq(q, n + 1, Len(q))) = Len(q) - n
        /\ \A k \in 1..(Len(q) - n) : SubSeq(q, n + 1, Len(q))[k] = q[k + n]
    BY <1>0, SubSeqProperties, Z3
  <2>3. ASSUME NEW k \in 1..Len(q), k > n
        PROVE  k - n \in 1..(Len(q) - n) /\ (k - n) + n = k
    BY <1>0, <2>3
  <2>4. \A m \in Lane : m # l => work'[m] = work[m]
    BY <1>0, <1>2
  <2> QED BY <2>1, <2>2, <2>3, <2>4
<1> HIDE DEF sel, q
<1> SUFFICES ASSUME NEW p \in Copies(c) PROVE Copies(c)' # {}
  BY DEF Keeps
<1>6. AtWork(p, c) \/ AtBatch(p, c) \/ AtResults(p, c) \/ AtHand(p, c)
  BY CopyPlaces, Zenon DEF IsPlaced
<1>7. CASE AtResults(p, c) \/ AtHand(p, c)
  <2>1. AtResults(p, c)' \/ AtHand(p, c)'
    BY <1>2, <1>3, <1>7 DEF AtResults, AtHand
  <2> QED BY <2>1, CopyPlacesNext, Zenon DEF IsPlaced
<1>8. CASE AtBatch(p, c)
  <2>1. PICK v \in Worker : \E k \in Unpublished(v) : p = <<"batch", v, k>> /\ batch[v][k].id = c
    BY <1>8, Zenon DEF AtBatch
  <2>2. v # w
    BY <1>2, <2>1, UnpublishedIs
  <2>3. Unpublished(v)' = Unpublished(v) /\ batch'[v] = batch[v]
    BY <1>0, <1>2, <2>2 DEF Unpublished
  <2>4. AtBatch(p, c)'
    BY <2>1, <2>3 DEF AtBatch
  <2> QED BY <2>4, CopyPlacesNext, Zenon DEF IsPlaced
<1>9. CASE AtWork(p, c)
  <2>1. PICK m \in Lane : \E k \in 1..Len(work[m]) : p = <<"work", m, k>> /\ work[m][k].id = c
    BY <1>9, Zenon DEF AtWork
  <2>2. PICK k \in 1..Len(work[m]) : p = <<"work", m, k>> /\ work[m][k].id = c
    BY <2>1
  <2>3. CASE m # l
    <3>1. AtWork(p, c)'
      BY <1>5, <2>2, <2>3 DEF AtWork
    <3> QED BY <3>1, CopyPlacesNext, Zenon DEF IsPlaced
  <2>4. CASE m = l /\ k > n
    <3>1. AtWork(<<"work", l, k - n>>, c)'
      BY <1>0, <1>5, <2>2, <2>4 DEF AtWork, q
    <3> QED BY <3>1, CopyPlacesNext, Zenon DEF IsPlaced
  <2>5. CASE m = l /\ k <= n
    <3>1. k \in 1..n /\ k \in 1..Len(q) /\ q[k].id = c
      BY <1>0, <2>2, <2>5 DEF q
    <3>2. q[k] \in ItemsOf(q, n)
      BY <3>1 DEF ItemsOf
    <3>3. q[k] \notin Overdue(q, seen[w])
      <4> SUFFICES ASSUME q[k] \in Overdue(q, seen[w]) PROVE FALSE
        OBVIOUS
      <4>1. PICK j \in 1..Len(q) : q[j].id[1] \in seen[w] /\ q[k] = q[j]
        BY DEF Overdue
      <4> QED BY <1>0, <3>1, <4>1
    <3>4. PICK j \in 1..Len(sel) : sel[j] = q[k]
      BY <1>1, <3>2, <3>3 DEF ItemsOf
    <3>5. sel # <<>>
      BY <1>4, <3>4
    <3>6. wpc'[w] = "embed" /\ batch'[w] = sel
      BY <1>0, <1>2, <3>5
    <3>7. Unpublished(w)' = 1..Len(batch'[w])
      BY <3>6, UnpublishedIsNext
    <3>8. AtBatch(<<"batch", w, j>>, c)'
      BY <3>1, <3>4, <3>6, <3>7 DEF AtBatch
    <3> QED BY <3>8, CopyPlacesNext, Zenon DEF IsPlaced
  <2> QED BY <1>0, <2>2, <2>3, <2>4, <2>5 DEF q
<1> QED
  BY <1>6, <1>7, <1>8, <1>9

\* A listener's hand is emptied into the future somebody waits on, or with its
\* gateway, for which nobody waits any more.
LEMMA HandIsNotDropped ==
    ASSUME Whereabouts, [Next]_vars, NEW g \in Gateway,
           Deliver(g) \/ StopBegin(g) \/ GatewayCrash(g), UNCHANGED workerVars,
           NEW c \in Child, Waits(c), Waits(c)'
    PROVE  Keeps(c)
<1>0. /\ GenuineDelivery /\ HandsAreHome /\ c[1] \in Request
      /\ future \in [Child -> Future] /\ gw \in [Gateway -> {"up", "stopping", "stopped", "down"}]
      /\ inhand \in [Gateway -> Result \cup {Nil}] /\ next \in [Request -> Nat]
  BY ChildParts DEF Whereabouts, GenuineDelivery, GenuineAnswers, TypeOK, GatewayTypeOK
<1>1. /\ InFlight(c[1]) /\ Pushed(c) /\ gw[home[c[1]]] = "up" /\ future[c].state = "pending"
      /\ gw'[home'[c[1]]] = "up" /\ future'[c].state = "pending"
  BY DEF Waits
<1>2. home'[c[1]] = home[c[1]]
  BY <1>0, <1>1, StepKeepsHomes DEF HomesStay, InFlight
<1>3. Copies(c)' = Copies(c) \ {<<"hand", g>>}
  BY HandEmptiesCopies DEF HandEmpties
<1>4. <<"hand", g>> \notin Copies(c)
  <2> SUFFICES ASSUME <<"hand", g>> \in Copies(c) PROVE FALSE
    OBVIOUS
  <2>1. inhand[g] # Nil /\ inhand[g].id = c
    <3>1. AtHand(<<"hand", g>>, c)
      <4>1. \/ AtWork(<<"hand", g>>, c) \/ AtBatch(<<"hand", g>>, c)
            \/ AtResults(<<"hand", g>>, c) \/ AtHand(<<"hand", g>>, c)
        BY CopyPlaces, Zenon DEF IsPlaced
      <4> QED BY <4>1 DEF AtWork, AtBatch, AtResults
    <3> QED BY <3>1 DEF AtHand
  <2>2. home[c[1]] = g
    BY <1>0, <2>1 DEF HandsAreHome, HomeResult
  <2>3. CASE StopBegin(g) \/ GatewayCrash(g)
    BY <1>0, <1>1, <1>2, <2>2, <2>3 DEF StopBegin, GatewayCrash
  <2>4. CASE Deliver(g)
    <3>1. c[2] <= next[c[1]]
      BY <1>0, <1>1, ChildParts DEF Pushed, Indexes
    <3>2. c \in pending[g]
      BY <1>0, <1>1, <2>2, <3>1 DEF GenuineDelivery, PendingIsRegistered, Registered
    <3>3. future' = [future EXCEPT ![c] = [state |-> "done", value |-> inhand[g]]]
      BY <1>1, <2>1, <2>4, <3>2 DEF Deliver
    <3> QED BY <1>0, <1>1, <3>3
  <2> QED BY <2>3, <2>4
<1> QED
  BY <1>3, <1>4 DEF Keeps

\* The faults that lose what they touch: a repeated claim, a listener's
\* connection, a worker's memory, Redis's own memory, and the expiry of a list.
Lossy == {"retry", "listener_error", "worker_crash", "redis_loss", "ttl"}

\* What somebody waits for, before and after a step, stays somewhere.
LEMMA StepKeepsWaiting ==
    ASSUME Whereabouts, [Next]_vars, Faults \cap Lossy = {}, NEW c \in Child, Waits(c), Waits(c)'
    PROVE  Keeps(c)
<1>0. /\ "retry" \notin Faults /\ "listener_error" \notin Faults /\ "worker_crash" \notin Faults
      /\ "redis_loss" \notin Faults /\ "ttl" \notin Faults
  BY DEF Lossy
<1>1. ASSUME Copies(c)' = Copies(c) PROVE Keeps(c)
  BY <1>1 DEF Keeps
<1>2. CASE GatewayNormal /\ UNCHANGED workerVars
  <2>1. ASSUME NEW r \in Request, Push(r)
        PROVE  Keeps(c)
    <3>1. Copies(c) \subseteq Copies(c)'
      BY <1>2, <2>1, PushAddsOne
    <3> QED BY <3>1 DEF Keeps
  <2>2. ASSUME NEW g \in Gateway, BlpopEmbeddingResult(g) PROVE Keeps(c)
    BY <1>2, <2>2, BlpopFlows
  <2>3. ASSUME NEW g \in Gateway, Deliver(g) PROVE Keeps(c)
    BY <1>2, <2>3, HandIsNotDropped
  <2>4. ASSUME \/ \E r \in Request, g \in Gateway : Accept(r, g) \/ Reject(r, g)
               \/ \E r \in Request : QuietRequest(r)
               \/ \E g \in Gateway : StopEnd(g) \/ GatewayRestart(g)
        PROVE  Keeps(c)
    BY <1>1, <1>2, <2>4, QuietKeepsCopies
  <2> QED BY <1>2, <2>1, <2>2, <2>3, <2>4 DEF GatewayNormal, RequestStep, QuietRequest, ListenerStep
<1>3. CASE GatewayFault /\ UNCHANGED workerVars
  <2>1. ASSUME NEW r \in Request, PushError(r) PROVE Keeps(c)
    BY <1>1, <1>3, <2>1, QuietKeepsCopies DEF QuietRequest
  <2>2. ASSUME NEW g \in Gateway, StopBegin(g) \/ GatewayCrash(g) PROVE Keeps(c)
    BY <1>3, <2>2, HandIsNotDropped
  <2> QED BY <1>0, <1>3, <2>1, <2>2 DEF GatewayFault
<1>4. CASE (WorkerNormal \/ WorkerFault) /\ UNCHANGED gatewayVars
  <2>1. ASSUME NEW w \in Worker,
               ReadClock(w) \/ EmbedOk(w) \/ EmbedFails(w) \/ SetTtl(w) \/ WorkerRestart(w)
        PROVE  Keeps(c)
    BY <1>1, <1>4, <2>1, WorkerKeepsCopies
  <2>2. ASSUME NEW w \in Worker, ClaimBatch(w) PROVE Keeps(c)
    BY <1>4, <2>2, ClaimKeepsLive DEF Waits
  <2>3. ASSUME NEW w \in Worker, Publish(w) PROVE Keeps(c)
    BY <1>4, <2>3, PublishFlows
  <2> QED BY <1>0, <1>4, <2>1, <2>2, <2>3 DEF WorkerNormal, WorkerFault
<1>5. CASE UNCHANGED <<work, results>> /\ UNCHANGED <<gatewayVars, workerVars>>
  <2>1. UNCHANGED inhand /\ UNCHANGED <<wpc, pos, batch>>
    BY <1>5 DEF gatewayVars, workerVars
  <2>2. \A w \in Worker : /\ Unpublished(w)' = Unpublished(w)
                          /\ \A k \in Unpublished(w) : batch'[w][k] = batch[w][k]
    BY <2>1 DEF Unpublished
  <2> QED BY <1>1, <1>5, <2>1, <2>2, CopiesStay
<1>6. CASE RedisFault /\ UNCHANGED <<gatewayVars, workerVars>>
  BY <1>0, <1>5, <1>6 DEF RedisFault, DeadlinePasses
<1>7. CASE UNCHANGED vars
  BY <1>5, <1>7 DEF vars, redisVars
<1> QED
  BY <1>2, <1>3, <1>4, <1>6, <1>7 DEF Next

LEMMA StepKeepsNeverLost ==
    ASSUME Whereabouts, NeverLost, [Next]_vars, Faults \cap Lossy = {}
    PROVE  NeverLost'
<1> SUFFICES ASSUME NEW c \in Child, Waits(c)' PROVE Copies(c)' # {}
  BY DEF NeverLost, Waits
<1>1. CASE Waits(c)
  <2>1. Copies(c) # {}
    BY <1>1 DEF NeverLost, Waits
  <2> QED BY <1>1, <2>1, StepKeepsWaiting DEF Keeps
<1>2. CASE Push(c[1]) /\ c[2] = next[c[1]] /\ UNCHANGED workerVars
  <2>1. c[1] \in Request /\ c = <<c[1], next[c[1]]>>
    BY <1>2, ChildParts
  <2>2. \E new : Copies(c)' = Copies(c) \cup {new}
    BY <1>2, <2>1, PushAddsOne
  <2> QED BY <2>2
<1> QED
  BY <1>1, <1>2, StepOfWaiting

\* As long as nothing that holds work is lost, no work is: a child that a live
\* gateway still waits for, before its deadline, is in a queue, a batch or a hand,
\* though deadlines pass, vLLM and RPUSHes fail, and gateways stop, crash and come
\* back.  Each excluded fault does lose children somebody waits for.
THEOREM NeverLostInvariant ==
    ASSUME Faults \cap Lossy = {}
    PROVE  Spec => []NeverLost
<1>1. Init => NeverLost
  BY DEF Init, GatewayInit, NeverLost, InFlight, Child, ChildrenOf
<1>2. Whereabouts /\ NeverLost /\ [Next]_vars => NeverLost'
  BY StepKeepsNeverLost
<1> QED
  BY <1>1, <1>2, WhereaboutsInvariant, PTL DEF Spec

=============================================================================
