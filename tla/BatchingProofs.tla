---------------------------- MODULE BatchingProofs ----------------------------
(***************************************************************************)
(* BatchingSystem, for every set of requests, gateways, workers and lanes, *)
(* every token count and budget, and every combination of faults.          *)
(*                                                                         *)
(* First GenuineAnswers is inductive, and a worker's batch keeps its       *)
(* lane's token budget.  Then GenuineDelivery is: _pending is exact,       *)
(* replies go home, futures settle once.  Last, the system implements      *)
(* EmbeddingApi, the client's view.                                        *)
(***************************************************************************)
EXTENDS BatchingInvariant, ClaimScriptProofs

----------------------------------------------------------------------------
(* The data. *)

LEMMA ChildParts ==
    ASSUME NEW c \in Child
    PROVE  /\ c[1] \in Request
           /\ c[2] \in Indexes(c[1])
           /\ c = <<c[1], c[2]>>
BY DEF Child, ChildrenOf

LEMMA ChildOf ==
    ASSUME NEW r \in Request, NEW i \in Indexes(r)
    PROVE  /\ <<r, i>> \in Child
           /\ <<r, i>> \in ChildrenOf(r)
           /\ i \in Nat
BY DEF Child, ChildrenOf, Indexes

LEMMA TokensAreCounted ==
    ASSUME NEW r \in Request
    PROVE  /\ Len(Tokens[r]) \in Nat
           /\ Len(Tokens[r]) > 0
           /\ 1 \in Indexes(r)
           /\ \A i \in Indexes(r) : Tokens[r][i] \in Nat
<1>1. Tokens[r] \in Seq(Nat) /\ Tokens[r] # <<>>
  BY ConstantsAssumption
<1>2. Len(Tokens[r]) \in Nat /\ Len(Tokens[r]) > 0
  BY <1>1, LenProperties, EmptySeq
<1> QED
  BY <1>1, <1>2, ElementOfSeq DEF Indexes

LEMMA WorkItemIsGood ==
    ASSUME NEW r \in Request, NEW i \in Indexes(r), NEW g \in Gateway
    PROVE  WorkItem(r, i, g) \in GoodItem
BY ChildOf DEF WorkItem, GoodItem, Item

\* A claim hands on, and leaves behind, only what was in the list.
LEMMA ClaimStaysIn ==
    ASSUME NEW l \in Lane, NEW seenSet, NEW T \in SUBSET GoodItem, work[l] \in Seq(T)
    PROVE  /\ ClaimFrom(l, seenSet).selected \in Seq(T)
           /\ ClaimFrom(l, seenSet).rest \in Seq(T)
<1> DEFINE q == work[l]
           S == {q[k] : k \in 1..Len(q)}
<1>1. q \in Seq(T) /\ Len(q) \in Nat
  BY LenProperties
<1>2. S \subseteq T
  BY <1>1, ElementOfSeq
<1>3. q \in Seq(S)
  BY <1>1, LenProperties
<1>4. TokenView(q) \in [S -> Nat]
  <2>1. ASSUME NEW item \in S PROVE TokenCount(item.id) \in Nat
    <3>1. item.id \in Child
      BY <1>2 DEF GoodItem, Item
    <3> QED BY <3>1, ChildParts, TokensAreCounted DEF TokenCount
  <2> QED BY <2>1 DEF TokenView
<1>5. MaxItems[l] \in Nat /\ Budget[l] \in Nat
  BY ConstantsAssumption
<1>6. /\ ClaimFrom(l, seenSet).selected \in Seq(S)
      /\ ClaimFrom(l, seenSet).rest \in Seq(S)
  <2> HIDE DEF S
  <2>1. ClaimFrom(l, seenSet) = Claim(q, MaxItems[l], Budget[l], Overdue(q, seenSet), TokenView(q))
    BY DEF ClaimFrom
  <2> HIDE DEF q
  <2> QED BY <1>3, <1>4, <1>5, <2>1, ClaimTakesLivePrefix
<1> QED
  <2> HIDE DEF S, q
  <2> QED BY <1>2, <1>6, SeqMonotonic

\* A claim hands genuine items to the worker and leaves genuine items behind.
LEMMA ClaimIsGenuine ==
    ASSUME NEW l \in Lane, NEW seenSet, work \in [Lane -> Seq(GoodItem)]
    PROVE  /\ ClaimFrom(l, seenSet).selected \in Seq(GoodItem)
           /\ ClaimFrom(l, seenSet).rest \in Seq(GoodItem)
<1>1. GoodItem \in SUBSET GoodItem /\ work[l] \in Seq(GoodItem)
  OBVIOUS
<1> QED
  BY ONLY <1>1, ClaimStaysIn

\* Own vectors in input order form a sequence of children.
LEMMA OwnVectorsTyped ==
    ASSUME NEW r \in Request
    PROVE  [i \in Indexes(r) |-> <<r, i>>] \in Seq(Child)
<1>1. Len(Tokens[r]) \in Nat
  BY TokensAreCounted
<1>2. [i \in Indexes(r) |-> <<r, i>>] \in [1..Len(Tokens[r]) -> Child]
  BY ChildOf DEF Indexes
<1> QED
  BY <1>1, <1>2, SeqDef

\* From genuine results, one per input and in place, the reassembly returns the
\* request's own vectors in input order, or a failure.
LEMMA ReassemblyIsGenuine ==
    ASSUME NEW r \in Request,
           \A i \in Indexes(r) : /\ future[<<r, i>>].value \in GoodResult
                                 /\ future[<<r, i>>].value.id = <<r, i>>
    PROVE  \/ Reassemble(Gathered(r)) = Reply("bad_gateway", <<>>)
           \/ Reassemble(Gathered(r)) = Reply("ok", [i \in Indexes(r) |-> <<r, i>>])
<1> DEFINE res == Gathered(r)
           n == Len(res)
           Last(j) == CHOOSE k \in 1..n :
                         res[k].index = j /\ \A m \in (k + 1)..n : res[m].index # j
<1>1. n = Len(Tokens[r]) /\ n \in Nat /\ Indexes(r) = 1..n
  <2>1. Len(Tokens[r]) \in Nat
    BY TokensAreCounted
  <2> QED BY <2>1 DEF Gathered, Indexes
<1>2. \A i \in 1..n : /\ res[i].index = i
                      /\ res[i].ok => res[i].embedding = <<r, i>>
  BY <1>1 DEF Gathered, GoodResult
<1> HIDE DEF res, n
<1>3. \A j \in 1..n : Last(j) = j
  <2> SUFFICES ASSUME NEW j \in 1..n PROVE Last(j) = j
    OBVIOUS
  <2>1. res[j].index = j /\ \A m \in (j + 1)..n : res[m].index # j
    BY <1>1, <1>2
  <2>2. \A k \in 1..n : res[k].index = j => k = j
    BY <1>2
  <2> QED BY <2>1, <2>2
<1> HIDE DEF Last
<1>4. CASE \/ \E k \in 1..n : ~res[k].ok \/ res[k].embedding = Nil
           \/ \E j \in 1..n : \A k \in 1..n : res[k].index # j
  BY <1>4 DEF Reassemble, res, n
<1>5. CASE ~ (\/ \E k \in 1..n : ~res[k].ok \/ res[k].embedding = Nil
              \/ \E j \in 1..n : \A k \in 1..n : res[k].index # j)
  <2>1. Reassemble(res) = Reply("ok", [j \in 1..n |-> res[Last(j)].embedding])
    BY <1>5 DEF Reassemble, n, Last
  <2>2. \A j \in 1..n : res[Last(j)].embedding = <<r, j>>
    BY <1>2, <1>3, <1>5
  <2>3. [j \in 1..n |-> res[Last(j)].embedding] = [i \in Indexes(r) |-> <<r, i>>]
    BY <1>1, <2>2
  <2> QED BY <2>1, <2>3 DEF res
<1> QED
  BY <1>4, <1>5

----------------------------------------------------------------------------
(* The invariant holds initially. *)

LEMMA InitIsGenuine == Init => GenuineAnswers
<1> SUFFICES ASSUME Init PROVE GenuineAnswers
  OBVIOUS
<1>1. RedisTypeOK
  BY DEF Init, RedisInit, RedisTypeOK
<1>2. GatewayTypeOK
  BY DEF Init, GatewayInit, GatewayTypeOK, Phase, Future, NoFuture, Status, NoReply, Reply
<1>3. WorkerTypeOK
  BY DEF Init, WorkerInit, WorkerTypeOK, WorkerPc
<1>4. WorkIsGenuine /\ ResultsAreGenuine
  BY DEF Init, RedisInit, GatewayInit, WorkerInit, WorkIsGenuine, ResultsAreGenuine
<1>5. FuturesAreGenuine
  BY DEF Init, GatewayInit, FuturesAreGenuine, NoFuture
<1>6. BatchesAligned
  BY DEF Init, WorkerInit, BatchesAligned, AlignedBatch, Publishing
<1>7. RequestsAtHome /\ AnswersMatchInputs
  BY DEF Init, GatewayInit, RequestsAtHome, InFlight, AnswersMatchInputs, NoReply, Reply
<1> QED
  BY <1>1, <1>2, <1>3, <1>4, <1>5, <1>6, <1>7 DEF GenuineAnswers, TypeOK

----------------------------------------------------------------------------
(* Gateway steps keep the invariant. *)

LEMMA GenuineIsTyped ==
    /\ \A f \in [Lane -> Seq(GoodItem)] : f \in [Lane -> Seq(Item)]
    /\ \A f \in [Worker -> Seq(GoodItem)] : f \in [Worker -> Seq(Item)]
    /\ \A f \in [Gateway -> Seq(GoodResult)] : f \in [Gateway -> Seq(Result)]
<1>1. GoodItem \subseteq Item /\ GoodResult \subseteq Result
  BY DEF GoodItem, GoodResult
<1>2. /\ \A q \in Seq(GoodItem) : q \in Seq(Item)
      /\ \A q \in Seq(GoodResult) : q \in Seq(Result)
  BY <1>1, SeqMonotonic
<1> QED
  BY <1>2

LEMMA AcceptIsGenuine ==
    ASSUME GenuineAnswers, NEW r \in Request, NEW g \in Gateway,
           Accept(r, g), UNCHANGED workerVars
    PROVE  GenuineAnswers'
<1> USE DEF GenuineAnswers, TypeOK
<1>1. 1 \in Indexes(r) /\ <<r, 1>> \in Child
  BY TokensAreCounted, ChildOf
<1>2. RedisTypeOK' /\ WorkerTypeOK' /\ WorkIsGenuine' /\ BatchesAligned'
  BY DEF Accept, redisVars, workerVars, RedisTypeOK, WorkerTypeOK, WorkIsGenuine, BatchesAligned, AlignedBatch
<1>3. GatewayTypeOK'
  BY <1>1 DEF Accept, RegisterChild, GatewayTypeOK, Phase, Future, PendingFuture
<1>4. ResultsAreGenuine' /\ FuturesAreGenuine' /\ AnswersMatchInputs'
  BY <1>1 DEF Accept, RegisterChild, redisVars, GatewayTypeOK, ResultsAreGenuine, FuturesAreGenuine, AnswersMatchInputs, PendingFuture
<1>5. RequestsAtHome'
  BY <1>1 DEF Accept, RegisterChild, GatewayTypeOK, RequestsAtHome, InFlight
<1> QED
  BY <1>2, <1>3, <1>4, <1>5

LEMMA RejectIsGenuine ==
    ASSUME GenuineAnswers, NEW r \in Request, NEW g \in Gateway,
           Reject(r, g), UNCHANGED workerVars
    PROVE  GenuineAnswers'
<1> USE DEF GenuineAnswers, TypeOK
<1>1. RedisTypeOK' /\ WorkerTypeOK' /\ WorkIsGenuine' /\ BatchesAligned'
  BY DEF Reject, redisVars, workerVars, RedisTypeOK, WorkerTypeOK, WorkIsGenuine, BatchesAligned, AlignedBatch
<1>2. GatewayTypeOK'
  BY DEF Reject, GatewayTypeOK, Phase, Status, Reply
<1>3. ResultsAreGenuine' /\ FuturesAreGenuine' /\ AnswersMatchInputs'
  BY DEF Reject, redisVars, GatewayTypeOK, ResultsAreGenuine, FuturesAreGenuine, AnswersMatchInputs, Reply
<1>4. RequestsAtHome'
  BY DEF Reject, GatewayTypeOK, RequestsAtHome, InFlight
<1> QED
  BY <1>1, <1>2, <1>3, <1>4

\* An RPUSH of the current child, whether the coroutine goes on to pushed or,
\* when it is repeated, to repushed.
LEMMA PushIsGenuine ==
    ASSUME GenuineAnswers, NEW r \in Request, Push(r) \/ PushAgain(r),
           UNCHANGED workerVars
    PROVE  GenuineAnswers'
<1> USE DEF GenuineAnswers, TypeOK
<1>1. WorkItem(r, next[r], home[r]) \in GoodItem /\ LaneOf[r] \in Lane
  BY WorkItemIsGood, ConstantsAssumption DEF Push, PushAgain, RequestsAtHome, InFlight
<1>2. work' \in [Lane -> Seq(GoodItem)]
  <2>1. work' = [work EXCEPT ![LaneOf[r]] = Append(@, WorkItem(r, next[r], home[r]))]
    BY DEF Push, PushAgain, EnqueueEmbeddingWork
  <2>2. Append(work[LaneOf[r]], WorkItem(r, next[r], home[r])) \in Seq(GoodItem)
    BY <1>1, AppendProperties DEF WorkIsGenuine
  <2> QED BY <2>1, <2>2 DEF WorkIsGenuine
<1>3. WorkIsGenuine' /\ RedisTypeOK' /\ WorkerTypeOK' /\ BatchesAligned'
  BY <1>2, GenuineIsTyped
     DEF Push, PushAgain, workerVars, RedisTypeOK, WorkerTypeOK, WorkIsGenuine, BatchesAligned, AlignedBatch
<1>4. GatewayTypeOK'
  BY DEF Push, PushAgain, GatewayTypeOK, Phase
<1>5. ResultsAreGenuine' /\ FuturesAreGenuine' /\ AnswersMatchInputs'
  BY DEF Push, PushAgain, ResultsAreGenuine, FuturesAreGenuine, AnswersMatchInputs
<1>6. RequestsAtHome'
  BY DEF Push, PushAgain, GatewayTypeOK, RequestsAtHome, InFlight
<1> QED
  BY <1>3, <1>4, <1>5, <1>6

LEMMA PushReturnsIsGenuine ==
    ASSUME GenuineAnswers, NEW r \in Request, PushReturns(r), UNCHANGED workerVars
    PROVE  GenuineAnswers'
<1> USE DEF GenuineAnswers, TypeOK
<1>1. RedisTypeOK' /\ WorkerTypeOK' /\ WorkIsGenuine' /\ BatchesAligned'
  BY DEF PushReturns, redisVars, workerVars, RedisTypeOK, WorkerTypeOK, WorkIsGenuine, BatchesAligned, AlignedBatch
<1>2. home[r] \in Gateway /\ next[r] \in Indexes(r)
  BY DEF PushReturns, RequestsAtHome, InFlight
<1>3. CASE next[r] < Len(Tokens[r])
  <2>1. next[r] + 1 \in Indexes(r)
    BY <1>2, <1>3, TokensAreCounted DEF Indexes
  <2>2. RegisterChild(r, next[r] + 1, home[r]) /\ UNCHANGED <<redisVars, gw, inhand, home, response>>
    BY <1>3 DEF PushReturns
  <2>3. <<r, next[r] + 1>> \in Child /\ next[r] + 1 \in Nat
    BY <2>1, ChildOf
  <2>4. GatewayTypeOK'
    BY <1>2, <2>2, <2>3 DEF RegisterChild, GatewayTypeOK, Phase, Future, PendingFuture
  <2>5. ResultsAreGenuine' /\ FuturesAreGenuine' /\ AnswersMatchInputs'
    BY <2>2, <2>3 DEF RegisterChild, redisVars, GatewayTypeOK, ResultsAreGenuine, FuturesAreGenuine, AnswersMatchInputs, PendingFuture
  <2>6. RequestsAtHome'
    BY <2>1, <2>2 DEF PushReturns, RegisterChild, GatewayTypeOK, RequestsAtHome, InFlight
  <2> QED BY <1>1, <2>4, <2>5, <2>6
<1>4. CASE ~ (next[r] < Len(Tokens[r]))
  <2>1. /\ phase' = [phase EXCEPT ![r] = "wait"]
        /\ UNCHANGED <<future, pending, next, redisVars, gw, inhand, home, response>>
    BY <1>4 DEF PushReturns
  <2>2. GatewayTypeOK'
    BY <2>1 DEF GatewayTypeOK, Phase
  <2>3. ResultsAreGenuine' /\ FuturesAreGenuine' /\ AnswersMatchInputs'
    BY <2>1 DEF redisVars, ResultsAreGenuine, FuturesAreGenuine, AnswersMatchInputs
  <2>4. RequestsAtHome'
    BY <2>1 DEF PushReturns, GatewayTypeOK, RequestsAtHome, InFlight
  <2> QED BY <1>1, <2>2, <2>3, <2>4
<1> QED
  BY <1>3, <1>4

\* The end of a coroutine, with any reply that is honest.
LEMMA FinishIsGenuine ==
    ASSUME GenuineAnswers, NEW r \in Request, InFlight(r),
           NEW rep \in [status : Status, data : Seq(Child)],
           rep.status = "ok" => rep.data = [i \in Indexes(r) |-> <<r, i>>],
           Finish(r, rep), UNCHANGED workerVars
    PROVE  GenuineAnswers'
<1> USE DEF GenuineAnswers, TypeOK
<1>1. RedisTypeOK' /\ WorkerTypeOK' /\ WorkIsGenuine' /\ BatchesAligned'
  BY DEF Finish, redisVars, workerVars, RedisTypeOK, WorkerTypeOK, WorkIsGenuine, BatchesAligned, AlignedBatch
<1>2. home[r] \in Gateway
  BY DEF RequestsAtHome
<1>3. GatewayTypeOK'
  <2>1. future' \in [Child -> Future]
    BY DEF Finish, GatewayTypeOK, Future, NoFuture
  <2>2. pending' \in [Gateway -> SUBSET Child]
    BY <1>2 DEF Finish, GatewayTypeOK
  <2> QED BY <2>1, <2>2 DEF Finish, GatewayTypeOK, Phase
<1>4. ResultsAreGenuine' /\ FuturesAreGenuine'
  BY DEF Finish, redisVars, GatewayTypeOK, ResultsAreGenuine, FuturesAreGenuine, NoFuture
<1>5. AnswersMatchInputs'
  BY DEF Finish, GatewayTypeOK, AnswersMatchInputs
<1>6. RequestsAtHome'
  BY DEF Finish, GatewayTypeOK, RequestsAtHome, InFlight
<1> QED
  BY <1>1, <1>3, <1>4, <1>5, <1>6

LEMMA FailureIsHonest ==
    ASSUME NEW st \in Status \ {"ok"}
    PROVE  /\ Reply(st, <<>>) \in [status : Status, data : Seq(Child)]
           /\ Reply(st, <<>>).status # "ok"
BY DEF Reply

LEMMA SuccessIsHonest ==
    ASSUME NEW vectors \in Seq(Child)
    PROVE  /\ Reply("ok", vectors) \in [status : Status, data : Seq(Child)]
           /\ Reply("ok", vectors).data = vectors
BY DEF Reply, Status

LEMMA PushErrorIsGenuine ==
    ASSUME GenuineAnswers, NEW r \in Request, PushError(r), UNCHANGED workerVars
    PROVE  GenuineAnswers'
<1>1. InFlight(r) /\ Finish(r, Reply("error", <<>>))
  BY DEF PushError, InFlight
<1>2. "error" \in Status \ {"ok"}
  BY DEF Status
<1> QED
  BY <1>1, <1>2, FailureIsHonest, FinishIsGenuine

LEMMA TimeoutFinishIsGenuine ==
    ASSUME GenuineAnswers, NEW r \in Request, TimeoutFinish(r), UNCHANGED workerVars
    PROVE  GenuineAnswers'
<1>1. InFlight(r) /\ Finish(r, Reply("timeout", <<>>))
  BY DEF TimeoutFinish, InFlight
<1>2. "timeout" \in Status \ {"ok"}
  BY DEF Status
<1> QED
  BY <1>1, <1>2, FailureIsHonest, FinishIsGenuine

LEMMA CollectIsGenuine ==
    ASSUME GenuineAnswers, NEW r \in Request, Collect(r), UNCHANGED workerVars
    PROVE  GenuineAnswers'
<1>1. InFlight(r)
  BY DEF Collect, InFlight
<1>2. CASE Finish(r, Reply("error", <<>>))
  <2>1. "error" \in Status \ {"ok"}
    BY DEF Status
  <2> QED BY <1>1, <1>2, <2>1, FailureIsHonest, FinishIsGenuine
<1>3. CASE /\ \A c \in ChildrenOf(r) : future[c].state = "done"
           /\ Finish(r, Reassemble(Gathered(r)))
  <2> DEFINE rep == Reassemble(Gathered(r))
  <2>1. \A i \in Indexes(r) : /\ future[<<r, i>>].value \in GoodResult
                              /\ future[<<r, i>>].value.id = <<r, i>>
    BY <1>3, ChildOf DEF GenuineAnswers, FuturesAreGenuine
  <2>2. \/ rep = Reply("bad_gateway", <<>>)
        \/ rep = Reply("ok", [i \in Indexes(r) |-> <<r, i>>])
    BY <2>1, ReassemblyIsGenuine
  <2> DEFINE own == [i \in Indexes(r) |-> <<r, i>>]
  <2> HIDE DEF rep, own
  <2>3. /\ rep \in [status : Status, data : Seq(Child)]
        /\ rep.status = "ok" => rep.data = own
    <3>1. own \in Seq(Child)
      BY OwnVectorsTyped DEF own
    <3>2. CASE rep = Reply("bad_gateway", <<>>)
      <4>1. "bad_gateway" \in Status \ {"ok"}
        BY DEF Status
      <4> QED BY <3>2, <4>1, FailureIsHonest
    <3>3. CASE rep = Reply("ok", own)
      BY <3>1, <3>3, SuccessIsHonest
    <3> QED BY <2>2, <3>2, <3>3 DEF own
  <2> QED BY <1>1, <1>3, <2>3, FinishIsGenuine DEF rep, own
<1> QED
  BY <1>2, <1>3 DEF Collect

LEMMA TimeoutFiresIsGenuine ==
    ASSUME GenuineAnswers, NEW r \in Request, TimeoutFires(r), UNCHANGED workerVars
    PROVE  GenuineAnswers'
<1> USE DEF GenuineAnswers, TypeOK
<1>1. RedisTypeOK' /\ WorkerTypeOK' /\ WorkIsGenuine' /\ BatchesAligned'
  BY DEF TimeoutFires, redisVars, workerVars, RedisTypeOK, WorkerTypeOK, WorkIsGenuine, BatchesAligned, AlignedBatch
<1>2. GatewayTypeOK'
  BY DEF TimeoutFires, GatewayTypeOK, Phase, Future
<1>3. ResultsAreGenuine' /\ FuturesAreGenuine' /\ AnswersMatchInputs'
  BY DEF TimeoutFires, redisVars, GatewayTypeOK, ResultsAreGenuine, FuturesAreGenuine, AnswersMatchInputs
<1>4. RequestsAtHome'
  BY DEF TimeoutFires, GatewayTypeOK, RequestsAtHome, InFlight
<1> QED
  BY <1>1, <1>2, <1>3, <1>4

LEMMA BlpopIsGenuine ==
    ASSUME GenuineAnswers, NEW g \in Gateway, BlpopEmbeddingResult(g), UNCHANGED workerVars
    PROVE  GenuineAnswers'
<1> USE DEF GenuineAnswers, TypeOK
<1>1. results[g] \in Seq(GoodResult) /\ results[g] # <<>>
  BY DEF BlpopEmbeddingResult, PopResult, ResultsAreGenuine
<1>2. Head(results[g]) \in GoodResult /\ Tail(results[g]) \in Seq(GoodResult)
  BY <1>1, HeadTailProperties
<1>3. ResultsAreGenuine'
  BY <1>2 DEF BlpopEmbeddingResult, PopResult, ResultsAreGenuine
<1>4. RedisTypeOK'
  <2>1. ttl' \in [Gateway -> BOOLEAN]
    BY DEF BlpopEmbeddingResult, PopResult, RedisTypeOK
  <2> QED BY <1>3, <2>1, GenuineIsTyped DEF BlpopEmbeddingResult, RedisTypeOK, ResultsAreGenuine
<1>5. WorkerTypeOK' /\ WorkIsGenuine' /\ BatchesAligned'
  BY DEF BlpopEmbeddingResult, workerVars, WorkerTypeOK, WorkIsGenuine, BatchesAligned, AlignedBatch
<1>6. GatewayTypeOK'
  BY <1>2 DEF BlpopEmbeddingResult, GatewayTypeOK, GoodResult
<1>7. FuturesAreGenuine' /\ AnswersMatchInputs' /\ RequestsAtHome'
  BY DEF BlpopEmbeddingResult, FuturesAreGenuine, AnswersMatchInputs, RequestsAtHome, InFlight
<1> QED
  BY <1>3, <1>4, <1>5, <1>6, <1>7

LEMMA DeliverIsGenuine ==
    ASSUME GenuineAnswers, NEW g \in Gateway, Deliver(g), UNCHANGED workerVars
    PROVE  GenuineAnswers'
<1> USE DEF GenuineAnswers, TypeOK
<1>1. RedisTypeOK' /\ WorkerTypeOK' /\ WorkIsGenuine' /\ BatchesAligned'
  BY DEF Deliver, redisVars, workerVars, RedisTypeOK, WorkerTypeOK, WorkIsGenuine, BatchesAligned, AlignedBatch
<1>2. inhand[g] \in GoodResult /\ inhand[g].id \in Child /\ inhand[g] \in Result
  BY DEF Deliver, ResultsAreGenuine, GoodResult, Result
<1>3. GatewayTypeOK'
  <2>1. future' \in [Child -> Future]
    <3>1. [state |-> "done", value |-> inhand[g]] \in Future
      BY <1>2 DEF Future
    <3>2. CASE UNCHANGED future
      BY <3>2 DEF GatewayTypeOK
    <3>3. CASE future' = [future EXCEPT ![inhand[g].id] = [state |-> "done", value |-> inhand[g]]]
      BY <1>2, <3>1, <3>3 DEF GatewayTypeOK
    <3> QED BY <3>2, <3>3 DEF Deliver
  <2> QED BY <2>1 DEF Deliver, GatewayTypeOK
<1>4. FuturesAreGenuine'
  <2>1. CASE UNCHANGED future
    BY <2>1 DEF FuturesAreGenuine
  <2>2. CASE future' = [future EXCEPT ![inhand[g].id] = [state |-> "done", value |-> inhand[g]]]
    <3> SUFFICES ASSUME NEW c \in Child, future'[c].state = "done"
                 PROVE  future'[c].value \in GoodResult /\ future'[c].value.id = c
      BY DEF FuturesAreGenuine
    <3>1. CASE c = inhand[g].id
      <4>1. future'[c] = [state |-> "done", value |-> inhand[g]]
        BY <1>2, <2>2, <3>1 DEF GatewayTypeOK
      <4> QED BY <1>2, <3>1, <4>1
    <3>2. CASE c # inhand[g].id
      <4>1. future'[c] = future[c]
        BY <2>2, <3>2 DEF GatewayTypeOK
      <4> QED BY <4>1 DEF FuturesAreGenuine
    <3> QED BY <3>1, <3>2
  <2> QED BY <2>1, <2>2 DEF Deliver
<1>5. ResultsAreGenuine' /\ AnswersMatchInputs' /\ RequestsAtHome'
  BY DEF Deliver, redisVars, ResultsAreGenuine, AnswersMatchInputs, RequestsAtHome, InFlight
<1> QED
  BY <1>1, <1>3, <1>4, <1>5

LEMMA ListenerErrorIsGenuine ==
    ASSUME GenuineAnswers, NEW g \in Gateway, ListenerError(g), UNCHANGED workerVars
    PROVE  GenuineAnswers'
<1> USE DEF GenuineAnswers, TypeOK
<1>1. RedisTypeOK' /\ WorkerTypeOK' /\ WorkIsGenuine' /\ BatchesAligned'
  BY DEF ListenerError, redisVars, workerVars, RedisTypeOK, WorkerTypeOK, WorkIsGenuine, BatchesAligned, AlignedBatch
<1>2. GatewayTypeOK' /\ ResultsAreGenuine'
  BY DEF ListenerError, redisVars, GatewayTypeOK, ResultsAreGenuine
<1>3. FuturesAreGenuine' /\ AnswersMatchInputs' /\ RequestsAtHome'
  BY DEF ListenerError, FuturesAreGenuine, AnswersMatchInputs, RequestsAtHome, InFlight
<1> QED
  BY <1>1, <1>2, <1>3

LEMMA StopIsGenuine ==
    ASSUME GenuineAnswers, NEW g \in Gateway, StopBegin(g) \/ StopEnd(g) \/ GatewayRestart(g),
           UNCHANGED workerVars
    PROVE  GenuineAnswers'
<1> USE DEF GenuineAnswers, TypeOK
<1>1. RedisTypeOK' /\ WorkerTypeOK' /\ WorkIsGenuine' /\ BatchesAligned'
  BY DEF StopBegin, StopEnd, GatewayRestart, redisVars, workerVars, RedisTypeOK, WorkerTypeOK, WorkIsGenuine, BatchesAligned, AlignedBatch
<1>2. GatewayTypeOK'
  <2>1. CASE StopBegin(g)
    BY <2>1 DEF StopBegin, GatewayTypeOK
  <2>2. CASE StopEnd(g)
    BY <2>2 DEF StopEnd, GatewayTypeOK, Future
  <2>3. CASE GatewayRestart(g)
    BY <2>3 DEF GatewayRestart, GatewayTypeOK
  <2> QED BY <2>1, <2>2, <2>3
<1>3. ResultsAreGenuine'
  BY DEF StopBegin, StopEnd, GatewayRestart, redisVars, GatewayTypeOK, ResultsAreGenuine
<1>4. FuturesAreGenuine'
  <2>1. CASE StopEnd(g)
    BY <2>1 DEF StopEnd, GatewayTypeOK, FuturesAreGenuine
  <2>2. CASE UNCHANGED future
    BY <2>2 DEF FuturesAreGenuine
  <2> QED BY <2>1, <2>2 DEF StopBegin, GatewayRestart
<1>5. AnswersMatchInputs' /\ RequestsAtHome'
  BY DEF StopBegin, StopEnd, GatewayRestart, AnswersMatchInputs, RequestsAtHome, InFlight
<1> QED
  BY <1>1, <1>2, <1>3, <1>4, <1>5

LEMMA GatewayCrashIsGenuine ==
    ASSUME GenuineAnswers, NEW g \in Gateway, GatewayCrash(g), UNCHANGED workerVars
    PROVE  GenuineAnswers'
<1> USE DEF GenuineAnswers, TypeOK
<1>1. RedisTypeOK' /\ WorkerTypeOK' /\ WorkIsGenuine' /\ BatchesAligned'
  BY DEF GatewayCrash, redisVars, workerVars, RedisTypeOK, WorkerTypeOK, WorkIsGenuine, BatchesAligned, AlignedBatch
<1>2. GatewayTypeOK'
  <2>1. gw' \in [Gateway -> {"up", "stopping", "stopped", "down"}]
        /\ inhand' \in [Gateway -> Result \cup {Nil}]
        /\ pending' \in [Gateway -> SUBSET Child]
    BY DEF GatewayCrash, GatewayTypeOK
  <2>2. future' \in [Child -> Future]
    BY DEF GatewayCrash, GatewayTypeOK, Future, NoFuture
  <2>3. phase' \in [Request -> Phase]
    BY DEF GatewayCrash, GatewayTypeOK, Phase
  <2>4. response' \in [Request -> [status : Status, data : Seq(Child)]]
    <3>1. "lost" \in Status \ {"ok"}
      BY DEF Status
    <3>2. Reply("lost", <<>>) \in [status : Status, data : Seq(Child)]
      BY <3>1, FailureIsHonest
    <3> QED BY <3>2 DEF GatewayCrash, GatewayTypeOK
  <2> QED BY <2>1, <2>2, <2>3, <2>4 DEF GatewayCrash, GatewayTypeOK
<1>3. ResultsAreGenuine' /\ FuturesAreGenuine'
  BY DEF GatewayCrash, redisVars, GatewayTypeOK, ResultsAreGenuine, FuturesAreGenuine, NoFuture
<1>4. AnswersMatchInputs'
  BY DEF GatewayCrash, AnswersMatchInputs, Reply
<1>5. RequestsAtHome'
  BY DEF GatewayCrash, GatewayTypeOK, RequestsAtHome, InFlight
<1> QED
  BY <1>1, <1>2, <1>3, <1>4, <1>5

----------------------------------------------------------------------------
(* Worker steps keep the invariant. *)

\* What a step that leaves the gateways alone cannot disturb.
LEMMA GatewaysUndisturbed ==
    ASSUME GenuineAnswers, UNCHANGED gatewayVars
    PROVE  /\ GatewayTypeOK' /\ FuturesAreGenuine' /\ AnswersMatchInputs' /\ RequestsAtHome'
           /\ inhand' \in [Gateway -> GoodResult \cup {Nil}]
BY DEF GenuineAnswers, TypeOK, gatewayVars, GatewayTypeOK, FuturesAreGenuine,
       AnswersMatchInputs, RequestsAtHome, InFlight, ResultsAreGenuine

LEMMA ReadClockIsGenuine ==
    ASSUME GenuineAnswers, NEW w \in Worker, ReadClock(w) \/ WorkerRestart(w),
           UNCHANGED gatewayVars
    PROVE  GenuineAnswers'
<1> USE DEF GenuineAnswers, TypeOK
<1>1. RedisTypeOK' /\ WorkIsGenuine' /\ ResultsAreGenuine'
  BY GatewaysUndisturbed DEF ReadClock, WorkerRestart, redisVars, RedisTypeOK, WorkIsGenuine, ResultsAreGenuine
<1>2. WorkerTypeOK'
  BY DEF ReadClock, WorkerRestart, redisVars, RedisTypeOK, WorkerTypeOK, WorkerPc
<1>3. BatchesAligned'
  BY DEF ReadClock, WorkerRestart, WorkerTypeOK, BatchesAligned, AlignedBatch, Publishing
<1> QED
  BY <1>1, <1>2, <1>3, GatewaysUndisturbed

\* A worker's own fields stay aligned; the other workers' do because they stay.
LEMMA OneWorkerAligned ==
    ASSUME BatchesAligned, NEW w \in Worker, AlignedBatch(w)',
           \A v \in Worker \ {w} : /\ wpc'[v] = wpc[v] /\ pos'[v] = pos[v]
                                   /\ batch'[v] = batch[v] /\ data'[v] = data[v]
    PROVE  BatchesAligned'
BY DEF BatchesAligned, AlignedBatch

LEMMA ClaimBatchIsGenuine ==
    ASSUME GenuineAnswers, NEW w \in Worker, ClaimBatch(w), UNCHANGED gatewayVars
    PROVE  GenuineAnswers'
<1> USE DEF GenuineAnswers, TypeOK
<1> DEFINE l == WorkerLane[w]
           c == ClaimFrom(l, seen[w])
<1>1. l \in Lane
  BY ConstantsAssumption
<1>2. c.selected \in Seq(GoodItem) /\ c.rest \in Seq(GoodItem)
  BY <1>1, ClaimIsGenuine DEF WorkIsGenuine
<1>3. /\ work' = [work EXCEPT ![l] = c.rest]
      /\ batch' = [batch EXCEPT ![w] = c.selected]
      /\ wpc' = [wpc EXCEPT ![w] = IF c.selected = <<>> THEN "idle" ELSE "embed"]
      /\ seen' = [seen EXCEPT ![w] = {}]
      /\ UNCHANGED <<results, ttl, expired, data, pos>>
  BY DEF ClaimBatch, ClaimEmbeddingBatch
<1> HIDE DEF l, c
<1>4. WorkIsGenuine'
  BY <1>2, <1>3 DEF WorkIsGenuine
<1>5. RedisTypeOK' /\ ResultsAreGenuine'
  BY <1>3, <1>4, GenuineIsTyped, GatewaysUndisturbed DEF RedisTypeOK, WorkIsGenuine, ResultsAreGenuine
<1>6. WorkerTypeOK'
  BY <1>3, <1>4, GenuineIsTyped DEF WorkerTypeOK, WorkerPc, WorkIsGenuine
<1>7. BatchesAligned'
  <2>1. AlignedBatch(w)'
    <3>1. data[w] = <<>>
      BY DEF ClaimBatch, BatchesAligned, AlignedBatch, Publishing
    <3>2. data'[w] = <<>> /\ batch'[w] = c.selected
      BY <1>3, <3>1 DEF WorkerTypeOK
    <3>3. wpc'[w] = IF c.selected = <<>> THEN "idle" ELSE "embed"
      BY <1>3 DEF WorkerTypeOK
    <3> QED BY <3>2, <3>3 DEF AlignedBatch, Publishing
  <2>2. \A v \in Worker \ {w} : /\ wpc'[v] = wpc[v] /\ pos'[v] = pos[v]
                                /\ batch'[v] = batch[v] /\ data'[v] = data[v]
    BY <1>3 DEF WorkerTypeOK
  <2> QED BY <2>1, <2>2, OneWorkerAligned
<1> QED
  BY <1>4, <1>5, <1>6, <1>7, GatewaysUndisturbed

LEMMA ClaimAgainIsGenuine ==
    ASSUME GenuineAnswers, NEW w \in Worker, ClaimAgain(w), UNCHANGED gatewayVars
    PROVE  GenuineAnswers'
<1> USE DEF GenuineAnswers, TypeOK
<1>1. WorkerLane[w] \in Lane
  BY ConstantsAssumption
<1>2. ClaimFrom(WorkerLane[w], seen[w]).rest \in Seq(GoodItem)
  BY <1>1, ClaimIsGenuine DEF WorkIsGenuine
<1>3. WorkIsGenuine'
  BY <1>1, <1>2 DEF ClaimAgain, ClaimEmbeddingBatch, workerVars, WorkIsGenuine
<1>4. RedisTypeOK' /\ ResultsAreGenuine'
  BY <1>3, GenuineIsTyped, GatewaysUndisturbed DEF ClaimAgain, RedisTypeOK, WorkIsGenuine, ResultsAreGenuine
<1>5. WorkerTypeOK' /\ BatchesAligned'
  BY DEF ClaimAgain, workerVars, WorkerTypeOK, BatchesAligned, AlignedBatch
<1> QED
  BY <1>3, <1>4, <1>5, GatewaysUndisturbed

LEMMA EmbedIsGenuine ==
    ASSUME GenuineAnswers, NEW w \in Worker, EmbedOk(w) \/ EmbedFails(w),
           UNCHANGED gatewayVars
    PROVE  GenuineAnswers'
<1> USE DEF GenuineAnswers, TypeOK
<1> DEFINE vectors == [k \in 1..Len(batch[w]) |-> batch[w][k].id]
<1>1. batch[w] \in Seq(GoodItem) /\ Len(batch[w]) \in Nat /\ Len(batch[w]) > 0
  <2>1. batch[w] \in Seq(GoodItem) /\ batch[w] # <<>>
    BY DEF EmbedOk, EmbedFails, WorkIsGenuine, BatchesAligned, AlignedBatch
  <2> QED BY <2>1, LenProperties, EmptySeq
<1>2. vectors \in Seq(Child)
  <2>1. \A k \in 1..Len(batch[w]) : batch[w][k].id \in Child
    BY <1>1, ElementOfSeq DEF GoodItem, Item
  <2>2. vectors \in [1..Len(batch[w]) -> Child]
    BY <2>1
  <2> QED BY <1>1, <2>2, SeqDef
<1> HIDE DEF vectors
<1>3. RedisTypeOK' /\ WorkIsGenuine' /\ ResultsAreGenuine'
  BY GatewaysUndisturbed DEF EmbedOk, EmbedFails, redisVars, RedisTypeOK, WorkIsGenuine, ResultsAreGenuine
<1>4. /\ data' = [data EXCEPT ![w] = vectors] \/ data' = [data EXCEPT ![w] = <<>>]
      /\ wpc' = [wpc EXCEPT ![w] = "publish"]
      /\ pos' = [pos EXCEPT ![w] = 1]
      /\ UNCHANGED <<seen, batch>>
  BY DEF EmbedOk, EmbedFails, vectors
<1>5. WorkerTypeOK'
  <2>1. data' \in [Worker -> Seq(Child)]
    <3>1. CASE data' = [data EXCEPT ![w] = vectors]
      BY <1>2, <3>1 DEF WorkerTypeOK
    <3>2. CASE data' = [data EXCEPT ![w] = <<>>]
      BY <3>2 DEF WorkerTypeOK
    <3> QED BY <1>4, <3>1, <3>2
  <2> QED BY <1>4, <2>1 DEF WorkerTypeOK, WorkerPc
<1>6. BatchesAligned'
  <2>1. AlignedBatch(w)'
    <3>1. (data'[w] = vectors \/ data'[w] = <<>>) /\ wpc'[w] = "publish" /\ pos'[w] = 1 /\ batch'[w] = batch[w]
      BY <1>4 DEF WorkerTypeOK
    <3> QED BY <1>1, <3>1 DEF AlignedBatch, Publishing, vectors
  <2>2. \A v \in Worker \ {w} : /\ wpc'[v] = wpc[v] /\ pos'[v] = pos[v]
                                /\ batch'[v] = batch[v] /\ data'[v] = data[v]
    BY <1>4 DEF WorkerTypeOK
  <2> QED BY <2>1, <2>2, OneWorkerAligned
<1> QED
  BY <1>3, <1>5, <1>6, GatewaysUndisturbed

\* The result published at the current position names the item there, and a
\* successful one carries that item's vector.
LEMMA PublishedIsGenuine ==
    ASSUME GenuineAnswers, NEW w \in Worker, Publish(w) \/ PublishAgain(w)
    PROVE  /\ pos[w] \in 1..Len(batch[w])
           /\ batch[w][pos[w]] \in GoodItem
           /\ ResultAt(w, pos[w]) \in GoodResult
           /\ ResultAt(w, pos[w]).id = batch[w][pos[w]].id
<1> USE DEF GenuineAnswers, TypeOK
<1> DEFINE item == batch[w][pos[w]]
           res == ResultAt(w, pos[w])
<1>1. pos[w] \in 1..Len(batch[w]) /\ batch[w] \in Seq(GoodItem)
  BY DEF Publish, PublishAgain, WorkIsGenuine, BatchesAligned, AlignedBatch, Publishing
<1>2. item \in GoodItem
  BY <1>1, ElementOfSeq
<1>3. item.id \in Child /\ item.index \in Nat /\ item.index = item.id[2]
  BY <1>2 DEF GoodItem, Item
<1>4. res \in GoodResult /\ res.id = item.id
  <2>1. CASE data[w] = <<>>
    BY <1>3, <2>1 DEF ResultAt, ErrorResult, GoodResult, Result
  <2>2. CASE data[w] # <<>>
    <3>1. data[w][pos[w]] = item.id
      BY <1>1, <2>2 DEF BatchesAligned, AlignedBatch
    <3> QED BY <1>3, <2>2, <3>1 DEF ResultAt, OkResult, GoodResult, Result
  <2> QED BY <2>1, <2>2
<1> QED
  BY <1>1, <1>2, <1>4

LEMMA PublishIsGenuine ==
    ASSUME GenuineAnswers, NEW w \in Worker, Publish(w) \/ PublishAgain(w),
           UNCHANGED gatewayVars
    PROVE  GenuineAnswers'
<1> USE DEF GenuineAnswers, TypeOK
<1> DEFINE item == batch[w][pos[w]]
           res == ResultAt(w, pos[w])
<1>1. pos[w] \in 1..Len(batch[w]) /\ item \in GoodItem /\ res \in GoodResult
  BY PublishedIsGenuine
<1>3. item.reply_to \in Gateway
  BY <1>1 DEF GoodItem, Item
<1>5. results' = [results EXCEPT ![item.reply_to] = Append(@, res)]
  BY DEF Publish, PublishAgain, PushResult
<1> HIDE DEF item, res
<1>6. Append(results[item.reply_to], res) \in Seq(GoodResult)
  BY <1>1, <1>3, AppendProperties DEF ResultsAreGenuine
<1>7. ResultsAreGenuine'
  BY <1>5, <1>6, GatewaysUndisturbed DEF ResultsAreGenuine
<1>8. RedisTypeOK' /\ WorkIsGenuine'
  BY <1>7, GenuineIsTyped DEF Publish, PublishAgain, RedisTypeOK, WorkIsGenuine, ResultsAreGenuine
<1>9. WorkerTypeOK'
  BY DEF Publish, PublishAgain, WorkerTypeOK, WorkerPc
<1>10. BatchesAligned'
  BY DEF Publish, PublishAgain, WorkerTypeOK, BatchesAligned, AlignedBatch, Publishing
<1> QED
  BY <1>7, <1>8, <1>9, <1>10, GatewaysUndisturbed

LEMMA SetTtlIsGenuine ==
    ASSUME GenuineAnswers, NEW w \in Worker, SetTtl(w), UNCHANGED gatewayVars
    PROVE  GenuineAnswers'
<1> USE DEF GenuineAnswers, TypeOK
<1>1. ttl' \in [Gateway -> BOOLEAN]
  BY DEF SetTtl, ExpireResults, RedisTypeOK
<1>2. RedisTypeOK' /\ ResultsAreGenuine'
  BY <1>1, GatewaysUndisturbed DEF SetTtl, RedisTypeOK, ResultsAreGenuine
<1>3. pos[w] \in 1..Len(batch[w]) /\ Len(batch[w]) \in Nat
  <2>1. batch[w] \in Seq(GoodItem)
    BY DEF WorkIsGenuine
  <2> QED BY <2>1, LenProperties DEF SetTtl, BatchesAligned, AlignedBatch, Publishing
<1>4. CASE pos[w] < Len(batch[w])
  <2>1. /\ pos' = [pos EXCEPT ![w] = @ + 1]
        /\ wpc' = [wpc EXCEPT ![w] = "publish"]
        /\ UNCHANGED <<batch, data, work, seen>>
    BY <1>4 DEF SetTtl
  <2>2. WorkIsGenuine' /\ WorkerTypeOK'
    BY <2>1 DEF WorkIsGenuine, WorkerTypeOK, WorkerPc
  <2>3. AlignedBatch(w)'
    <3>1. pos'[w] = pos[w] + 1 /\ wpc'[w] = "publish"
      BY <2>1 DEF WorkerTypeOK
    <3> QED BY <1>3, <1>4, <2>1, <3>1 DEF BatchesAligned, AlignedBatch, Publishing
  <2>4. \A v \in Worker \ {w} : wpc'[v] = wpc[v] /\ pos'[v] = pos[v]
    BY <2>1 DEF WorkerTypeOK
  <2> QED BY <1>2, <2>1, <2>2, <2>3, <2>4, OneWorkerAligned, GatewaysUndisturbed
<1>5. CASE ~ (pos[w] < Len(batch[w]))
  <2>1. /\ wpc' = [wpc EXCEPT ![w] = "idle"]
        /\ Forget(w)
        /\ UNCHANGED <<work, seen>>
    BY <1>5 DEF SetTtl
  <2>2. WorkIsGenuine' /\ WorkerTypeOK'
    BY <2>1 DEF Forget, WorkIsGenuine, WorkerTypeOK, WorkerPc
  <2>3. AlignedBatch(w)'
    BY <2>1 DEF Forget, WorkerTypeOK, AlignedBatch, Publishing
  <2>4. \A v \in Worker \ {w} : /\ wpc'[v] = wpc[v] /\ pos'[v] = pos[v]
                                /\ batch'[v] = batch[v] /\ data'[v] = data[v]
    BY <2>1 DEF Forget, WorkerTypeOK
  <2> QED BY <1>2, <2>2, <2>3, <2>4, OneWorkerAligned, GatewaysUndisturbed
<1> QED
  BY <1>4, <1>5

LEMMA WorkerCrashIsGenuine ==
    ASSUME GenuineAnswers, NEW w \in Worker, WorkerCrash(w), UNCHANGED gatewayVars
    PROVE  GenuineAnswers'
<1> USE DEF GenuineAnswers, TypeOK
<1>1. RedisTypeOK' /\ ResultsAreGenuine'
  BY GatewaysUndisturbed DEF WorkerCrash, redisVars, RedisTypeOK, ResultsAreGenuine
<1>2. WorkIsGenuine' /\ WorkerTypeOK'
  BY DEF WorkerCrash, Forget, redisVars, WorkIsGenuine, WorkerTypeOK, WorkerPc
<1>3. BatchesAligned'
  <2>1. AlignedBatch(w)'
    BY DEF WorkerCrash, Forget, WorkerTypeOK, AlignedBatch, Publishing
  <2>2. \A v \in Worker \ {w} : /\ wpc'[v] = wpc[v] /\ pos'[v] = pos[v]
                                /\ batch'[v] = batch[v] /\ data'[v] = data[v]
    BY DEF WorkerCrash, Forget, WorkerTypeOK
  <2> QED BY <2>1, <2>2, OneWorkerAligned
<1> QED
  BY <1>1, <1>2, <1>3, GatewaysUndisturbed

----------------------------------------------------------------------------
(* Redis steps keep the invariant. *)

LEMMA RedisStepIsGenuine ==
    ASSUME GenuineAnswers, UNCHANGED <<gatewayVars, workerVars>>,
           \/ \E r \in Request : DeadlinePasses(r)
           \/ \E g \in Gateway : ResultsExpire(g)
           \/ RedisLoss
    PROVE  GenuineAnswers'
<1> USE DEF GenuineAnswers, TypeOK
<1>1. WorkerTypeOK' /\ BatchesAligned'
  BY DEF workerVars, WorkerTypeOK, BatchesAligned, AlignedBatch
<1>2. RedisTypeOK'
  <2>1. CASE \E r \in Request : DeadlinePasses(r)
    BY <2>1 DEF DeadlinePasses, RedisTypeOK
  <2>2. CASE \E g \in Gateway : ResultsExpire(g)
    BY <2>2 DEF ResultsExpire, RedisTypeOK
  <2>3. CASE RedisLoss
    BY <2>3 DEF RedisLoss, RedisTypeOK
  <2> QED BY <2>1, <2>2, <2>3
<1>3. WorkIsGenuine' /\ ResultsAreGenuine'
  <2>1. CASE \E r \in Request : DeadlinePasses(r)
    BY <2>1, GatewaysUndisturbed DEF DeadlinePasses, workerVars, WorkIsGenuine, ResultsAreGenuine
  <2>2. CASE \E g \in Gateway : ResultsExpire(g)
    BY <2>2, GatewaysUndisturbed DEF ResultsExpire, workerVars, WorkIsGenuine, ResultsAreGenuine
  <2>3. CASE RedisLoss
    BY <2>3, GatewaysUndisturbed DEF RedisLoss, workerVars, WorkIsGenuine, ResultsAreGenuine
  <2> QED BY <2>1, <2>2, <2>3
<1> QED
  BY <1>1, <1>2, <1>3, GatewaysUndisturbed

----------------------------------------------------------------------------
(* The theorems. *)

LEMMA StepIsGenuine == GenuineAnswers /\ [Next]_vars => GenuineAnswers'
<1> SUFFICES ASSUME GenuineAnswers, [Next]_vars PROVE GenuineAnswers'
  OBVIOUS
<1>1. CASE GatewayNormal /\ UNCHANGED workerVars
  <2>1. ASSUME NEW r \in Request, NEW g \in Gateway, Accept(r, g) \/ Reject(r, g)
        PROVE  GenuineAnswers'
    BY <1>1, <2>1, AcceptIsGenuine, RejectIsGenuine
  <2>2. ASSUME NEW r \in Request, RequestStep(r)
        PROVE  GenuineAnswers'
    BY <1>1, <2>2, PushIsGenuine, PushReturnsIsGenuine, CollectIsGenuine,
       TimeoutFiresIsGenuine, TimeoutFinishIsGenuine DEF RequestStep
  <2>3. ASSUME NEW g \in Gateway, ListenerStep(g) \/ StopEnd(g) \/ GatewayRestart(g)
        PROVE  GenuineAnswers'
    BY <1>1, <2>3, BlpopIsGenuine, DeliverIsGenuine, StopIsGenuine DEF ListenerStep
  <2> QED BY <1>1, <2>1, <2>2, <2>3 DEF GatewayNormal
<1>2. CASE GatewayFault /\ UNCHANGED workerVars
  <2>1. ASSUME NEW r \in Request, PushError(r) \/ PushAgain(r)
        PROVE  GenuineAnswers'
    BY <1>2, <2>1, PushErrorIsGenuine, PushIsGenuine
  <2>2. ASSUME NEW g \in Gateway, ListenerError(g) \/ StopBegin(g) \/ GatewayCrash(g)
        PROVE  GenuineAnswers'
    BY <1>2, <2>2, ListenerErrorIsGenuine, StopIsGenuine, GatewayCrashIsGenuine
  <2> QED BY <1>2, <2>1, <2>2 DEF GatewayFault
<1>3. CASE (WorkerNormal \/ WorkerFault) /\ UNCHANGED gatewayVars
  <2>1. ASSUME NEW w \in Worker,
               \/ ReadClock(w) \/ ClaimBatch(w) \/ ClaimAgain(w) \/ EmbedOk(w) \/ EmbedFails(w)
               \/ Publish(w) \/ PublishAgain(w) \/ SetTtl(w) \/ WorkerCrash(w) \/ WorkerRestart(w)
        PROVE  GenuineAnswers'
    BY <1>3, <2>1, ReadClockIsGenuine, ClaimBatchIsGenuine, ClaimAgainIsGenuine,
       EmbedIsGenuine, PublishIsGenuine, SetTtlIsGenuine, WorkerCrashIsGenuine
  <2> QED BY <1>3, <2>1 DEF WorkerNormal, WorkerFault
<1>4. CASE RedisFault /\ UNCHANGED <<gatewayVars, workerVars>>
  BY <1>4, RedisStepIsGenuine DEF RedisFault
<1>5. CASE UNCHANGED vars
  <2>1. UNCHANGED gatewayVars /\ UNCHANGED workerVars /\ UNCHANGED redisVars
    BY <1>5 DEF vars
  <2>2. RedisTypeOK' /\ WorkIsGenuine' /\ ResultsAreGenuine'
    BY <2>1, GatewaysUndisturbed
       DEF GenuineAnswers, TypeOK, redisVars, workerVars, RedisTypeOK, WorkIsGenuine, ResultsAreGenuine
  <2>3. WorkerTypeOK' /\ BatchesAligned'
    BY <2>1 DEF GenuineAnswers, TypeOK, workerVars, WorkerTypeOK, BatchesAligned, AlignedBatch
  <2> QED BY <2>1, <2>2, <2>3, GatewaysUndisturbed DEF GenuineAnswers, TypeOK
<1> QED
  BY <1>1, <1>2, <1>3, <1>4, <1>5 DEF Next

\* Every reachable state is genuine: whatever fails, and however requests share
\* queues and batches, each work item, vector, result and future names its own
\* child.  The type invariant is its first conjunct.
THEOREM GenuineAnswersInvariant == Spec => []GenuineAnswers
BY InitIsGenuine, StepIsGenuine, PTL DEF Spec

\* A 200 carries the vectors of its own inputs, in input order.
THEOREM AnswersMatchInputsInvariant == Spec => []AnswersMatchInputs
<1>1. GenuineAnswers => AnswersMatchInputs
  BY DEF GenuineAnswers
<1> QED
  BY <1>1, GenuineAnswersInvariant, PTL

----------------------------------------------------------------------------
(* The token budget. *)

\* Two running totals over the same counts agree at every index.
LEMMA RunningTotalsAgree ==
    ASSUME NEW n \in Nat, NEW v, NEW f, NEW g,
           \A k \in 0..n : f[k] = IF k = 0 THEN 0 ELSE f[k - 1] + v[k],
           \A k \in 0..n : g[k] = IF k = 0 THEN 0 ELSE g[k - 1] + v[k]
    PROVE  f[n] = g[n]
<1> DEFINE Bad == {k \in 0..n : f[k] # g[k]}
<1>1. Bad = {}
  <2> SUFFICES ASSUME Bad # {} PROVE FALSE
    OBVIOUS
  <2>1. PICK m \in Bad : \A k \in Bad : m <= k
    <3>1. Bad \subseteq Nat
      OBVIOUS
    <3> HIDE DEF Bad
    <3> QED BY <3>1, LeastNumber
  <2>2. m \in 0..n /\ f[m] # g[m]
    BY <2>1
  <2>3. m # 0
    BY <2>2
  <2>4. m - 1 \in 0..n /\ m - 1 \notin Bad
    BY <2>1, <2>2, <2>3
  <2>5. f[m] = f[m - 1] + v[m]
    BY <2>2, <2>3, Zenon
  <2>6. g[m] = g[m - 1] + v[m]
    BY <2>2, <2>3, Zenon
  <2>7. f[m - 1] = g[m - 1]
    BY <2>4
  <2> QED BY <2>2, <2>5, <2>6, <2>7, Zenon
<1> QED
  BY <1>1

\* The token count of items is the total of any list of their counts.
LEMMA TokensAreTotal ==
    ASSUME NEW items, Len(items) \in Nat, NEW tok, NEW total, Totals(items, total, tok),
           \A k \in 1..Len(items) : tok[items[k]] = TokenCount(items[k].id)
    PROVE  TokensOf(items) = total
<1> DEFINE n == Len(items)
           v == [k \in 1..n |-> TokenCount(items[k].id)]
           Adds(f) == f = [k \in 0..n |-> IF k = 0 THEN 0
                                          ELSE f[k - 1] + TokenCount(items[k].id)]
           sum == CHOOSE f : Adds(f)
<1>1. PICK f : AddsUp(f, items, tok) /\ f[n] = total
  BY DEF Totals
<1>2. Adds(f)
  <2>1. f = [k \in 0..n |-> IF k = 0 THEN 0 ELSE f[k - 1] + tok[items[k]]]
    BY <1>1 DEF AddsUp
  <2> QED BY <2>1
<1>3. Adds(sum)
  <2> HIDE DEF Adds
  <2> QED BY <1>2, Zenon
<1>4. TokensOf(items) = sum[n]
  BY DEF TokensOf
<1> HIDE DEF sum
<1>5. /\ \A k \in 0..n : f[k] = IF k = 0 THEN 0 ELSE f[k - 1] + v[k]
      /\ \A k \in 0..n : sum[k] = IF k = 0 THEN 0 ELSE sum[k - 1] + v[k]
  <2>1. \A k \in 0..n : k # 0 => v[k] = TokenCount(items[k].id)
    OBVIOUS
  <2> HIDE DEF v
  <2> QED BY <1>2, <1>3, <2>1
<1>6. f[n] = sum[n]
  <2>1. n \in Nat
    OBVIOUS
  <2> HIDE DEF n, v
  <2> QED BY ONLY <1>5, <2>1, RunningTotalsAgree
<1> QED
  BY <1>1, <1>4, <1>6

\* The batch a claim hands to a worker keeps the budget.
LEMMA ClaimedBatchKeepsBudget ==
    ASSUME GenuineAnswers, GenuineAnswers', NEW w \in Worker, ClaimBatch(w)
    PROVE  Len(batch'[w]) <= 1 \/ TokensOf(batch'[w]) <= Budget[WorkerLane[w]]
<1> DEFINE l == WorkerLane[w]
           q == work[l]
           S == {q[k] : k \in 1..Len(q)}
           sel == ClaimFrom(l, seen[w]).selected
<1>1. /\ l \in Lane /\ Budget[l] \in Nat /\ MaxItems[l] \in Nat
      /\ q \in Seq(GoodItem) /\ Len(q) \in Nat
  <2>1. l \in Lane
    BY ConstantsAssumption
  <2>2. q \in Seq(GoodItem)
    BY <2>1 DEF GenuineAnswers, WorkIsGenuine
  <2> QED BY <2>1, <2>2, LenProperties, ConstantsAssumption
<1>2. q \in Seq(S) /\ \A item \in S : item \in GoodItem
  <2>1. \A k \in 1..Len(q) : q[k] \in GoodItem
    BY <1>1, ElementOfSeq
  <2> QED BY <1>1, <2>1, LenProperties
<1>3. TokenView(q) \in [S -> Nat] /\ \A item \in S : TokenView(q)[item] = TokenCount(item.id)
  <2>1. ASSUME NEW item \in S PROVE TokenCount(item.id) \in Nat
    <3>1. item.id \in Child
      BY <1>2 DEF GoodItem, Item
    <3> QED BY <3>1, ChildParts, TokensAreCounted DEF TokenCount
  <2> QED BY <2>1 DEF TokenView
<1>4. sel \in Seq(S) /\ (Len(sel) <= 1 \/ \E total \in 0..Budget[l] : Totals(sel, total, TokenView(q)))
  <2>1. sel = Claim(q, MaxItems[l], Budget[l], Overdue(q, seen[w]), TokenView(q)).selected
    BY DEF ClaimFrom
  <2> HIDE DEF S, q, sel, l
  <2> QED BY <1>1, <1>2, <1>3, <2>1, ClaimKeepsBudget, ClaimTakesLivePrefix
<1>5. batch'[w] = sel
  BY DEF ClaimBatch, GenuineAnswers, TypeOK, WorkerTypeOK
<1> HIDE DEF S, q, sel, l
<1>6. Len(sel) \in Nat /\ \A k \in 1..Len(sel) : TokenView(q)[sel[k]] = TokenCount(sel[k].id)
  BY <1>3, <1>4, LenProperties, ElementOfSeq
<1>7. ASSUME NEW total \in 0..Budget[l], Totals(sel, total, TokenView(q))
      PROVE  TokensOf(batch'[w]) = total
  BY <1>5, <1>6, <1>7, TokensAreTotal
<1> QED
  BY <1>1, <1>4, <1>5, <1>7 DEF l

\* Only a claim fills a batch.
LEMMA StepKeepsBudget ==
    ASSUME GenuineAnswers, GenuineAnswers', BatchWithinBudget, [Next]_vars
    PROVE  BatchWithinBudget'
<1> SUFFICES ASSUME NEW w \in Worker
             PROVE  Len(batch'[w]) <= 1 \/ TokensOf(batch'[w]) <= Budget[WorkerLane[w]]
  BY DEF BatchWithinBudget
<1>0. batch \in [Worker -> Seq(Item)]
  BY DEF GenuineAnswers, TypeOK, WorkerTypeOK
<1>1. CASE ClaimBatch(w)
  BY <1>1, ClaimedBatchKeepsBudget
<1>2. CASE batch'[w] = batch[w]
  BY <1>2 DEF BatchWithinBudget
<1>3. CASE batch'[w] = <<>>
  BY <1>3
<1>4. ASSUME WorkerNormal \/ WorkerFault
      PROVE  ClaimBatch(w) \/ batch'[w] = batch[w] \/ batch'[w] = <<>>
  <2>1. ASSUME NEW v \in Worker, ClaimBatch(v)
        PROVE  ClaimBatch(w) \/ batch'[w] = batch[w]
    BY <1>0, <2>1 DEF ClaimBatch
  <2>2. ASSUME NEW v \in Worker,
               \/ ReadClock(v) \/ EmbedOk(v) \/ EmbedFails(v) \/ Publish(v) \/ PublishAgain(v)
               \/ ClaimAgain(v) \/ WorkerRestart(v)
        PROVE  UNCHANGED batch
    BY <2>2 DEF ReadClock, EmbedOk, EmbedFails, Publish, PublishAgain, ClaimAgain, WorkerRestart, workerVars
  <2>3. ASSUME NEW v \in Worker, SetTtl(v) \/ WorkerCrash(v)
        PROVE  batch'[w] = batch[w] \/ batch'[w] = <<>>
    BY <1>0, <2>3 DEF SetTtl, WorkerCrash, Forget
  <2> QED BY <1>4, <2>1, <2>2, <2>3 DEF WorkerNormal, WorkerFault
<1> QED
  BY <1>1, <1>2, <1>3, <1>4 DEF Next, vars, workerVars

\* A batch exceeds its lane's token budget only when it is a single input.
THEOREM BatchWithinBudgetInvariant == Spec => []BatchWithinBudget
<1>1. Init => BatchWithinBudget
  BY DEF Init, WorkerInit, BatchWithinBudget
<1>2. GenuineAnswers /\ GenuineAnswers' /\ BatchWithinBudget /\ [Next]_vars => BatchWithinBudget'
  BY StepKeepsBudget
<1> QED
  BY <1>1, <1>2, GenuineAnswersInvariant, PTL DEF Spec

----------------------------------------------------------------------------
(* What a step disturbs. *)

\* The registration of children: who is registered, and what is kept for them.
registryVars == <<gw, pending, future, home, phase, next>>

\* A step that leaves the registry alone leaves its two invariants alone.
LEMMA RegistryUndisturbed ==
    ASSUME PendingIsRegistered, FuturesAreRegistered, UNCHANGED registryVars
    PROVE  PendingIsRegistered' /\ FuturesAreRegistered'
BY DEF registryVars, PendingIsRegistered, FuturesAreRegistered, Registered, InFlight

\* A request that was sent stays sent, and stays at its gateway.
HomesStay == \A r \in Request : phase[r] # "idle" => phase'[r] # "idle" /\ home'[r] = home[r]

\* What is at home stays at home.
LEMMA HomesGrow ==
    ASSUME HomesStay
    PROVE  /\ HomeItem \subseteq HomeItem'
           /\ \A g \in Gateway : HomeResult(g) \subseteq HomeResult(g)'
<1>1. ASSUME NEW item \in GoodItem PROVE item.id[1] \in Request
  <2>1. item.id \in Child
    BY DEF GoodItem, Item
  <2> QED BY <2>1, ChildParts
<1>2. ASSUME NEW res \in GoodResult PROVE res.id[1] \in Request
  <2>1. res.id \in Child
    BY DEF GoodResult, Result
  <2> QED BY <2>1, ChildParts
<1> QED
  BY <1>1, <1>2 DEF HomesStay, HomeItem, HomeResult, Sent

\* Lists and batches that stay, or become what fits in, stay at home.
LEMMA ListsStayHome ==
    ASSUME HomesStay, ItemsKnowTheirHome, ResultsAreHome
    PROVE  /\ work \in [Lane -> Seq(HomeItem')]
           /\ batch \in [Worker -> Seq(HomeItem')]
           /\ \A g \in Gateway : results[g] \in Seq(HomeResult(g)')
<1>1. /\ \A q \in Seq(HomeItem) : q \in Seq(HomeItem')
      /\ \A g \in Gateway : \A q \in Seq(HomeResult(g)) : q \in Seq(HomeResult(g)')
  BY HomesGrow, SeqMonotonic
<1> QED
  BY <1>1 DEF ItemsKnowTheirHome, ResultsAreHome

\* A step that leaves work, batches and results alone.
LEMMA QueuesUndisturbed ==
    ASSUME HomesStay, ItemsKnowTheirHome, ResultsAreHome, UNCHANGED <<work, batch, results>>
    PROVE  ItemsKnowTheirHome' /\ ResultsAreHome'
BY ListsStayHome DEF ItemsKnowTheirHome, ResultsAreHome

----------------------------------------------------------------------------
(* The registry. *)

\* Registering a child whose request runs at home, as its last one.
LEMMA RegisterKeepsRegistry ==
    ASSUME GenuineDelivery, NEW r \in Request, NEW g \in Gateway, NEW i \in Indexes(r),
           gw[g] # "down", home' = [home EXCEPT ![r] = g], RegisterChild(r, i, g),
           UNCHANGED gw,
           \/ phase[r] = "idle" /\ i = 1
           \/ InFlight(r) /\ home[r] = g /\ i = next[r] + 1
    PROVE  PendingIsRegistered' /\ FuturesAreRegistered'
<1> USE DEF GenuineDelivery, GenuineAnswers, TypeOK, GatewayTypeOK
<1>1. <<r, i>> \in Child
  BY ChildOf
<1>2. ASSUME NEW h \in Gateway
      PROVE  Registered(h)' = IF h = g THEN Registered(h) \cup {<<r, i>>} ELSE Registered(h)
  <2>1. ASSUME NEW c \in Child
        PROVE  c \in Registered(h)' <=> c \in Registered(h) \/ (h = g /\ c = <<r, i>>)
    <3>1. c[1] \in Request /\ c[2] \in Indexes(c[1]) /\ c = <<c[1], c[2]>>
      BY ChildParts
    <3>2. CASE c[1] # r
      BY <3>1, <3>2 DEF Registered, InFlight, RegisterChild
    <3>3. CASE c[1] = r
      <4>1. c \in Registered(h)' <=> h = g /\ c[2] <= i
        BY <3>1, <3>3 DEF Registered, InFlight, RegisterChild
      <4>2. c[2] \in Nat /\ c[2] >= 1 /\ i \in Nat
        BY <3>1, ChildOf DEF Indexes
      <4> QED BY <3>1, <3>3, <4>1, <4>2 DEF Registered, InFlight
    <3> QED BY <3>2, <3>3
  <2> QED BY <1>1, <2>1 DEF Registered
<1>3. PendingIsRegistered'
  BY <1>2 DEF PendingIsRegistered, RegisterChild
<1>4. FuturesAreRegistered'
  <2> SUFFICES ASSUME NEW c \in Child, future'[c].state # "none"
               PROVE  InFlight(c[1])' /\ c[2] <= next'[c[1]]
    BY DEF FuturesAreRegistered
  <2>1. c[1] \in Request /\ c[2] \in Indexes(c[1]) /\ c = <<c[1], c[2]>>
    BY ChildParts
  <2>2. CASE c = <<r, i>>
    BY <2>2, ChildOf DEF RegisterChild, InFlight
  <2>3. CASE c # <<r, i>>
    <3>1. InFlight(c[1]) /\ c[2] <= next[c[1]]
      BY <1>1, <2>3 DEF RegisterChild, FuturesAreRegistered
    <3>2. c[2] \in Nat /\ next[c[1]] \in Nat
      BY <2>1, ChildOf
    <3> QED BY <2>1, <3>1, <3>2 DEF RegisterChild, InFlight
  <2> QED BY <2>2, <2>3
<1> QED
  BY <1>3, <1>4

LEMMA AcceptKeepsRegistry ==
    ASSUME GenuineDelivery, NEW r \in Request, NEW g \in Gateway, Accept(r, g)
    PROVE  PendingIsRegistered' /\ FuturesAreRegistered'
BY TokensAreCounted, RegisterKeepsRegistry DEF Accept

LEMMA PushReturnsKeepsRegistry ==
    ASSUME GenuineDelivery, NEW r \in Request, PushReturns(r)
    PROVE  PendingIsRegistered' /\ FuturesAreRegistered'
<1>0. PendingIsRegistered /\ FuturesAreRegistered /\ home \in [Request -> Gateway \cup {Nil}]
      /\ phase \in [Request -> Phase]
  BY DEF GenuineDelivery, GenuineAnswers, TypeOK, GatewayTypeOK
<1>1. InFlight(r) /\ home[r] \in Gateway /\ next[r] \in Indexes(r)
  BY DEF GenuineDelivery, GenuineAnswers, PushReturns, RequestsAtHome, InFlight
<1>2. CASE next[r] < Len(Tokens[r])
  <2>1. next[r] + 1 \in Indexes(r)
    BY <1>1, <1>2, TokensAreCounted DEF Indexes
  <2>2. gw[home[r]] # "down"
    <3>1. <<r, next[r]>> \in Registered(home[r])
      BY <1>1, ChildOf DEF Registered
    <3> QED BY <1>0, <1>1, <3>1 DEF PendingIsRegistered
  <2>3. home' = [home EXCEPT ![r] = home[r]]
    BY <1>0 DEF PushReturns
  <2> QED BY <1>1, <1>2, <2>1, <2>2, <2>3, RegisterKeepsRegistry DEF PushReturns
<1>3. CASE ~ (next[r] < Len(Tokens[r]))
  <2>1. phase' = [phase EXCEPT ![r] = "wait"] /\ UNCHANGED <<gw, pending, future, home, next>>
    BY <1>3 DEF PushReturns
  <2>2. \A q \in Request : InFlight(q)' <=> InFlight(q)
    BY <1>0, <1>1, <2>1 DEF InFlight
  <2>3. \A g \in Gateway : Registered(g)' = Registered(g)
    BY <2>1, <2>2, ChildParts DEF Registered
  <2> QED BY <1>0, <2>1, <2>2, <2>3, ChildParts DEF PendingIsRegistered, FuturesAreRegistered
<1> QED
  BY <1>2, <1>3

\* A coroutine that goes on, with or without cancelling its pending futures.
LEMMA RunningKeepsRegistry ==
    ASSUME GenuineDelivery, NEW r \in Request, Push(r) \/ PushAgain(r) \/ TimeoutFires(r)
    PROVE  PendingIsRegistered' /\ FuturesAreRegistered'
<1> USE DEF GenuineDelivery, GenuineAnswers, TypeOK, GatewayTypeOK
<1>1. InFlight(r) /\ phase' \in [Request -> Phase] /\ \A q \in Request : InFlight(q)' <=> InFlight(q)
  BY DEF Push, PushAgain, TimeoutFires, InFlight, Phase
<1>2. UNCHANGED <<gw, pending, home, next>>
  BY DEF Push, PushAgain, TimeoutFires
<1>3. \A c \in Child : future'[c].state # "none" => future[c].state # "none"
  BY DEF Push, PushAgain, TimeoutFires
<1>4. \A g \in Gateway : Registered(g)' = Registered(g)
  BY <1>1, <1>2, ChildParts DEF Registered
<1> QED
  BY <1>1, <1>2, <1>3, <1>4, ChildParts DEF PendingIsRegistered, FuturesAreRegistered

LEMMA FinishKeepsRegistry ==
    ASSUME GenuineDelivery, NEW r \in Request, InFlight(r), NEW rep, Finish(r, rep)
    PROVE  PendingIsRegistered' /\ FuturesAreRegistered'
<1> USE DEF GenuineDelivery, GenuineAnswers, TypeOK, GatewayTypeOK
<1>1. home[r] \in Gateway
  BY DEF RequestsAtHome
<1>2. /\ phase' = [phase EXCEPT ![r] = "done"]
      /\ pending' = [pending EXCEPT ![home[r]] = @ \ ChildrenOf(r)]
      /\ UNCHANGED <<gw, home, next>>
      /\ \A c \in Child : future'[c] = IF c \in ChildrenOf(r) THEN NoFuture ELSE future[c]
  BY DEF Finish
<1>3. \A c \in Child : c \in ChildrenOf(r) <=> c[1] = r
  BY ChildParts DEF ChildrenOf
<1>4. \A c \in Child : InFlight(c[1])' <=> InFlight(c[1]) /\ c[1] # r
  BY <1>2, ChildParts DEF InFlight
<1>5. \A g \in Gateway : Registered(g)' =
          IF g = home[r] THEN Registered(g) \ ChildrenOf(r) ELSE Registered(g)
  BY <1>2, <1>3, <1>4 DEF Registered
<1>6. PendingIsRegistered'
  BY <1>1, <1>2, <1>5 DEF PendingIsRegistered
<1>7. FuturesAreRegistered'
  <2> SUFFICES ASSUME NEW c \in Child, future'[c].state # "none"
               PROVE  InFlight(c[1])' /\ c[2] <= next'[c[1]]
    BY DEF FuturesAreRegistered
  <2>1. c \notin ChildrenOf(r) /\ future'[c] = future[c]
    BY <1>2 DEF NoFuture
  <2>2. InFlight(c[1]) /\ c[2] <= next[c[1]]
    BY <2>1 DEF FuturesAreRegistered
  <2> QED BY <1>2, <1>3, <1>4, <2>1, <2>2
<1> QED
  BY <1>6, <1>7

\* Every end of a coroutine is a Finish.
LEMMA EndingKeepsRegistry ==
    ASSUME GenuineDelivery, NEW r \in Request, PushError(r) \/ Collect(r) \/ TimeoutFinish(r)
    PROVE  PendingIsRegistered' /\ FuturesAreRegistered'
<1>1. InFlight(r)
  BY DEF PushError, Collect, TimeoutFinish, InFlight
<1>2. \E rep : Finish(r, rep)
  BY Zenon DEF PushError, Collect, TimeoutFinish
<1> QED
  BY <1>1, <1>2, FinishKeepsRegistry

\* The listener settles futures of children that have one.
LEMMA ListenerKeepsRegistry ==
    ASSUME GenuineDelivery, NEW g \in Gateway, ListenerStep(g) \/ ListenerError(g)
    PROVE  PendingIsRegistered' /\ FuturesAreRegistered'
<1>0. PendingIsRegistered /\ FuturesAreRegistered /\ future \in [Child -> Future]
  BY DEF GenuineDelivery, GenuineAnswers, TypeOK, GatewayTypeOK
<1>1. UNCHANGED <<gw, pending, home, phase, next>>
  BY DEF ListenerStep, ListenerError, BlpopEmbeddingResult, Deliver
<1>2. \A c \in Child : future'[c].state # "none" => future[c].state # "none"
  <2>1. CASE UNCHANGED future
    BY <2>1
  <2>2. CASE Deliver(g)
    BY <1>0, <2>2 DEF Deliver
  <2> QED BY <2>1, <2>2 DEF ListenerStep, ListenerError, BlpopEmbeddingResult
<1>3. \A h \in Gateway : Registered(h)' = Registered(h)
  BY <1>1 DEF Registered, InFlight
<1>4. \A q \in Request : InFlight(q)' <=> InFlight(q)
  BY <1>1 DEF InFlight
<1> QED
  BY <1>0, <1>1, <1>2, <1>3, <1>4, ChildParts DEF PendingIsRegistered, FuturesAreRegistered

\* A process that stops, or starts, forgets its entries and no one else's.
LEMMA StopKeepsRegistry ==
    ASSUME GenuineDelivery, NEW g \in Gateway, StopBegin(g) \/ StopEnd(g) \/ GatewayRestart(g)
    PROVE  PendingIsRegistered' /\ FuturesAreRegistered'
<1>0. /\ PendingIsRegistered /\ FuturesAreRegistered
      /\ gw \in [Gateway -> {"up", "stopping", "stopped", "down"}]
      /\ pending \in [Gateway -> SUBSET Child]
  BY DEF GenuineDelivery, GenuineAnswers, TypeOK, GatewayTypeOK
<1>1. UNCHANGED <<home, phase, next>>
  BY DEF StopBegin, StopEnd, GatewayRestart
<1>2. \A c \in Child : future'[c].state # "none" => future[c].state # "none"
  BY DEF StopBegin, StopEnd, GatewayRestart
<1>3. \A h \in Gateway : Registered(h)' = Registered(h)
  BY <1>1 DEF Registered, InFlight
<1>4. \A q \in Request : InFlight(q)' <=> InFlight(q)
  BY <1>1 DEF InFlight
<1>5. PendingIsRegistered'
  <2>1. CASE StopBegin(g)
    BY <1>0, <1>3, <2>1 DEF StopBegin, PendingIsRegistered
  <2>2. CASE StopEnd(g)
    BY <1>0, <1>3, <2>2 DEF StopEnd, PendingIsRegistered
  <2>3. CASE GatewayRestart(g)
    BY <1>0, <1>3, <2>3 DEF GatewayRestart, PendingIsRegistered
  <2> QED BY <2>1, <2>2, <2>3
<1> QED
  BY <1>0, <1>1, <1>2, <1>4, <1>5, ChildParts DEF FuturesAreRegistered

LEMMA CrashKeepsRegistry ==
    ASSUME GenuineDelivery, NEW g \in Gateway, GatewayCrash(g)
    PROVE  PendingIsRegistered' /\ FuturesAreRegistered'
<1> DEFINE hit(r) == home[r] = g /\ InFlight(r)
<1>0. /\ PendingIsRegistered /\ FuturesAreRegistered
      /\ gw \in [Gateway -> {"up", "stopping", "stopped", "down"}]
      /\ pending \in [Gateway -> SUBSET Child]
  BY DEF GenuineDelivery, GenuineAnswers, TypeOK, GatewayTypeOK
<1>1. /\ gw' = [gw EXCEPT ![g] = "down"]
      /\ pending' = [pending EXCEPT ![g] = {}]
      /\ \A c \in Child : future'[c] = IF hit(c[1]) THEN NoFuture ELSE future[c]
      /\ \A r \in Request : phase'[r] = IF hit(r) THEN "done" ELSE phase[r]
      /\ UNCHANGED <<home, next>>
  BY DEF GatewayCrash
<1>2. \A r \in Request : InFlight(r)' <=> InFlight(r) /\ home[r] # g
  BY <1>1 DEF InFlight
<1>3. \A h \in Gateway : Registered(h)' = IF h = g THEN {} ELSE Registered(h)
  BY <1>1, <1>2, ChildParts DEF Registered
<1>4. PendingIsRegistered'
  BY <1>0, <1>1, <1>3 DEF PendingIsRegistered
<1>5. FuturesAreRegistered'
  <2> SUFFICES ASSUME NEW c \in Child, future'[c].state # "none"
               PROVE  InFlight(c[1])' /\ c[2] <= next'[c[1]]
    BY DEF FuturesAreRegistered
  <2>1. ~ hit(c[1]) /\ future'[c] = future[c]
    BY <1>1 DEF NoFuture
  <2>2. InFlight(c[1]) /\ c[2] <= next[c[1]]
    BY <1>0, <2>1 DEF FuturesAreRegistered
  <2> QED BY <1>1, <1>2, <2>1, <2>2, ChildParts
<1> QED
  BY <1>4, <1>5

\* A request that a stopping gateway refuses registers nothing.
LEMMA RejectKeepsRegistry ==
    ASSUME GenuineDelivery, NEW r \in Request, NEW g \in Gateway, Reject(r, g)
    PROVE  PendingIsRegistered' /\ FuturesAreRegistered'
<1>0. /\ PendingIsRegistered /\ FuturesAreRegistered
      /\ phase \in [Request -> Phase] /\ home \in [Request -> Gateway \cup {Nil}]
  BY DEF GenuineDelivery, GenuineAnswers, TypeOK, GatewayTypeOK
<1>1. /\ phase[r] = "idle" /\ phase' = [phase EXCEPT ![r] = "done"]
      /\ home' = [home EXCEPT ![r] = g]
      /\ UNCHANGED <<gw, pending, future, next>>
  BY DEF Reject
<1>2. \A q \in Request : /\ InFlight(q)' <=> InFlight(q)
                         /\ InFlight(q) => home'[q] = home[q]
  BY <1>0, <1>1 DEF InFlight
<1>3. \A h \in Gateway : Registered(h)' = Registered(h)
  BY <1>1, <1>2, ChildParts DEF Registered
<1> QED
  BY <1>0, <1>1, <1>2, <1>3, ChildParts DEF PendingIsRegistered, FuturesAreRegistered

----------------------------------------------------------------------------
(* The queues. *)

\* A gateway's step changes work, if at all, by the current child of a running request.
LEMMA GatewayStepKeepsHomes ==
    ASSUME GenuineDelivery, UNCHANGED workerVars, GatewayNormal \/ GatewayFault
    PROVE  HomesStay
<1>0. phase \in [Request -> Phase] /\ home \in [Request -> Gateway \cup {Nil}]
  BY DEF GenuineDelivery, GenuineAnswers, TypeOK, GatewayTypeOK
<1>1. ASSUME NEW r \in Request, NEW g \in Gateway, Accept(r, g) \/ Reject(r, g)
      PROVE  HomesStay
  BY <1>0, <1>1 DEF HomesStay, Accept, Reject, RegisterChild
<1>2. ASSUME NEW r \in Request, RequestStep(r) \/ PushError(r) \/ PushAgain(r)
      PROVE  HomesStay
  <2>1. UNCHANGED home
    BY <1>2 DEF RequestStep, PushError, PushAgain, Push, PushReturns, Collect, TimeoutFires,
                TimeoutFinish, Finish
  <2>2. \E p \in Phase \ {"idle"} : phase' = [phase EXCEPT ![r] = p]
    BY <1>2, Zenon DEF RequestStep, PushError, PushAgain, Push, PushReturns, RegisterChild, Collect, TimeoutFires,
                TimeoutFinish, Finish, Phase
  <2> QED BY <1>0, <2>1, <2>2 DEF HomesStay
<1>3. ASSUME NEW g \in Gateway,
             ListenerStep(g) \/ StopBegin(g) \/ StopEnd(g) \/ GatewayRestart(g) \/ ListenerError(g)
      PROVE  HomesStay
  BY <1>3 DEF HomesStay, ListenerStep, BlpopEmbeddingResult, Deliver, StopBegin, StopEnd,
              GatewayRestart, ListenerError
<1>4. ASSUME NEW g \in Gateway, GatewayCrash(g) PROVE HomesStay
  BY <1>0, <1>4 DEF HomesStay, GatewayCrash
<1> QED
  BY <1>1, <1>2, <1>3, <1>4 DEF GatewayNormal, GatewayFault

LEMMA GatewayStepKeepsQueues ==
    ASSUME GenuineDelivery, UNCHANGED workerVars, GatewayNormal \/ GatewayFault
    PROVE  ItemsKnowTheirHome' /\ ResultsAreHome'
<1>0. /\ ItemsKnowTheirHome /\ ResultsAreHome /\ RequestsAtHome
      /\ HomesStay /\ UNCHANGED batch
  BY GatewayStepKeepsHomes DEF GenuineDelivery, GenuineAnswers, workerVars
<1>1. CASE UNCHANGED <<work, results>>
  BY <1>0, <1>1, QueuesUndisturbed
<1>2. ASSUME NEW r \in Request, Push(r) \/ PushAgain(r)
      PROVE  ItemsKnowTheirHome' /\ ResultsAreHome'
  <2> DEFINE item == WorkItem(r, next[r], home[r])
  <2>1. InFlight(r) /\ home[r] \in Gateway /\ next[r] \in Indexes(r)
    BY <1>0, <1>2 DEF Push, PushAgain, RequestsAtHome, InFlight
  <2>2. item \in HomeItem
    BY <2>1, WorkItemIsGood DEF HomeItem, Sent, WorkItem, InFlight
  <2> HIDE DEF item
  <2>3. work' = [work EXCEPT ![LaneOf[r]] = Append(@, item)] /\ UNCHANGED results
    BY <1>2 DEF Push, PushAgain, EnqueueEmbeddingWork, item
  <2>4. /\ work \in [Lane -> Seq(HomeItem')] /\ batch \in [Worker -> Seq(HomeItem')]
        /\ \A g \in Gateway : results[g] \in Seq(HomeResult(g)')
        /\ item \in HomeItem'
    BY <1>0, <2>2, HomesGrow, ListsStayHome
  <2>5. LaneOf[r] \in Lane /\ Append(work[LaneOf[r]], item) \in Seq(HomeItem')
    BY <2>4, AppendProperties, ConstantsAssumption
  <2> QED BY <1>0, <2>3, <2>4, <2>5 DEF ItemsKnowTheirHome, ResultsAreHome
<1>3. ASSUME NEW g \in Gateway, BlpopEmbeddingResult(g)
      PROVE  ItemsKnowTheirHome' /\ ResultsAreHome'
  <2>1. results[g] # <<>> /\ results' = [results EXCEPT ![g] = Tail(@)] /\ UNCHANGED work
    BY <1>3 DEF BlpopEmbeddingResult, PopResult
  <2>2. /\ work \in [Lane -> Seq(HomeItem')] /\ batch \in [Worker -> Seq(HomeItem')]
        /\ \A h \in Gateway : results[h] \in Seq(HomeResult(h)')
    BY <1>0, ListsStayHome
  <2>3. Tail(results[g]) \in Seq(HomeResult(g)')
    BY <2>1, <2>2, HeadTailProperties
  <2>4. results \in [Gateway -> Seq(Result)]
    BY DEF GenuineDelivery, GenuineAnswers, TypeOK, RedisTypeOK
  <2> QED BY <1>0, <2>1, <2>2, <2>3, <2>4 DEF ItemsKnowTheirHome, ResultsAreHome
<1>4. ASSUME NEW r \in Request, NEW g \in Gateway,
             Accept(r, g) \/ Reject(r, g)
      PROVE  UNCHANGED <<work, results>>
  BY <1>4 DEF Accept, Reject, redisVars
<1>5. ASSUME NEW g \in Gateway,
             \/ Deliver(g) \/ ListenerError(g) \/ StopBegin(g) \/ StopEnd(g)
             \/ GatewayCrash(g) \/ GatewayRestart(g)
      PROVE  UNCHANGED <<work, results>>
  BY <1>5 DEF Deliver, ListenerError, StopBegin, StopEnd, GatewayCrash, GatewayRestart, redisVars
<1>6. ASSUME NEW r \in Request,
             PushReturns(r) \/ Collect(r) \/ TimeoutFires(r) \/ TimeoutFinish(r) \/ PushError(r)
      PROVE  UNCHANGED <<work, results>>
  BY <1>6, Zenon DEF PushReturns, Collect, TimeoutFires, TimeoutFinish, PushError, Finish, redisVars
<1> QED
  BY <1>1, <1>2, <1>3, <1>4, <1>5, <1>6 DEF GatewayNormal, GatewayFault, RequestStep, ListenerStep

\* A step that leaves the gateways alone leaves every home as it is.
LEMMA HomesUndisturbed ==
    ASSUME GenuineDelivery, UNCHANGED gatewayVars
    PROVE  /\ HomeItem' = HomeItem
           /\ \A g \in Gateway : HomeResult(g)' = HomeResult(g)
           /\ PendingIsRegistered' /\ FuturesAreRegistered'
<1>1. UNCHANGED registryVars
  BY DEF gatewayVars, registryVars
<1> QED
  BY <1>1, RegistryUndisturbed
     DEF GenuineDelivery, registryVars, HomeItem, HomeResult, Sent

\* A claim moves items from the list to the batch, or loses them when repeated.
LEMMA ClaimKeepsQueues ==
    ASSUME GenuineDelivery, NEW w \in Worker, ClaimBatch(w) \/ ClaimAgain(w),
           UNCHANGED gatewayVars
    PROVE  ItemsKnowTheirHome' /\ ResultsAreHome'
<1> DEFINE l == WorkerLane[w]
           c == ClaimFrom(l, seen[w])
<1>1. l \in Lane
  BY ConstantsAssumption
<1>2. /\ work \in [Lane -> Seq(HomeItem)] /\ batch \in [Worker -> Seq(HomeItem)]
      /\ \A g \in Gateway : results[g] \in Seq(HomeResult(g))
  BY DEF GenuineDelivery, ItemsKnowTheirHome, ResultsAreHome
<1>3. c.selected \in Seq(HomeItem) /\ c.rest \in Seq(HomeItem)
  <2>1. HomeItem \in SUBSET GoodItem /\ work[l] \in Seq(HomeItem)
    BY <1>1, <1>2 DEF HomeItem
  <2> QED BY <1>1, <2>1, ClaimStaysIn
<1>4. /\ work' = [work EXCEPT ![l] = c.rest]
      /\ batch' = [batch EXCEPT ![w] = c.selected] \/ batch' = batch
      /\ UNCHANGED results
  BY DEF ClaimBatch, ClaimAgain, ClaimEmbeddingBatch, workerVars
<1> HIDE DEF l, c
<1> QED
  BY <1>2, <1>3, <1>4, HomesUndisturbed DEF ItemsKnowTheirHome, ResultsAreHome

\* A result goes to the reply queue its item names, which is its request's home.
LEMMA PublishKeepsQueues ==
    ASSUME GenuineDelivery, NEW w \in Worker, Publish(w) \/ PublishAgain(w),
           UNCHANGED gatewayVars
    PROVE  ItemsKnowTheirHome' /\ ResultsAreHome'
<1> DEFINE item == batch[w][pos[w]]
           res == ResultAt(w, pos[w])
<1>1. /\ work \in [Lane -> Seq(HomeItem)] /\ batch \in [Worker -> Seq(HomeItem)]
      /\ \A g \in Gateway : results[g] \in Seq(HomeResult(g))
      /\ results \in [Gateway -> Seq(Result)]
  BY DEF GenuineDelivery, GenuineAnswers, TypeOK, RedisTypeOK, ItemsKnowTheirHome, ResultsAreHome
<1>2. pos[w] \in 1..Len(batch[w]) /\ res \in GoodResult /\ res.id = item.id
  BY PublishedIsGenuine DEF GenuineDelivery
<1>3. item \in HomeItem
  BY <1>1, <1>2, ElementOfSeq
<1>4. item.reply_to \in Gateway /\ res \in HomeResult(item.reply_to)
  BY <1>2, <1>3 DEF HomeItem, HomeResult, GoodItem, Item, Sent
<1>5. /\ results' = [results EXCEPT ![item.reply_to] = Append(@, res)]
      /\ UNCHANGED <<work, batch>>
  BY DEF Publish, PublishAgain, PushResult
<1> HIDE DEF item, res
<1>6. Append(results[item.reply_to], res) \in Seq(HomeResult(item.reply_to))
  BY <1>1, <1>4, AppendProperties
<1> QED
  BY <1>1, <1>5, <1>6, HomesUndisturbed DEF ItemsKnowTheirHome, ResultsAreHome

LEMMA WorkerStepKeepsQueues ==
    ASSUME GenuineDelivery, WorkerNormal \/ WorkerFault, UNCHANGED gatewayVars
    PROVE  ItemsKnowTheirHome' /\ ResultsAreHome'
<1>1. ASSUME NEW w \in Worker, Publish(w) \/ PublishAgain(w) \/ ClaimBatch(w) \/ ClaimAgain(w)
      PROVE  ItemsKnowTheirHome' /\ ResultsAreHome'
  BY <1>1, PublishKeepsQueues, ClaimKeepsQueues
<1>2. ASSUME NEW w \in Worker,
             \/ ReadClock(w) \/ EmbedOk(w) \/ EmbedFails(w)
             \/ SetTtl(w) \/ WorkerCrash(w) \/ WorkerRestart(w)
      PROVE  ItemsKnowTheirHome' /\ ResultsAreHome'
  <2>1. UNCHANGED <<work, results>>
    BY <1>2 DEF ReadClock, EmbedOk, EmbedFails, SetTtl, WorkerCrash, WorkerRestart, redisVars
  <2>2. batch' = batch \/ batch' = [batch EXCEPT ![w] = <<>>]
    BY <1>2 DEF ReadClock, EmbedOk, EmbedFails, SetTtl, WorkerCrash, WorkerRestart, Forget
  <2>3. <<>> \in Seq(HomeItem)
    OBVIOUS
  <2> QED BY <2>1, <2>2, <2>3, HomesUndisturbed DEF GenuineDelivery, ItemsKnowTheirHome, ResultsAreHome
<1> QED
  BY <1>1, <1>2 DEF WorkerNormal, WorkerFault

LEMMA RedisStepKeepsQueues ==
    ASSUME GenuineDelivery, RedisFault, UNCHANGED <<gatewayVars, workerVars>>
    PROVE  ItemsKnowTheirHome' /\ ResultsAreHome'
<1>1. UNCHANGED gatewayVars /\ UNCHANGED batch
  BY DEF workerVars
<1>2. work' = work \/ work' = [l \in Lane |-> <<>>]
  BY DEF RedisFault, DeadlinePasses, ResultsExpire, RedisLoss
<1>3. \A g \in Gateway : results'[g] = results[g] \/ results'[g] = <<>>
  <2>1. results \in [Gateway -> Seq(Result)]
    BY DEF GenuineDelivery, GenuineAnswers, TypeOK, RedisTypeOK
  <2> QED BY <2>1 DEF RedisFault, DeadlinePasses, ResultsExpire, RedisLoss
<1>4. <<>> \in Seq(HomeItem) /\ \A g \in Gateway : <<>> \in Seq(HomeResult(g))
  OBVIOUS
<1> QED
  BY <1>1, <1>2, <1>3, <1>4, HomesUndisturbed DEF GenuineDelivery, ItemsKnowTheirHome, ResultsAreHome

----------------------------------------------------------------------------
(* The theorems. *)

LEMMA InitIsDelivered == Init => GenuineDelivery
<1> SUFFICES ASSUME Init PROVE GenuineDelivery
  OBVIOUS
<1>1. GenuineAnswers
  BY InitIsGenuine
<1>2. PendingIsRegistered /\ FuturesAreRegistered
  BY ChildParts DEF Init, GatewayInit, PendingIsRegistered, FuturesAreRegistered, Registered, InFlight, NoFuture
<1>3. ItemsKnowTheirHome /\ ResultsAreHome
  BY DEF Init, RedisInit, WorkerInit, ItemsKnowTheirHome, ResultsAreHome
<1> QED
  BY <1>1, <1>2, <1>3 DEF GenuineDelivery

LEMMA GatewayStepKeepsRegistry ==
    ASSUME GenuineDelivery, GatewayNormal \/ GatewayFault
    PROVE  PendingIsRegistered' /\ FuturesAreRegistered'
<1>1. ASSUME NEW r \in Request, NEW g \in Gateway, Accept(r, g) \/ Reject(r, g)
      PROVE  PendingIsRegistered' /\ FuturesAreRegistered'
  BY <1>1, AcceptKeepsRegistry, RejectKeepsRegistry
<1>2. ASSUME NEW r \in Request, RequestStep(r) \/ PushError(r) \/ PushAgain(r)
      PROVE  PendingIsRegistered' /\ FuturesAreRegistered'
  BY <1>2, PushReturnsKeepsRegistry, RunningKeepsRegistry, EndingKeepsRegistry DEF RequestStep
<1>3. ASSUME NEW g \in Gateway,
             \/ ListenerStep(g) \/ ListenerError(g) \/ StopBegin(g) \/ StopEnd(g)
             \/ GatewayRestart(g) \/ GatewayCrash(g)
      PROVE  PendingIsRegistered' /\ FuturesAreRegistered'
  BY <1>3, ListenerKeepsRegistry, StopKeepsRegistry, CrashKeepsRegistry
<1> QED
  BY <1>1, <1>2, <1>3 DEF GatewayNormal, GatewayFault

LEMMA StepIsDelivered == GenuineDelivery /\ [Next]_vars => GenuineDelivery'
<1> SUFFICES ASSUME GenuineDelivery, [Next]_vars PROVE GenuineDelivery'
  OBVIOUS
<1>1. GenuineAnswers'
  BY StepIsGenuine DEF GenuineDelivery
<1>2. CASE (GatewayNormal \/ GatewayFault) /\ UNCHANGED workerVars
  BY <1>1, <1>2, GatewayStepKeepsRegistry, GatewayStepKeepsQueues DEF GenuineDelivery
<1>3. CASE (WorkerNormal \/ WorkerFault) /\ UNCHANGED gatewayVars
  BY <1>1, <1>3, HomesUndisturbed, WorkerStepKeepsQueues DEF GenuineDelivery
<1>4. CASE RedisFault /\ UNCHANGED <<gatewayVars, workerVars>>
  <2>1. UNCHANGED gatewayVars
    BY <1>4
  <2> QED BY <1>1, <1>4, <2>1, HomesUndisturbed, RedisStepKeepsQueues DEF GenuineDelivery
<1>5. CASE UNCHANGED vars
  <2>1. UNCHANGED gatewayVars /\ UNCHANGED <<work, results, batch>>
    BY <1>5 DEF vars, redisVars, workerVars
  <2>2. ItemsKnowTheirHome' /\ ResultsAreHome'
    BY <2>1, HomesUndisturbed DEF GenuineDelivery, ItemsKnowTheirHome, ResultsAreHome
  <2> QED BY <1>1, <2>1, <2>2, HomesUndisturbed DEF GenuineDelivery
<1> QED
  BY <1>2, <1>3, <1>4, <1>5 DEF Next

\* Every reachable state, whatever fails: _pending and the futures belong to what
\* the running requests have registered, and every item and every result is on the
\* way to the gateway that serves its request.
THEOREM GenuineDeliveryInvariant == Spec => []GenuineDelivery
BY InitIsDelivered, StepIsDelivered, PTL DEF Spec

\* _pending neither leaks nor loses an entry while its gateway is up.
THEOREM PendingExactInvariant == Spec => []PendingExact
<1>1. GenuineDelivery => PendingExact
  BY DEF GenuineDelivery, PendingIsRegistered, Registered, PendingExact
<1> QED
  BY <1>1, GenuineDeliveryInvariant, PTL

\* A result waits only in the reply queue of the gateway that serves its request.
THEOREM RepliesGoHomeInvariant == Spec => []RepliesGoHome
<1>1. GenuineDelivery => RepliesGoHome
  <2> SUFFICES ASSUME GenuineDelivery, NEW g \in Gateway, NEW k \in 1..Len(results[g])
               PROVE  home[results[g][k].id[1]] = g
    BY DEF RepliesGoHome
  <2>1. results[g][k] \in HomeResult(g)
    BY ElementOfSeq DEF GenuineDelivery, ResultsAreHome
  <2> QED BY <2>1 DEF HomeResult
<1> QED
  BY <1>1, GenuineDeliveryInvariant, PTL

----------------------------------------------------------------------------
(* Futures. *)

Settled(c) == future[c].state \in {"done", "failed", "cancelled"}

\* What a step may do to a future that has a result.
Kept(c) ==
    \/ future'[c] = future[c]
    \/ future'[c] = NoFuture /\ phase'[c[1]] = "done"

\* A child that is registered now had no future, hence no settled one.
LEMMA RegisteringSettlesNothing ==
    ASSUME GenuineDelivery, NEW r \in Request, NEW i \in Indexes(r), NEW g,
           RegisterChild(r, i, g),
           ~ (InFlight(r) /\ i <= next[r]), NEW c \in Child, Settled(c)
    PROVE  Kept(c)
<1>1. InFlight(c[1]) /\ c[2] <= next[c[1]]
  BY DEF GenuineDelivery, FuturesAreRegistered, Settled
<1>2. c # <<r, i>>
  BY <1>1
<1>3. future' = [future EXCEPT ![<<r, i>>] = PendingFuture] /\ future \in [Child -> Future]
  BY DEF RegisterChild, GenuineDelivery, GenuineAnswers, TypeOK, GatewayTypeOK
<1> QED
  BY <1>2, <1>3 DEF Kept

LEMMA FinishSettlesNothing ==
    ASSUME GenuineDelivery, NEW r \in Request, NEW rep, Finish(r, rep),
           NEW c \in Child, Settled(c)
    PROVE  Kept(c)
<1>1. phase \in [Request -> Phase]
  BY DEF GenuineDelivery, GenuineAnswers, TypeOK, GatewayTypeOK
<1>2. c \in ChildrenOf(r) => c[1] = r
  BY DEF ChildrenOf
<1> QED
  BY <1>1, <1>2 DEF Finish, Kept

LEMMA RequestSettlesNothing ==
    ASSUME GenuineDelivery, NEW r \in Request,
           RequestStep(r) \/ PushError(r) \/ PushAgain(r),
           NEW c \in Child, Settled(c)
    PROVE  Kept(c)
<1>1. CASE Push(r) \/ PushAgain(r)
  BY <1>1 DEF Push, PushAgain, Kept
<1>2. CASE PushReturns(r)
  <2>1. CASE next[r] < Len(Tokens[r])
    <3>1. InFlight(r) /\ next[r] \in Indexes(r)
      BY <1>2 DEF GenuineDelivery, GenuineAnswers, PushReturns, RequestsAtHome, InFlight
    <3>2. next[r] + 1 \in Indexes(r)
      BY <2>1, <3>1, TokensAreCounted DEF Indexes
    <3>3. RegisterChild(r, next[r] + 1, home[r])
      BY <1>2, <2>1 DEF PushReturns
    <3>4. ~ (next[r] + 1 <= next[r])
      BY <3>1, TokensAreCounted DEF Indexes
    <3> QED BY <3>2, <3>3, <3>4, RegisteringSettlesNothing
  <2>2. CASE ~ (next[r] < Len(Tokens[r]))
    BY <1>2, <2>2 DEF PushReturns, Kept
  <2> QED BY <2>1, <2>2
<1>3. CASE \E rep : Finish(r, rep)
  BY <1>3, FinishSettlesNothing
<1>4. CASE TimeoutFires(r)
  BY <1>4 DEF TimeoutFires, Settled, Kept
<1>5. Collect(r) \/ TimeoutFinish(r) \/ PushError(r) => \E rep : Finish(r, rep)
  BY Zenon DEF Collect, TimeoutFinish, PushError
<1> QED
  BY <1>1, <1>2, <1>3, <1>4, <1>5 DEF RequestStep

LEMMA GatewaySettlesNothing ==
    ASSUME GenuineDelivery, NEW g \in Gateway,
           \/ ListenerStep(g) \/ ListenerError(g) \/ StopBegin(g) \/ StopEnd(g)
           \/ GatewayRestart(g) \/ GatewayCrash(g),
           NEW c \in Child, Settled(c)
    PROVE  Kept(c)
<1>1. future \in [Child -> Future]
  BY DEF GenuineDelivery, GenuineAnswers, TypeOK, GatewayTypeOK
<1>2. CASE Deliver(g)
  BY <1>1, <1>2 DEF Deliver, Settled, Kept
<1>3. CASE StopEnd(g)
  BY <1>3 DEF StopEnd, Settled, Kept
<1>4. CASE GatewayCrash(g)
  BY <1>4, ChildParts DEF GatewayCrash, Kept
<1>5. CASE UNCHANGED future
  BY <1>5 DEF Kept
<1> QED
  BY <1>2, <1>3, <1>4, <1>5
     DEF ListenerStep, ListenerError, BlpopEmbeddingResult, StopBegin, GatewayRestart

LEMMA StepKeepsSettled ==
    ASSUME GenuineDelivery, [Next]_vars, NEW c \in Child, Settled(c)
    PROVE  Kept(c)
<1>1. CASE UNCHANGED future
  BY <1>1 DEF Kept
<1>2. CASE GatewayNormal \/ GatewayFault
  <2>1. ASSUME NEW r \in Request, NEW g \in Gateway, Accept(r, g)
        PROVE  Kept(c)
    <3>1. 1 \in Indexes(r)
      BY TokensAreCounted
    <3>2. RegisterChild(r, 1, g) /\ ~ InFlight(r)
      BY <2>1 DEF Accept, InFlight
    <3> QED BY <3>1, <3>2, RegisteringSettlesNothing
  <2>2. ASSUME NEW r \in Request, NEW g \in Gateway, Reject(r, g)
        PROVE  UNCHANGED future
    BY <2>2 DEF Reject
  <2> QED BY <1>1, <1>2, <2>1, <2>2, RequestSettlesNothing, GatewaySettlesNothing
          DEF GatewayNormal, GatewayFault
<1> QED
  BY <1>1, <1>2 DEF Next, vars, gatewayVars

\* A settled future keeps its result until its request is answered: neither a late
\* or repeated answer, nor stop(), nor the registration of another child replaces it.
THEOREM FuturesSettleOnceHolds == Spec => FuturesSettleOnce
<1> DEFINE Once == \A c \in Child :
                      future[c].state \in {"done", "failed", "cancelled"} =>
                          \/ future'[c] = future[c]
                          \/ future'[c] = NoFuture /\ phase'[c[1]] = "done"
<1>1. GenuineDelivery /\ [Next]_vars => [Once]_vars
  BY StepKeepsSettled DEF Settled, Kept
<1>2. FuturesSettleOnce <=> [][Once]_vars
  BY DEF FuturesSettleOnce
<1> HIDE DEF Once
<1> QED
  BY <1>1, <1>2, GenuineDeliveryInvariant, PTL DEF Spec

----------------------------------------------------------------------------
(* The client's view. *)

Failed == {Reply(s, <<>>) : s \in Status \ {"none", "ok"}}

LEMMA InitImplements == Init => Api!ApiInit
BY DEF Init, GatewayInit, Api!ApiInit, ApiState

\* A step that keeps what the client sees.
LEMMA InvisibleStep ==
    ASSUME UNCHANGED response,
           \A r \in Request : /\ phase'[r] = "idle" <=> phase[r] = "idle"
                              /\ phase'[r] = "done" <=> phase[r] = "done"
    PROVE  UNCHANGED Api!apiVars
<1>1. ApiState = [r \in Request |-> IF phase[r] = "idle" THEN "unsent"
                                   ELSE IF phase[r] = "done" THEN "answered" ELSE "open"]
  BY DEF ApiState
<1>2. ApiState' = [r \in Request |-> IF phase'[r] = "idle" THEN "unsent"
                                    ELSE IF phase'[r] = "done" THEN "answered" ELSE "open"]
  BY DEF ApiState
<1>3. ApiState' = ApiState
  BY <1>1, <1>2
<1> QED
  BY <1>3 DEF Api!apiVars

\* A coroutine ends with its own vectors or with a failure.
LEMMA FinishImplements ==
    ASSUME GenuineAnswers, NEW r \in Request, InFlight(r), NEW rep, Finish(r, rep),
           rep \in Failed \/ rep = Reply("ok", OwnVectors[r])
    PROVE  Api!ApiNext
<1>1. phase' = [phase EXCEPT ![r] = "done"] /\ phase \in [Request -> Phase]
      /\ response' = [response EXCEPT ![r] = rep]
  BY DEF Finish, GenuineAnswers, TypeOK, GatewayTypeOK
<1>2. ApiState[r] = "open" /\ ApiState' = [ApiState EXCEPT ![r] = "answered"]
  BY <1>1 DEF ApiState, InFlight
<1>3. CASE rep \in Failed
  <2>1. Api!Fail(r)
    BY <1>1, <1>2, <1>3 DEF Api!Fail, Failed
  <2> QED BY <2>1 DEF Api!ApiNext
<1>4. CASE rep = Reply("ok", OwnVectors[r])
  <2>1. Api!Serve(r)
    BY <1>1, <1>2, <1>4 DEF Api!Serve
  <2> QED BY <2>1 DEF Api!ApiNext
<1> QED
  BY <1>3, <1>4

LEMMA CollectImplements ==
    ASSUME GenuineAnswers, NEW r \in Request, Collect(r)
    PROVE  Api!ApiNext
<1>1. InFlight(r)
  BY DEF Collect, InFlight
<1>2. CASE Finish(r, Reply("error", <<>>))
  <2>1. Reply("error", <<>>) \in Failed
    BY DEF Failed, Status
  <2> QED BY <1>1, <1>2, <2>1, FinishImplements
<1>3. CASE /\ \A c \in ChildrenOf(r) : future[c].state = "done"
           /\ Finish(r, Reassemble(Gathered(r)))
  <2> DEFINE rep == Reassemble(Gathered(r))
  <2>1. \A i \in Indexes(r) : /\ future[<<r, i>>].value \in GoodResult
                              /\ future[<<r, i>>].value.id = <<r, i>>
    BY <1>3, ChildOf DEF GenuineAnswers, FuturesAreGenuine
  <2>2. rep = Reply("bad_gateway", <<>>) \/ rep = Reply("ok", [i \in Indexes(r) |-> <<r, i>>])
    BY <2>1, ReassemblyIsGenuine
  <2>3. OwnVectors[r] = [i \in Indexes(r) |-> <<r, i>>] /\ Reply("bad_gateway", <<>>) \in Failed
    BY DEF OwnVectors, Failed, Status
  <2> HIDE DEF rep
  <2> QED BY <1>1, <1>3, <2>2, <2>3, FinishImplements DEF rep
<1> QED
  BY <1>2, <1>3 DEF Collect

\* The other ways a coroutine moves.
LEMMA RequestImplements ==
    ASSUME GenuineAnswers, NEW r \in Request,
           RequestStep(r) \/ PushError(r) \/ PushAgain(r)
    PROVE  Api!ApiNext \/ UNCHANGED Api!apiVars
<1>0. phase \in [Request -> Phase]
  BY DEF GenuineAnswers, TypeOK, GatewayTypeOK
<1>1. CASE Collect(r)
  BY <1>1, CollectImplements
<1>2. CASE PushError(r) \/ TimeoutFinish(r)
  <2>1. InFlight(r)
    BY <1>2 DEF PushError, TimeoutFinish, InFlight
  <2>2. PICK rep \in {Reply("error", <<>>), Reply("timeout", <<>>)} : Finish(r, rep)
    BY <1>2 DEF PushError, TimeoutFinish
  <2>3. rep \in Failed
    BY DEF Failed, Status
  <2> QED BY <2>1, <2>2, <2>3, FinishImplements
<1>3. CASE Push(r) \/ PushAgain(r) \/ PushReturns(r) \/ TimeoutFires(r)
  <2>1. \E p \in Phase \ {"idle", "done"} : phase' = [phase EXCEPT ![r] = p]
    BY <1>3, Zenon DEF Push, PushAgain, PushReturns, RegisterChild, TimeoutFires, Phase
  <2>2. UNCHANGED response /\ phase[r] # "idle" /\ phase[r] # "done"
    BY <1>3 DEF Push, PushAgain, PushReturns, TimeoutFires
  <2>3. \A q \in Request : /\ phase'[q] = "idle" <=> phase[q] = "idle"
                           /\ phase'[q] = "done" <=> phase[q] = "done"
    BY <1>0, <2>1, <2>2
  <2> QED BY <2>2, <2>3, InvisibleStep
<1> QED
  BY <1>1, <1>2, <1>3 DEF RequestStep

LEMMA ArrivalImplements ==
    ASSUME GenuineAnswers, NEW r \in Request, NEW g \in Gateway, Accept(r, g) \/ Reject(r, g)
    PROVE  Api!ApiNext
<1>0. phase \in [Request -> Phase]
  BY DEF GenuineAnswers, TypeOK, GatewayTypeOK
<1>1. CASE Accept(r, g)
  <2>1. phase[r] = "idle" /\ phase' = [phase EXCEPT ![r] = "push"] /\ UNCHANGED response
    BY <1>1 DEF Accept, RegisterChild
  <2>2. ApiState[r] = "unsent" /\ ApiState' = [ApiState EXCEPT ![r] = "open"]
    BY <1>0, <2>1 DEF ApiState
  <2>3. Api!Submit(r)
    BY <2>1, <2>2 DEF Api!Submit
  <2> QED BY <2>3 DEF Api!ApiNext
<1>2. CASE Reject(r, g)
  <2>1. /\ phase[r] = "idle" /\ phase' = [phase EXCEPT ![r] = "done"]
        /\ response' = [response EXCEPT ![r] = Reply("unavailable", <<>>)]
    BY <1>2 DEF Reject
  <2>2. ApiState[r] = "unsent" /\ ApiState' = [ApiState EXCEPT ![r] = "answered"]
    BY <1>0, <2>1 DEF ApiState
  <2>3. Reply("unavailable", <<>>) \in Failed
    BY DEF Failed, Status
  <2>4. Api!Refuse(r)
    BY <2>1, <2>2, <2>3 DEF Api!Refuse, Failed
  <2> QED BY <2>4 DEF Api!ApiNext
<1> QED
  BY <1>1, <1>2

\* A gateway that dies loses the connections of the requests it runs.
LEMMA CrashImplements ==
    ASSUME GenuineAnswers, NEW g \in Gateway, GatewayCrash(g)
    PROVE  Api!ApiNext
<1> DEFINE S == {r \in Request : home[r] = g /\ InFlight(r)}
<1>1. /\ phase' = [r \in Request |-> IF r \in S THEN "done" ELSE phase[r]]
      /\ response' = [r \in Request |-> IF r \in S THEN Reply("lost", <<>>) ELSE response[r]]
  BY DEF GatewayCrash
<1>2. \A r \in S : ApiState[r] = "open"
  BY DEF ApiState, InFlight
<1>3. ApiState' = [r \in Request |-> IF r \in S THEN "answered" ELSE ApiState[r]]
  <2> HIDE DEF S
  <2> QED BY <1>1 DEF ApiState
<1>4. Reply("lost", <<>>) \in Failed
  BY DEF Failed, Status
<1>5. S \in SUBSET Request
  OBVIOUS
<1> HIDE DEF S
<1>6. Api!LoseConnections(S)
  BY <1>1, <1>2, <1>3, <1>4 DEF Api!LoseConnections, Failed
<1> QED
  BY <1>5, <1>6 DEF Api!ApiNext

LEMMA StepImplements == GenuineAnswers /\ [Next]_vars => [Api!ApiNext]_Api!apiVars
<1> SUFFICES ASSUME GenuineAnswers, [Next]_vars
             PROVE  Api!ApiNext \/ UNCHANGED Api!apiVars
  OBVIOUS
<1>1. CASE UNCHANGED <<phase, response>>
  <2>1. \A q \in Request : /\ phase'[q] = "idle" <=> phase[q] = "idle"
                           /\ phase'[q] = "done" <=> phase[q] = "done"
    BY <1>1
  <2> QED BY <1>1, <2>1, InvisibleStep
<1>2. CASE GatewayNormal \/ GatewayFault
  <2>1. ASSUME NEW g \in Gateway,
               ListenerStep(g) \/ StopEnd(g) \/ StopBegin(g) \/ GatewayRestart(g) \/ ListenerError(g)
        PROVE  UNCHANGED <<phase, response>>
    BY <2>1 DEF ListenerStep, BlpopEmbeddingResult, Deliver, StopEnd, StopBegin, GatewayRestart, ListenerError
  <2> QED BY <1>1, <1>2, <2>1, ArrivalImplements, RequestImplements, CrashImplements
          DEF GatewayNormal, GatewayFault
<1> QED
  BY <1>1, <1>2 DEF Next, vars, gatewayVars

\* Whatever fails, and however many requests, gateways and workers there are: a
\* request is answered at most once, with its own vectors or with a failure, and
\* queues, batches and workers are invisible to its client.
THEOREM ImplementsApiHolds == Spec => ImplementsApi
<1>1. Spec => Api!ApiInit
  BY InitImplements DEF Spec
<1> QED
  BY <1>1, StepImplements, GenuineAnswersInvariant, PTL DEF Spec, ImplementsApi, Api!ApiSpec

=============================================================================
