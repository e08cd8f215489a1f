--------------------------- MODULE BatchingSystem ---------------------------
(***************************************************************************)
(* The batched path of the service: gateways and batch workers that meet   *)
(* only in Redis, under whichever faults a configuration enables.          *)
(***************************************************************************)
EXTENDS GatewayBatchingClient, BatchWorker, FiniteSets

CONSTANT
    Faults        \* the faults that may happen, a subset of FaultKind

\* deadline        a request outlives its timeout;
\* vllm            vLLM fails;
\* push_error      an RPUSH of work raises in the gateway;
\* listener_error  a BLPOP loses what it popped;
\* retry           redis-py repeats a command that was executed;
\* worker_crash, gateway_crash, stop      of a process;
\* redis_loss      Redis restarts empty;
\* ttl             a result list outlives its expiry.
FaultKind == {"deadline", "vllm", "push_error", "listener_error", "retry",
              "worker_crash", "gateway_crash", "stop", "redis_loss", "ttl"}

ASSUME FaultsAssumption == Faults \subseteq FaultKind

vars == <<redisVars, gatewayVars, workerVars>>

TypeOK == RedisTypeOK /\ GatewayTypeOK /\ WorkerTypeOK

Init == RedisInit /\ GatewayInit /\ WorkerInit

----------------------------------------------------------------------------
\* Wall-clock time passes deadline_ms of a request that has one.
DeadlinePasses(r) ==
    /\ phase[r] # "idle"
    /\ r \notin expired
    /\ expired' = expired \cup {r}
    /\ UNCHANGED <<work, results, ttl>>

GatewayNormal ==
    \/ \E r \in Request, g \in Gateway : Accept(r, g) \/ Reject(r, g)
    \/ \E r \in Request : RequestStep(r)
    \/ \E g \in Gateway : ListenerStep(g) \/ StopEnd(g) \/ GatewayRestart(g)

GatewayFault ==
    \/ \E r \in Request : "push_error" \in Faults /\ PushError(r)
    \/ \E r \in Request : "retry" \in Faults /\ PushAgain(r)
    \/ \E g \in Gateway : "listener_error" \in Faults /\ ListenerError(g)
    \/ \E g \in Gateway : "stop" \in Faults /\ StopBegin(g)
    \/ \E g \in Gateway : "gateway_crash" \in Faults /\ GatewayCrash(g)

WorkerNormal ==
    \E w \in Worker : \/ ReadClock(w) \/ ClaimBatch(w) \/ EmbedOk(w)
                      \/ Publish(w) \/ SetTtl(w) \/ WorkerRestart(w)

WorkerFault ==
    \E w \in Worker : \/ "vllm" \in Faults /\ EmbedFails(w)
                      \/ "retry" \in Faults /\ (ClaimAgain(w) \/ PublishAgain(w))
                      \/ "worker_crash" \in Faults /\ WorkerCrash(w)

RedisFault ==
    \/ \E r \in Request : "deadline" \in Faults /\ DeadlinePasses(r)
    \/ \E g \in Gateway : "ttl" \in Faults /\ ResultsExpire(g)
    \/ "redis_loss" \in Faults /\ RedisLoss

Next ==
    \/ (GatewayNormal \/ GatewayFault) /\ UNCHANGED workerVars
    \/ (WorkerNormal \/ WorkerFault) /\ UNCHANGED gatewayVars
    \/ RedisFault /\ UNCHANGED <<gatewayVars, workerVars>>

Spec == Init /\ [][Next]_vars

----------------------------------------------------------------------------
(* Where a child is. *)

Pushed(c) ==
    \/ c[2] < next[c[1]]
    \/ c[2] = next[c[1]] /\ phase[c[1]] # "push"

\* The positions of w's batch that have no result in Redis yet.
Unpublished(w) ==
    LET n == Len(batch[w])
    IN  CASE wpc[w] = "embed" -> 1..n
          [] wpc[w] = "publish" -> pos[w]..n
          [] wpc[w] \in {"expire", "reexpire"} -> (pos[w] + 1)..n
          [] OTHER -> {}

\* The copies of child c between the gateway's RPUSH and its own future.
Copies(c) ==
    UNION {
        UNION {{<<"work", l, k>> : k \in {j \in 1..Len(work[l]) : work[l][j].id = c}} :
                  l \in Lane},
        UNION {{<<"batch", w, k>> : k \in {j \in Unpublished(w) : batch[w][j].id = c}} :
                  w \in Worker},
        UNION {{<<"result", g, k>> : k \in {j \in 1..Len(results[g]) : results[g][j].id = c}} :
                  g \in Gateway},
        {<<"hand", g>> : g \in {h \in Gateway : inhand[h] # Nil /\ inhand[h].id = c}}}

----------------------------------------------------------------------------
(* Safety *)

\* A 200 carries one vector per input of its own request, in input order, however
\* children of several requests were batched, answered, repeated or lost
\* (batch_worker.py's zip, batching_client.py's listener and reassembly).
AnswersMatchInputs ==
    \A r \in Request :
        response[r].status = "ok" => response[r].data = [i \in Indexes(r) |-> <<r, i>>]

\* A child whose future is still pending at a live gateway, and whose deadline has
\* not passed, is somewhere between the gateway and its future: no step drops
\* work or an answer somebody can still use (the claim script's trim, the
\* worker's loop over its batch, the listener's unknown-id branch).
NeverLost ==
    \A c \in Child :
        LET r == c[1]
        IN  /\ InFlight(r) /\ Pushed(c)
            /\ gw[home[r]] = "up"
            /\ future[c].state = "pending"
            /\ r \notin expired
            => Copies(c) # {}

\* A child is never in two places at once, and never anywhere once its future
\* has a result: the claim's read-and-trim is atomic and nothing is redelivered,
\* so no input is embedded twice, whoever crashes.
AtMostOnce ==
    \A c \in Child :
        Cardinality(Copies(c)) + (IF future[c].state = "done" THEN 1 ELSE 0) <= 1

\* _pending holds exactly the children a live gateway's running requests have
\* registered: no path out of _enqueue_and_wait_for_children leaks an entry, and
\* no running request has lost one, which would leave it deaf to its result.
PendingExact ==
    \A g \in Gateway :
        gw[g] = "up" => pending[g] = {c \in Child : /\ home[c[1]] = g
                                                    /\ InFlight(c[1])
                                                    /\ c[2] <= next[c[1]]}

\* A result waits only in the reply queue of the gateway that serves its request
\* (reply_to), even when a worker's batch mixes requests of several gateways.
RepliesGoHome ==
    \A g \in Gateway :
        \A k \in 1..Len(results[g]) : home[results[g][k].id[1]] = g

\* The tokens vLLM gets when items are embedded together.
TokensOf(items) ==
    LET sum[k \in 0..Len(items)] ==
            IF k = 0 THEN 0 ELSE sum[k - 1] + TokenCount(items[k].id)
    IN  sum[Len(items)]

\* A batch exceeds the token budget only when it is a single input that does so by
\* itself: the budget holds for what is added to a batch, whatever was dropped or
\* claimed by another worker before.
BatchWithinBudget ==
    \A w \in Worker : Len(batch[w]) <= 1 \/ TokensOf(batch[w]) <= Budget[WorkerLane[w]]

\* A future is settled once: a late, repeated or cancelled answer never replaces
\* the one that is there (future.done() in the listener and in stop()); it only
\* disappears with its request.
FuturesSettleOnce ==
    [][\A c \in Child :
          future[c].state \in {"done", "failed", "cancelled"} =>
              \/ future'[c] = future[c]
              \/ future'[c] = NoFuture /\ phase'[c[1]] = "done"]_vars

----------------------------------------------------------------------------
(* Refinement *)

OwnVectors == [r \in Request |-> [i \in Indexes(r) |-> <<r, i>>]]

ApiState ==
    [r \in Request |-> CASE phase[r] = "idle" -> "unsent"
                         [] phase[r] = "done" -> "answered"
                         [] OTHER -> "open"]

Api == INSTANCE EmbeddingApi
           WITH Vectors <- OwnVectors,
                Failures <- {Reply(s, <<>>) : s \in Status \ {"none", "ok"}},
                OkReply <- LAMBDA vectors : Reply("ok", vectors),
                state <- ApiState,
                reply <- response

\* The batched path implements the client's view of it: whatever the faults, a
\* request is answered at most once, with its own vectors or with a failure.
ImplementsApi == Api!ApiSpec

\* The station of a child that has copies in several places is the furthest.
StationOf(c) ==
    LET holds(seq) == \E k \in 1..Len(seq) : seq[k].id = c
    IN  IF \E g \in Gateway : inhand[g] # Nil /\ inhand[g].id = c THEN "received"
        ELSE IF \E g \in Gateway : holds(results[g]) THEN "replied"
        ELSE IF \E w \in Worker : \E k \in Unpublished(w) : batch[w][k].id = c THEN "claimed"
        ELSE IF \E l \in Lane : holds(work[l]) THEN "queued"
        ELSE IF ~Pushed(c) /\ phase[c[1]] # "done" THEN "unsent"
        ELSE "gone"

Life == INSTANCE ChildLife WITH place <- [c \in Child |-> StationOf(c)]

\* Unless redis-py repeats a command, a child passes through the queues once,
\* station by station: crashes, expiry and the loss of Redis drop it, but never
\* put it back (RPUSH, the claim script, publish_embedding_result and BLPOP).
ImplementsChildLife == Life!LifeSpec

----------------------------------------------------------------------------
(* Fairness and liveness *)

\* Every ready coroutine of a live gateway gets its turn: uvicorn's event loop
\* is cooperative, and each Redis command it awaits returns or raises.  Time
\* passes.
GatewayFairness ==
    /\ \A r \in Request : /\ WF_vars(RequestStep(r) /\ UNCHANGED workerVars)
                          /\ WF_vars(DeadlinePasses(r) /\ "deadline" \in Faults
                                        /\ UNCHANGED <<gatewayVars, workerVars>>)
    /\ \A g \in Gateway : /\ WF_vars(ListenerStep(g) /\ UNCHANGED workerVars)
                          /\ WF_vars(StopEnd(g) /\ UNCHANGED workerVars)

\* A worker's loop keeps turning, and Kubernetes restarts its container.  Strong
\* fairness: a worker that is restarted again and again does claim in the end.
WorkerFairness ==
    \A w \in Worker :
        /\ SF_vars(ReadClock(w) /\ UNCHANGED gatewayVars)
        /\ SF_vars(ClaimBatch(w) /\ UNCHANGED gatewayVars)
        /\ WF_vars((EmbedOk(w) \/ Publish(w) \/ SetTtl(w)) /\ UNCHANGED gatewayVars)
        /\ WF_vars(WorkerRestart(w) /\ UNCHANGED gatewayVars)

\* Redis expires a list that has an expiry.
RedisFairness ==
    \A g \in Gateway : WF_vars("ttl" \in Faults /\ ResultsExpire(g)
                                 /\ UNCHANGED <<gatewayVars, workerVars>>)

GatewayFairSpec == Spec /\ GatewayFairness
FairSpec == Spec /\ GatewayFairness /\ WorkerFairness /\ RedisFairness

\* Every request is answered, even if no worker ever runs and Redis forgets
\* everything: the timer alone is enough (wait_for, stop's exceptions, and the
\* exceptions of an RPUSH cover every way of waiting).
EveryRequestAnswered == Api!ApiAnswers

\* When nothing fails, every request is served: no batch boundary, no oversized
\* input and no order of claims starves a child.
EveryRequestServed ==
    \A r \in Request : InFlight(r) ~> response[r].status = "ok"

\* The work lists drain: neither an oversized head, nor expired items, nor
\* children orphaned by failed requests block a lane.
WorkDrains == \A l \in Lane : []<>(work[l] = <<>>)

\* A late result eventually expires in Redis (docs/README.md).
LateResultsExpire ==
    \A g \in Gateway : results[g] # <<>> ~> results[g] = <<>>

\* As long as no worker dies it does, however the RPUSH and the EXPIRE of several
\* workers, the BLPOP of the gateway and its crashes interleave.
PublishedResultsExpire ==
    [](\A w \in Worker : wpc[w] # "down") => LateResultsExpire

=============================================================================
