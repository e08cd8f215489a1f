------------------------ MODULE GatewayBatchingClient ------------------------
(***************************************************************************)
(* GatewayBatchingClient (batching_client.py): the bridge between a        *)
(* synchronous HTTP request and the Redis queues.  Each gateway process    *)
(* runs one coroutine per request, one listener task and, at shutdown,     *)
(* stop().  asyncio switches only at an await, so an action is the code    *)
(* between two awaits; a Redis command takes effect in Redis in one action *)
(* and returns to its coroutine in another.                                *)
(***************************************************************************)
EXTENDS RedisBatchQueue

VARIABLES
    gw,         \* [Gateway -> {"up", "stopping", "stopped", "down"}]
    inhand,     \* [Gateway -> Result or Nil]: popped, not yet handed to a future
    pending,    \* [Gateway -> SUBSET Child]: the keys of _pending
    future,     \* [Child -> future]: the future created for a child
    home,       \* [Request -> Gateway or Nil]: the gateway serving a request
    phase,      \* [Request -> where its coroutine is]
    next,       \* [Request -> index of the child being enqueued]
    response    \* [Request -> what the client received]

gatewayVars == <<gw, inhand, pending, future, home, phase, next, response>>

\* idle: not sent.  push: awaiting RPUSH.  pushed: Redis has executed it.
\* repushed: and executed it again, for the client's retry of a lost reply.
\* wait: awaiting wait_for(gather).  cancelling: wait_for has cancelled it.
Phase == {"idle", "push", "pushed", "repushed", "wait", "cancelling", "done"}

InFlight(r) == phase[r] \notin {"idle", "done"}

NoFuture == [state |-> "none", value |-> Nil]
PendingFuture == [state |-> "pending", value |-> Nil]

Future == [state : {"none", "pending", "done", "failed", "cancelled"},
           value : Result \cup {Nil}]

\* The response statuses, by what raises them:
\*   ok           200, the embeddings;
\*   bad_gateway  the status a failed child reports, or 502 at reassembly;
\*   timeout      504;    unavailable  503;    error  500;
\*   lost         the process died with the connection.
Status == {"none", "ok", "bad_gateway", "timeout", "unavailable", "error", "lost"}

Reply(status, vectors) == [status |-> status, data |-> vectors]

NoReply == Reply("none", <<>>)

GatewayTypeOK ==
    /\ gw \in [Gateway -> {"up", "stopping", "stopped", "down"}]
    /\ inhand \in [Gateway -> Result \cup {Nil}]
    /\ pending \in [Gateway -> SUBSET Child]
    /\ future \in [Child -> Future]
    /\ home \in [Request -> Gateway \cup {Nil}]
    /\ phase \in [Request -> Phase]
    /\ next \in [Request -> Nat]
    /\ response \in [Request -> [status : Status, data : Seq(Child)]]

GatewayInit ==
    /\ gw = [g \in Gateway |-> "up"]
    /\ inhand = [g \in Gateway |-> Nil]
    /\ pending = [g \in Gateway |-> {}]
    /\ future = [c \in Child |-> NoFuture]
    /\ home = [r \in Request |-> Nil]
    /\ phase = [r \in Request |-> "idle"]
    /\ next = [r \in Request |-> 0]
    /\ response = [r \in Request |-> NoReply]

----------------------------------------------------------------------------
(* _enqueue_and_wait_for_children *)

\* The future is stored in _pending before the item is sent to Redis.
RegisterChild(r, i, g) ==
    /\ future' = [future EXCEPT ![<<r, i>>] = PendingFuture]
    /\ pending' = [pending EXCEPT ![g] = @ \cup {<<r, i>>}]
    /\ next' = [next EXCEPT ![r] = i]
    /\ phase' = [phase EXCEPT ![r] = "push"]

\* A request reaches a gateway that is not closed.
Accept(r, g) ==
    /\ phase[r] = "idle"
    /\ gw[g] = "up"
    /\ home' = [home EXCEPT ![r] = g]
    /\ RegisterChild(r, 1, g)
    /\ UNCHANGED <<redisVars, gw, inhand, response>>

\* A request reaches a gateway that has started to stop.
Reject(r, g) ==
    /\ phase[r] = "idle"
    /\ gw[g] \in {"stopping", "stopped"}
    /\ home' = [home EXCEPT ![r] = g]
    /\ phase' = [phase EXCEPT ![r] = "done"]
    /\ response' = [response EXCEPT ![r] = Reply("unavailable", <<>>)]
    /\ UNCHANGED <<redisVars, gw, inhand, pending, future, next>>

\* Redis executes the RPUSH of the current child.
Push(r) ==
    /\ phase[r] = "push"
    /\ EnqueueEmbeddingWork(LaneOf[r], WorkItem(r, next[r], home[r]))
    /\ phase' = [phase EXCEPT ![r] = "pushed"]
    /\ UNCHANGED <<results, ttl, expired, gw, inhand, pending, future, home, next, response>>

\* The reply to the RPUSH is lost and redis-py (6 and later) sends it again.  It
\* retries three times; one retry is enough for a duplicate.
PushAgain(r) ==
    /\ phase[r] = "pushed"
    /\ EnqueueEmbeddingWork(LaneOf[r], WorkItem(r, next[r], home[r]))
    /\ phase' = [phase EXCEPT ![r] = "repushed"]
    /\ UNCHANGED <<results, ttl, expired, gw, inhand, pending, future, home, next, response>>

\* The RPUSH returns: register the next child, or wait for all of them.
PushReturns(r) ==
    /\ phase[r] \in {"pushed", "repushed"}
    /\ IF next[r] < Len(Tokens[r])
       THEN RegisterChild(r, next[r] + 1, home[r])
       ELSE /\ phase' = [phase EXCEPT ![r] = "wait"]
            /\ UNCHANGED <<future, pending, next>>
    /\ UNCHANGED <<redisVars, gw, inhand, home, response>>

\* Mutant: the finally block forgets to pop the children.
FinishWithoutPop(r, reply) ==
    /\ future' = [c \in Child |-> IF c \in ChildrenOf(r) THEN NoFuture ELSE future[c]]
    /\ phase' = [phase EXCEPT ![r] = "done"]
    /\ response' = [response EXCEPT ![r] = reply]
    /\ UNCHANGED <<redisVars, gw, inhand, pending, home, next>>

\* The finally block, and the end of the coroutine with its futures.
Finish(r, reply) ==
    /\ pending' = [pending EXCEPT ![home[r]] = @ \ ChildrenOf(r)]
    /\ future' = [c \in Child |-> IF c \in ChildrenOf(r) THEN NoFuture ELSE future[c]]
    /\ phase' = [phase EXCEPT ![r] = "done"]
    /\ response' = [response EXCEPT ![r] = reply]
    /\ UNCHANGED <<redisVars, gw, inhand, home, next>>

\* The RPUSH raises, whether or not Redis executed it: the exception leaves the
\* coroutine, and the children already enqueued stay in the work list.
PushError(r) ==
    /\ phase[r] \in {"push", "pushed", "repushed"}
    /\ Finish(r, Reply("error", <<>>))

\* Mutant: the vectors are put together in the wrong direction.
ReassembleBackwards(res) ==
    LET n == Len(res)
    IN  IF \E k \in 1..n : ~res[k].ok
        THEN Reply("bad_gateway", <<>>)
        ELSE Reply("ok", [j \in 1..n |-> res[n + 1 - j].embedding])

\* What the coroutine makes of the gathered results.
Reassemble(res) ==
    LET n == Len(res)
        Last(j) == CHOOSE k \in 1..n :
                      res[k].index = j /\ \A m \in (k + 1)..n : res[m].index # j
    IN  IF \/ \E k \in 1..n : ~res[k].ok \/ res[k].embedding = Nil
           \/ \E j \in 1..n : \A k \in 1..n : res[k].index # j
        THEN Reply("bad_gateway", <<>>)
        ELSE Reply("ok", [j \in 1..n |-> res[Last(j)].embedding])

Gathered(r) == [i \in Indexes(r) |-> future[<<r, i>>].value]

\* gather raises the first exception set on a future, or returns every result.
Collect(r) ==
    /\ phase[r] = "wait"
    /\ \/ /\ \E c \in ChildrenOf(r) : future[c].state = "failed"
          /\ Finish(r, Reply("error", <<>>))
       \/ /\ \A c \in ChildrenOf(r) : future[c].state = "done"
          /\ Finish(r, Reassemble(Gathered(r)))

\* Mutant: a first result disarms the timer.
TimeoutFiresIfUntouched(r) ==
    /\ phase[r] = "wait"
    /\ r \in expired
    /\ \A c \in ChildrenOf(r) : future[c].state = "pending"
    /\ future' = [c \in Child |->
                     IF c \in ChildrenOf(r)
                     THEN [state |-> "cancelled", value |-> Nil] ELSE future[c]]
    /\ phase' = [phase EXCEPT ![r] = "cancelling"]
    /\ UNCHANGED <<redisVars, gw, inhand, pending, home, next, response>>

\* wait_for's timer fires while the gather is unfinished: it cancels the futures
\* that have no result (Python 3.11, the image's version: a finished gather wins).
TimeoutFires(r) ==
    /\ phase[r] = "wait"
    /\ r \in expired
    /\ \E c \in ChildrenOf(r) : future[c].state = "pending"
    /\ \A c \in ChildrenOf(r) : future[c].state # "failed"
    /\ future' = [c \in Child |->
                     IF c \in ChildrenOf(r) /\ future[c].state = "pending"
                     THEN [state |-> "cancelled", value |-> Nil] ELSE future[c]]
    /\ phase' = [phase EXCEPT ![r] = "cancelling"]
    /\ UNCHANGED <<redisVars, gw, inhand, pending, home, next, response>>

\* The cancelled gather ends, and the coroutine raises 504.
TimeoutFinish(r) ==
    /\ phase[r] = "cancelling"
    /\ Finish(r, Reply("timeout", <<>>))

----------------------------------------------------------------------------
(* _listen_for_results *)

\* Redis executes the BLPOP.
BlpopEmbeddingResult(g) ==
    /\ gw[g] = "up"
    /\ inhand[g] = Nil
    /\ PopResult(g)
    /\ inhand' = [inhand EXCEPT ![g] = Head(results[g])]
    /\ UNCHANGED <<work, expired, gw, pending, future, home, phase, next, response>>

\* Mutant: the listener does not ask whether the future is done.
DeliverRegardless(g) ==
    /\ inhand[g] # Nil
    /\ LET c == inhand[g].id
       IN  IF c \in pending[g]
           THEN future' = [future EXCEPT ![c] = [state |-> "done", value |-> inhand[g]]]
           ELSE UNCHANGED future
    /\ inhand' = [inhand EXCEPT ![g] = Nil]
    /\ UNCHANGED <<redisVars, gw, pending, home, phase, next, response>>

\* The BLPOP returns: resolve the future, unless the id is unknown or the future
\* already done, in which case the result is dropped.
Deliver(g) ==
    /\ inhand[g] # Nil
    /\ LET c == inhand[g].id
       IN  IF c \in pending[g] /\ future[c].state = "pending"
           THEN future' = [future EXCEPT ![c] = [state |-> "done", value |-> inhand[g]]]
           ELSE UNCHANGED future
    /\ inhand' = [inhand EXCEPT ![g] = Nil]
    /\ UNCHANGED <<redisVars, gw, pending, home, phase, next, response>>

\* The connection fails after Redis popped the result: the listener logs the
\* exception, sleeps and goes on; the result is gone.
ListenerError(g) ==
    /\ inhand[g] # Nil
    /\ inhand' = [inhand EXCEPT ![g] = Nil]
    /\ UNCHANGED <<redisVars, gw, pending, future, home, phase, next, response>>

----------------------------------------------------------------------------
(* stop, and the life of the process *)

\* stop() up to its await: no more requests, and the listener is cancelled at
\* its await with whatever it was receiving.
StopBegin(g) ==
    /\ gw[g] = "up"
    /\ gw' = [gw EXCEPT ![g] = "stopping"]
    /\ inhand' = [inhand EXCEPT ![g] = Nil]
    /\ UNCHANGED <<redisVars, pending, future, home, phase, next, response>>

\* The rest of stop(): fail every pending future and forget them all.  Coroutines
\* that are still enqueueing go on, and register their next children again.
StopEnd(g) ==
    /\ gw[g] = "stopping"
    /\ gw' = [gw EXCEPT ![g] = "stopped"]
    /\ future' = [c \in Child |->
                     IF c \in pending[g] /\ future[c].state = "pending"
                     THEN [state |-> "failed", value |-> Nil] ELSE future[c]]
    /\ pending' = [pending EXCEPT ![g] = {}]
    /\ UNCHANGED <<redisVars, inhand, home, phase, next, response>>

\* The process dies: its requests lose their connections, its memory is gone.
GatewayCrash(g) ==
    LET hit(r) == home[r] = g /\ InFlight(r)
    IN  /\ gw[g] # "down"
        /\ gw' = [gw EXCEPT ![g] = "down"]
        /\ inhand' = [inhand EXCEPT ![g] = Nil]
        /\ pending' = [pending EXCEPT ![g] = {}]
        /\ future' = [c \in Child |-> IF hit(c[1]) THEN NoFuture ELSE future[c]]
        /\ phase' = [r \in Request |-> IF hit(r) THEN "done" ELSE phase[r]]
        /\ response' = [r \in Request |->
                           IF hit(r) THEN Reply("lost", <<>>) ELSE response[r]]
        /\ UNCHANGED <<redisVars, home, next>>

\* start() in the restarted container: the pod's name, hence the reply queue, is
\* the same, so results of the previous life are still addressed to it.
GatewayRestart(g) ==
    /\ gw[g] = "down"
    /\ gw' = [gw EXCEPT ![g] = "up"]
    /\ UNCHANGED <<redisVars, inhand, pending, future, home, phase, next, response>>

----------------------------------------------------------------------------
\* One step of the coroutine serving r.
RequestStep(r) ==
    Push(r) \/ PushReturns(r) \/ Collect(r) \/ TimeoutFires(r) \/ TimeoutFinish(r)

\* One step of a gateway's listener.
ListenerStep(g) == BlpopEmbeddingResult(g) \/ Deliver(g)

=============================================================================
