# Verification of the batched embedding service

TLA+ models, TLC runs and TLAPS proofs for the service in `src/`: an
OpenAI-style `/v1/embeddings` gateway that splits a request into one *child* per
input, hands the children to batch workers through Redis lists, and puts the
answers together again; and for what watches those lists, the queue gauges and
the replica recommendation.  Paths below are relative to the repository.

Contents: [inventory](#inventory), [plan](#plan), [modules](#modules-and-code),
[runs](#runs), [fairness](#fairness), [proofs](#proofs), [findings](#findings),
[what is not modelled](#not-modelled).

## Inventory

| Part (source) | State | Operations | What makes it correct |
|---|---|---|---|
| Gateway batching client (`app/batching_client.py`) | `_pending` (child id -> future), `_closed`, one coroutine per request, one listener task, the pending gauges | `embed_query`/`embed_documents`, `_enqueue_and_wait_for_children`, `_listen_for_results`, `start`, `stop` | every request is answered once, with its own vectors in input order; `_pending` neither leaks nor loses an entry; a future is settled once; a gauge hides no waiting child |
| Redis batch queue (`app/redis_batch_queue.py`, `redis_keys.py`, `queue_models.py`) | a work list per workload, a result list per gateway, an expiry per result list | RPUSH, claim script, BLPOP, RPUSH+EXPIRE, peek and range reads | a claim is atomic, takes a prefix, keeps the token budget, drops only what is dead or unreadable, never blocks a lane |
| Batch worker (`app/batch_worker.py`) | the claimed batch, in memory only; counters of batches | window, claim, embed, publish one result per item | each item gets its own vector, sent to its own gateway; a failure reaches every item of the batch; no live item waits out a window that is not its own; the counters account for every batch |
| vLLM client and normalization (`app/vllm_client.py`, `response_normalization.py`) | none | one HTTP call; sort and check the answer | a normalized answer has one vector per input, in input order, or is refused |
| Service and routing (`app/embeddings.py`, `workload.py`, `model_registry.py`, `schemas.py`) | the request metrics | validate, classify, choose lane and path, count tokens | a request takes exactly one path with all its inputs; the metrics agree with each other and with the answers |
| Queue inspection, exporter, metrics (`app/queue_inspection.py`, `metrics_exporter.py`, `metrics.py`) | gauges, one registry per process | summarise the first N entries of each lane, every few seconds | after failures the gauges reach the queue again; no negative ages |
| Autoscaling (`app/autoscaling.py`) | none | `recommend_replicas` | the least number of replicas that drains in time, within bounds, never falling as the backlog grows |
| HTTP application (`app/main.py`) | the lifespan's objects, the gateway's queue and autoscaling gauges | start and stop, `/debug/queues`, `/debug/autoscaling`, error mapping | overlapping debug requests do not mix their readings; a failed one sets nothing |
| Authentication, tokenization, configuration (`app/auth.py`, `tokenization.py`, `config.py`) | none | one pure function each | - |

### How they interact

```
 HTTP client        gateway process                   Redis                          worker process
   | request  -> coroutine: register, RPUSH child -> work list of the lane
   |               (one child after the other)         |  peek, window, claim script -> batch -> vLLM
   |                                                   |                                |
   |             listener: BLPOP <- result list of the gateway <- RPUSH, EXPIRE, per item
   | response <- coroutine: gather, or timeout         |
                                                       |  LRANGE
                debug endpoints, metrics exporter  <---+  -> gauges, recommendation
```

Gateways and workers share nothing but the lists.  A work item carries the
gateway's result list (`reply_to`), the child's id and its index; a result
carries id and index back.  The claim script *removes* what it returns and
nothing is acknowledged or redelivered, so delivery is at most once, and the
gateway's timer is what turns every loss into an answer (504).  The exporter and
the debug endpoints only read the lists, by one LRANGE per lane.

### What is hard here

* Interleaving: the first child may be answered before the second is enqueued;
  batches mix children of several requests and gateways; two workers claim from
  one list; the timer, the listener and `stop()` race for one future; two debug
  requests write the same gauges between their awaits.
* Failure: a gateway or worker that dies between any two commands, a Redis that
  restarts empty, an RPUSH that raises after Redis executed it, a BLPOP whose
  reply is lost, commands repeated by the client library, a batch that fails half
  way, a refresh that raises for one lane's settings.
* Time: deadlines compared with a clock read before the script runs, a window
  computed from an item others may claim meanwhile, clocks of several hosts, list
  expiry set by a second command.
* Boundaries: an input larger than the budget, a window full of expired items,
  `max_items = 0`, entries that are no work items, a lane without replicas.

`PROJECT.json` lists these under "hazards", each at its line and with the
properties that would catch it.

## Plan

Done, in order of importance: the batched path (`WorkItems` ...
`BatchingSystem`) with its two abstract specifications `EmbeddingApi` and
`ChildLife`; the service in front of it (`EmbeddingsService`) and the
normalization both callers of vLLM rely on (`ResponseNormalization`); the work
list in time, with entries nobody can read (`WorkQueue`); the metrics of the
batched path (`BatchingMetrics`); the replica formula (`Autoscaling`,
`LaneAutoscaler`) and the readers of the queues (`QueueMonitor`).

Every invariant, action property and refinement that a run checks is proved as well.
What is left is worth less: the relation between `WorkQueue`'s timed work list
and the one of `BatchingSystem` could be stated as a refinement, and the bound of
`NoIdleWaiting` carried from a worker's sleep to the time an item is in the list.

## Modules and code

| Module | Models | Correspondence |
|---|---|---|
| `WorkItems` | `queue_models.py`, child ids | the constants, their assumptions, and the records that travel |
| `ClaimScript` | the Lua script in `redis_batch_queue.py:12-54` | one operator per branch of the loop; the loop is a recursive *function* over iterations, so that it can be proved about |
| `RedisBatchQueue` | the other Redis commands | one operator per command, since Redis executes a command at a time; `publish_embedding_result` is two |
| `GatewayBatchingClient` | `batching_client.py` | an action is the code between two awaits |
| `BatchWorker` | `batch_worker.py` | the loop, from reading the clock to the last EXPIRE |
| `BatchingSystem` | all of it together | `Next`, the faults, the properties, the refinements, fairness |
| `EmbeddingApi` | the client's view | a request is answered once, by its own vectors or a failure |
| `ChildLife` | the queues' promise | a child passes the stations in order, each once, or is lost |
| `BatchingMetrics` | `_set_pending_metrics`, the worker's batch counters | `BatchingSystem` with two variables that nothing reads |
| `WorkQueue` | `_wait_for_batch_window`, the peek, the script on entries of four kinds | the worker's loop against a clock; the script's loop is `ClaimScript`'s |
| `ResponseNormalization` | `response_normalization.py` | one operator per check and the stable sort, over answers with missing, repeated and malformed fields |
| `EmbeddingsService` | `embeddings.py`, `workload.py`, the outcomes of `vllm_client.py`, truncation | a request awaits once, so it is two actions: up to the await (`Refuse`, `TokenizerRaises`, `Dispatch`) and from it |
| `Autoscaling` | `autoscaling.py` | one operator per line of the formula |
| `LaneAutoscaler` | one lane's refreshes | `Refresh` is `_set_autoscaling_metrics` for any backlog |
| `QueueMonitor` | `queue_inspection.py`, the loop of `metrics_exporter.py`, the debug endpoints of `main.py` | a reader's LRANGE is two actions, executed and returned; what is computed between awaits is one action |
| `BatchingInvariant` | - | the inductive invariants `GenuineAnswers` and `GenuineDelivery` |
| `ClaimScriptProofs` | - | theorems about the claim script alone |
| `BatchingProofs`, `ConservationProofs`, `BatchingMetricsProofs` | - | theorems about the batched path: answers, delivery and refinement; where a child's copies are; the metrics |
| `WorkQueueProofs`, `QueueMonitorProofs`, `ServiceProofs`, `AutoscalingProofs` | - | theorems about the module of that name (`ServiceProofs` has the normalization's too) |
| `MC...` | - | constants of the runs |

Operators whose comment starts with "Mutant:" are plausible bugs; no
specification uses them.  Each is put in the place of the operator that follows
it to see that the property in `PROJECT.json` "mutants" notices.

### State

* `work`, `results`, `ttl`: the lists, and whether a result list has an expiry.
  Redis deletes a list and its expiry with the last element, so popping the last
  element clears `ttl`.
* `expired`: the requests whose `deadline_ms` is in the past.  In the batched path
  time is this set and nothing else: it grows at any moment.  A worker compares
  deadlines with the clock it read *before* it sent the script (`seen`).  There is one
  clock here; what differing clocks do is `WorkQueue`'s subject.
* `pending`, `future`: `_pending` is a dictionary from id to future; the key set and the
  futures are kept apart, because a coroutine holds its futures in a local list
  after `stop()` has cleared the dictionary.
* `phase`, `next`, `home`, `response`: where a request's coroutine stands, the child
  it is enqueueing, its gateway, and what the client got.
* `gw`: `stopping` is between the await of the listener in `stop()` and the code
  that fails the pending futures.
* `wpc`, `seen`, `batch`, `data`, `pos`: a worker's program counter and locals.
* `BatchingMetrics`: `gauge` is the pending gauge per gateway and lane, `counted` a
  worker's counters of claimed, completed and failed batches.
* `EmbeddingsService`: `pc` is the path a request waits on, `handed` the children (or
  the inputs of the direct call) it was given with their token counts, `answered`
  vLLM's data list; `routed`, `counted`, `errors` and `timed` are the routing counters, the
  request and the error counter and the count of the latency histogram, shared by
  concurrent requests.
* `WorkQueue`: `kind` says of every entry what the three readers make of it, `created`
  is the stamp it carries and `pushed` the moment it arrived; `fate` is what became
  of it; `now` and `wake` are a worker's locals, and `walked` (auxiliary) is how many
  entries the empty claim removed after which it pauses.
* `QueueMonitor`: `reader` is where an exporter or a debug request stands in its pass over
  the lanes; `gauge` is what each process's registry shows, with the reader that set it
  (`by`, auxiliary); `present` and `settings` are chosen once.

### Decisions worth knowing

* A text is its child's name, and so is its vector, so "the right vector" is "the
  vector of that name".  Error texts and status codes are abstracted to `Status`.
* A Redis command is two actions of the gateway, executed and returned, so that
  a result can overtake the reply to the RPUSH that caused it.  `PushError` is
  possible before and after the execution.
* `wait_for` has the semantics of Python 3.11, which the image uses: a finished
  gather wins over the timer, and cancelling reaches the coroutine in a later step
  (`cancelling`), during which results still arrive.
* The timer starts when enqueueing is over, the deadline counts from the
  start; the timer may therefore fire any time after the deadline.
* redis-py 6 and later (requirements are unpinned upwards) repeats a command
  whose reply was lost: fault `retry`.  It may do so three times, the model once,
  which is enough for a duplicate.  With older versions the fault cannot happen;
  properties that need its absence are checked without it.
* `stop()` may run at any time, although uvicorn calls it after the requests
  have drained unless its grace period ends: that is the harder case.
* A client that disconnects does not cancel its handler, so disconnects are invisible.
  Nor is a request of the service cancelled otherwise: uvicorn is started without a grace limit.
* `EmbeddingsService` sees the batching client through the promise of `EmbeddingApi`,
  which `BatchingSystem` implements: the vectors of what it was given, or a failure.
  `BatchWorker` sees vLLM through `FaithfulAnswersAreAligned`: vectors in input order,
  or a failure.  That vLLM numbers its entries as it should is assumed there;
  `DirectDataIsSorted` says what happens when it does not.
* The tokenizer is external.  A text is the number of its tokens, its prefix
  included.  Truncation decodes the kept ids to text (`tokenization.py:50`), and that text
  is tokenized again (`embeddings.py:98`): the count found then, `clipped`, may be any,
  above the context too.
* In `BatchingSystem` the batch window is only a delay before the claim, which
  interleaving covers; `WorkQueue` gives it a clock.  There workers in `Prompt`
  step before the next tick unless they are waiting or embedding; others may fall
  behind.  Time is the slowest worker's clock; another worker's is ahead of it by its
  `Lead`.  A stamp is behind the moment of the push by at most `Delay` (children of a
  request share one stamp, and the gateway's clock may be slow) and ahead of it by at
  most `Skew`.  `Horizon` stands for every later moment.
* What cjson and pydantic make of an entry is modelled by its effect: a valid item;
  text cjson cannot decode, which the script drops; an object without the item's
  fields, an array or a string, which the script takes (a field it cannot find is 0)
  and the worker's validation refuses; and a number, a boolean, null or an object with a
  `deadline_ms` or `token_count` that is no number, on which the script itself raises.
  Only a writer other than this gateway's code produces the last three, e.g. another release.
* `autoscaling.py` computes in floats, `Autoscaling` in exact integers; the floor of
  1e-9 under its divisor is below every product of the integers.
  `current_replicas` is a setting, not a measurement, and never changes.
* Registries are per process: the exporter's gauges and the gateway's are different ones, so
  `QueueMonitor` looks at one deployment at a time.  Closing a connection is assumed
  not to raise.  Garbage carries no stamp.

## Runs

"Around the budget" means token counts such that one input fits, two do not, or
one exceeds the budget alone.

| Run | Instance and faults | Shows |
|---|---|---|
| `conservation` | a query and a two-input document on two lanes, one gateway, a worker on the document lane; deadlines, vLLM failures, failing RPUSHes, `stop()` | `NeverLost`: a child whose request can still use an answer is in exactly the places between gateway and future, never nowhere. `PendingExact`: `_pending` is exactly what running requests registered. `GaugeHidesNothing`, `GaugeExactForOneLane`: what the pending gauges can be relied on for. `BatchesAddUp`: every claimed batch is counted as completed or failed, once |
| `crashes` | two document requests, two gateways, one worker, one lane; every crash, lost BLPOP replies, list expiry, Redis loss | `GenuineAnswers` (the inductive invariant), `AtMostOnce`, `RepliesGoHome`, `BatchWithinBudget`; the refinements `ImplementsApi` and `ImplementsChildLife` |
| `requests_answered` | one two-input request; every fault but list expiry, repeated commands included; fairness for the gateway only | every accepted request is answered, workers or not (`EveryRequestAnswered`), by its own vectors if by any (`AnswersMatchInputs`), and duplicates never unsettle a future (`FuturesSettleOnce`) |
| `requests_served` | two requests, two gateways, two workers on one lane, an input over the budget; no faults | every request gets a 200 |
| `recovery` | a three-input request, two workers that crash and restart, a gateway that crashes, a deadline, failing RPUSHes, list expiry | `WorkDrains`: nothing blocks a lane. `PublishedResultsExpire`: as long as no worker dies, results left in a list expire, however RPUSH, EXPIRE and BLPOP interleave |
| `late_result_ttl` (violated) | one request, worker and gateway crashes | a worker that dies between RPUSH and EXPIRE leaves a list without expiry |
| `service` | a request of every kind, under each combination of the batching switches and with any answer of vLLM's, next to a plain one | `NothingDropped`, `MetricsAgree`, `AnswersCoverInputs`, `DirectDataIsSorted` |
| `work_queue` | two workers, one of which may lag and has its clock ahead, two items and an entry of any kind, stamps on either side of the clock | `NoIdleWaiting`: how long a live item can wait while a worker sleeps. `BatchOutlivedWindow`, `DropsOnlyDead`: what the claim keeps and drops, however the clocks differ. `LossIsBounded`: what a malformed object costs |
| `unreadable` (violated) | one worker, an unreadable entry at the head | `MalformedLeaves`: it stays for ever |
| `gauge_mixed` (violated) | both lanes at one gateway, no fault | `GaugeCountsItsLane`: a lane's gauge counts the other's children |
| `recommendations` | 401 settings, 12 backlogs | `LeastThatDrains`, `GaugesAgree`, `MoreWorkNeverFewerReplicas` |
| `queue_monitor` | an exporter, or two overlapping debug requests, over lists longer than the scan limit; skewed clocks, a Redis that fails, settings one lane of which may be rejected | `GatewayGaugesOfOneRequest`, `ErrorsSetNothing`, `GaugesConverge`, `MonitorTypeOK` (which has the ages) |

### Bounds

In the batched path no state is bounded by a guard: each request is sent once, so
every list is finite.  The instances have at most two requests and three children, which is
what the properties need: a *second* child of one request (order of answers, a
result that overtakes the enqueueing, a half-failed request), a *second* request
(mixed batches, orphans ahead of live items), a second gateway (misdirected
results) and a second worker (racing claims, racing EXPIREs).  Positions of a
batch and a list beyond the second bring no new case to a loop that treats every
position alike; that is what the proofs confirm for every size.  `MaxItems` is two (the
window cuts the list) or zero (Redis reads -1 as the end).  One repetition of a
command stands for several.

`EmbeddingsService` has limits of two tokens for a query, three for the context and three inputs, so
that `InputLists` has counts below, at and beyond each; a text that is cut may come back
empty, shorter, as long as the context or longer.  The second request is there to
move the shared counters while the first waits.

`WorkQueue`: pushes happen until `LastArrival` = 1, a deadline is three ticks after the
stamp, stamps and the second worker's clock are off by at most one tick, and the clock
stops at `Horizon` = 6, after every deadline (`QueueAssumption` requires it).  The window of two ticks is shorter than the deadline, so
an item can expire during it, and longer than the difference of two arrivals, so that a
second item can be there when it ends.

`QueueMonitor`: a scan limit of two, with three entries, hides one; `MaxTime` and `Skew` of one tick
are what a negative age needs.  `LaneAutoscaler` takes the settings of
`tests/test_autoscaling.py` next to all small ones.

Requests, gateways and workers are model values without symmetry, since their
token counts and lanes differ.

Deadlock is checked in every run but three: `service` stops when every request is
answered, and the clock of `work_queue` and `unreadable` stops at `Horizon`.

## Fairness

`GatewayFairness`: asyncio's loop is cooperative and runs every ready coroutine;
steps of a request, of a listener and the end of `stop()` are weakly fair.  That a
Redis command returns or raises is an assumption about Redis and the network:
the code sets no socket timeout, and enqueueing is outside `wait_for`, so a Redis
that neither answers nor closes the connection would hold a request for ever.
Wall-clock time passes, so deadlines are weakly fair.  `EveryRequestAnswered` needs
only this: it holds with workers that never run.

`WorkerFairness`: the loop has no exit, and Kubernetes (or compose) restarts the
container, so the worker's steps and its restart are weakly fair.  Reading the
clock and claiming are strongly fair: a worker that crashes again and again
disables them again and again, and weak fairness would let it crash before every claim for
ever.  `WorkDrains` and `EveryRequestServed` use this.  That vLLM answers in the
end is its HTTP timeout's doing; `EmbedOk` is fair only in that some answer comes.

`RedisFairness`: Redis expires a list that has an expiry.

`WorkQueue!FairSpec`: time passes, and each worker's loop turns.  The `unreadable`
counterexample is one in which workers are restarted for ever.

`MonitorFairSpec`: the exporter's loop goes on while Redis answers.  `GaugesConverge`
speaks of runs that come to rest (`Calm`: Redis stays up, lists and clock change no
more), since gauges chase a list that keeps changing.

Nothing is assumed of crashes, restarts of gateways, `stop()`, lost replies or arrivals.

## Proofs

`tlapm` checks the eight modules named `...Proofs`.  The statements hold for every
value of the constants that satisfies the assumptions of the modules, i.e. for any number of
requests, inputs, gateways, workers, lanes, readers and entries, any settings and
any set of faults.  A hypothesis beyond that is part of the theorem's statement and
is named below.

| Proofs about | Assumptions |
|---|---|
| the batched path and its metrics | `ConstantsAssumption`, `NilAssumption` of `WorkItems`, `FaultsAssumption` |
| the work list in time | `QueueAssumption` |
| the service | `ServiceAssumption`, `MarkersAssumption` |
| the recommendation | `SettingsAssumption`, `BacklogAssumption` |
| the readers of the queues | `MonitorAssumption`, `NilAssumption` of `QueueMonitor` |

The `NilAssumption`s say that "nothing" is no gateway, no result, no moment and no
gauge, as None is not in the code.

### The claim script

**`ClaimTakesLivePrefix`**: a claim removes a prefix of the work list, a
non-empty one unless the list is empty, and returns exactly the live items of that
prefix, in order and each position once (`Picks`).  Nothing else is lost, nothing is returned
twice, and no list can be stuck.  The argument is the loop invariant `LoopInv` over `LoopStates`.
`LoopStatesEquation` shows that the recursive function satisfies its equation
and `LoopBodyKeepsInv` that an iteration keeps the invariant; `LoopInvHolds` then
takes the least iteration that would break it (`LeastNumber`).  `ClaimWalk` says what
`WorkQueue` needs besides: the walk ends early only when something was selected.

**`ClaimKeepsBudget`**: what a claim returns is within the budget, or a single item.
The loop invariant has the script's running total equal to the sum of what is
selected (`TotalsOfAppend`).  **`BatchWithinBudgetInvariant`** (`Spec =>
[]BatchWithinBudget`) carries it over: a worker's batch changes only by a claim.

### The batched path

**`AnswersMatchInputsInvariant`**: `Spec => []AnswersMatchInputs`.  The property
speaks of responses only and is not inductive: a response is put together from futures,
futures are filled from results, results are zipped from vectors and items, items
were trimmed out of lists.  `GenuineAnswers` says of every place on this way that what is
there names its own child: items and results carry their index, vectors are
aligned with the batch while the worker publishes, a done future holds its own
child's result, a running request has a gateway and a valid index, and everything has its
type.  `GenuineAnswersInvariant` is the same theorem for the whole chain.
The proof has a lemma per action (`...IsGenuine` and the like) and
`StepIsGenuine` puts them together.  The claim's step uses `ClaimTakesLivePrefix`'s
lemmas: what is claimed, and what stays, was in the list.

**`PendingExactInvariant`**, **`RepliesGoHomeInvariant`**: neither property is
inductive.  That `_pending` is what requests have registered depends on which futures
may exist at all; that no result is in a stranger's list depends on the items still queued
and on those in a worker's hands.  `GenuineDelivery` adds to `GenuineAnswers` that
`_pending` holds the registered children unless `stop()` cleared it, that futures
exist for registered children only, and that every item and result in transit names the
gateway its request was sent to.  A request's gateway never changes once it is sent, so the
sets `HomeItem` and `HomeResult` only grow, and a step that moves an item or a result
keeps it in them.

**`FuturesSettleOnceHolds`** is an action property: from `GenuineDelivery`, the
only steps that touch a settled future are those that end its request.  Registering
creates futures only for a child without one, which `FuturesAreRegistered` guarantees.

**`ImplementsApiHolds`**: `Spec => ImplementsApi`.  Initial states of the
system are initial states of `EmbeddingApi` (`InitImplements`), and under `GenuineAnswers`
every step is one of its steps or invisible to it (`StepImplements`).  `Collect` is the step that
needs the invariant: the futures it gathers hold their own children's vectors, so its 200 is the one the
abstract specification allows.

### Where a child's copies are

`Copies(c)` is the set of places, in the work lists, the unpublished part of a batch, the
result lists and the listeners' hands, that hold child `c`.  `Whereabouts`
(**`WhereaboutsInvariant`**, no hypothesis) adds to `GenuineDelivery` that a listener holds a result of
its own gateway, that no worker's clock is ahead of time, and that an unsent request
has enqueued nothing.

**`EachOnceInvariant`**, **`AtMostOnceInvariant`**, **`ImplementsChildLifeHolds`** assume
`"retry" \notin Faults`: with a repeated RPUSH a child *is* in two places.  Every other
fault is allowed.  `AtMostOnce` is not inductive, because it does not
exclude a copy of a child that was not pushed yet; `EachOnce` does.  The step is
`Flows(c)`: every copy after the step comes from a copy before it, in the same kind of place
or the one before (`Onward`), and a single copy stays single.  Each action flows
(`ClaimFlows`, `PublishFlows`, `BlpopFlows`, ...) or adds the first copy of a child
that had none (`PushAddsOne`).  Flowing preserves "one at most" and moves
a child along the stations of `ChildLife`, so the refinement falls out of the same lemmas.

**`NeverLostInvariant`** assumes `Faults \cap Lossy = {}`.  The five faults of `Lossy` do lose
children that somebody waits for: a repeated claim drops the first one's answer,
a lost BLPOP reply the result in it, a crashed worker its batch, Redis and list
expiry their lists.  Deadlines, failing RPUSHes, vLLM failures, `stop()` and crashes
of gateways remain.  `Waits(c)` is the premise of the property, `StepOfWaiting` says that only
the end of an RPUSH makes it true, and `Keeps(c)` that a step which does not falsify it leaves
a copy: the claim drops no child whose deadline is to come, since the clock it
uses is not ahead (`ClocksArePast`), and a listener drops no child that is in its
`_pending` (`HandIsNotDropped`).

### The metrics of the batched path

A step of `MetricsSpec` is a step of `Spec`, so `Whereabouts` holds there too
(`MetricsSpecIsSpec`).  **`BatchesAddUpInvariant`** follows a worker from claim to its last
EXPIRE (`WorkerMoves`).  **`GaugeHidesNothingInvariant`** and
**`GaugeExactForOneLaneInvariant`** compare cardinalities, so `_pending` must be finite, which no
type says (`PendingIsFinite`); and they need that `_pending` changes only by a request of the
lane whose gauge is set, or with the process (`PendingMoves`), except in `stop()`, which
only shrinks it.  A request that was not sent has no home (`UnsentHasNoHome`), so a
gateway of one lane stays one until another lane's request sets that lane's gauge.

### The work list in time

`QueueInv` has the types, the conjuncts named here, and two of the properties themselves.  What was
pushed was pushed in the past, with a stamp at most `Skew` ahead (`PushesArePast`).  The list is in
order of its pushes, each entry once (`ListIsQueue`), and nothing queued was pushed before the entry
a worker peeked at (`PeekedIsFirst`), which stays true when others claim that entry,
because they claim prefixes.  So the sleep a worker computes from the entry it peeked is
short for every queued entry (`SleepsAreShort`), and
**`NoIdleWaitingInvariant`** follows with `PromptWakes`: the clock does not pass the end of
a prompt worker's sleep.  A pause follows a claim that returned nothing, hence
emptied the list or walked over `max_items` dead entries (`ClaimOutcome`,
`EmptyClaimDrops`), which is the exception in the property; with `max_items` 0 there is
none.  **`DropsOnlyDeadInvariant`** and **`BatchOutlivedWindowInvariant`** compare the clock
a worker read with the list's (`LoopTimes`): it is no later than the worker's own clock now,
and no earlier than its last sleep ended.  For the first, a stamp is at most `Delay` behind the
push, so a client loses at most `Delay` and the worker's lead of its timeout; where both are 0,
nothing is dropped that a client still waits for.  For the second, a batch's
entries are claimed and their stamps are not written again (`BatchIsClaimed`).
**`QueueTypeOK`** bounds a window by `max_wait_ms` even if the stamp is from the future.

**`LossIsBoundedInvariant`** assumes `MaxItems # 0`.  A claim whose batch does not validate loses at most
`max_items` entries, of which one is malformed and itself counted as the object that cost
them (cardinalities of finite sets: `FiniteLoss`); with `max_items = 0`, which `config.py` admits, the script reads the whole list and there is no bound.

### The readers of the queues

**`GatewayGaugesOfOneRequestInvariant`** and **`ErrorsSetNothingInvariant`** rest on what neither says:
that the gauges shown were set by a request that *was answered well*
(`QueuesOfOneRequest`, `ScalingOfOneRequest`), while a request that a step answers with an error
was not answered before (`AnsweredAtTheEnd`).  `OutcomesOfAStep` sorts the steps of readers
into four: it concerns no answer, it refuses, it sets the queue gauges, or all of
them at once.  The exporter's gauges are another registry's.

**`MonitorTypeOKInvariant`** is more than types.  That lists are no longer than there are entries
needs that no entry is pushed twice (`SentOnce`; an injection of the positions into
the entries); that an age is a number needs that scanned items carry a stamp;
that a backlog is one needs the sum over a finite set.  The
community module defines that sum by a recursive function, chosen by CHOOSE, so
`SumExists` first shows that such a function exists for every finite set, by
the least size at which it would not.  That a debug request has the stats of every lane when it
sets the gauges is `CollectsInOrder`.

### Normalization and the service

**`SortedByIndexIsStable`**: for any list of entries with integer indexes the sort of
the normalizer is the stable sort: every entry once, indexes that do not decrease,
equal ones in their old order.  The rank of an entry is the number of entries
ahead of it; an entry ahead of another has the smaller rank (its set of
predecessors is a proper subset), so ranks are an injection of the positions into
an interval of the same size, hence onto it.

**`FaithfulAnswersAreAligned`**: an answer of any length whose entries number the
inputs, in any order and with or without explicit indexes, is normalized to the inputs' vectors
in input order.  There the rank of an entry is its index, because the entries ahead of
it have exactly the smaller indexes.

**`AnswersCoverInputsInvariant`**, **`DirectDataIsSortedInvariant`**,
**`NothingDroppedInvariant`**: the three properties of `EmbeddingsService` about what a
request hands over and gets back.  `ServiceInv` says of each request where it is, that what
it was handed is whole (`HandedOK`), and the two properties of its reply.  A step moves
one request (`OthersKeep`), so it suffices to follow that one through each action.
`Dispatch` rests on `HandedIsWhole`: the query lane is taken by one-input requests only,
so the first input with the total of all is the whole request.  Nothing is assumed of
what the tokenizer makes of a truncated text.  `VllmAnswers` rests on
the two theorems above, and on `AcceptedIsSorted`: an answer with status "ok" had no entry that is
not, which needs that the first faulty entry exists (`FirstFaultIsFaulty`).

**`MetricsAgreeInvariant`**: `CountersInv` relates each counter to the *set* of requests that
are now on a path: what is routed to a lane is what was timed there plus the
requests still waiting, and what is counted as unknown are those refused before
they had a path.  Requests need not be finite in number, but those that
started are (`FewStarted`), so a step adds or removes one.  `ErrorsInv` does the same for
the error counter, by the status of the answers.

### The recommendation

`GaugesAreComputed`: what is shown is the recommendation for the backlog shown.  From it
and three lemmas on the ceiling (`CeilDivIsCeiling`, `CeilDivIsLeast`, `CeilDivMonotone`) follow
**`RecommendationIsLeast`**, **`RecommendationIsMonotone`** (an action property) and
**`RecommendationAgreesWithDrainTime`**.

### Only model-checked

Liveness, which is out of the prover's reach: `EveryRequestAnswered`,
`EveryRequestServed`, `WorkDrains`, `PublishedResultsExpire` and `GaugesConverge`.  So are the
counterexamples under [findings](#findings), which are about one instance by nature.
That a model does what the code does is established by neither: the map in
`PROJECT.json` names the lines to compare.

## Findings

With a run that shows them:

* `app/redis_batch_queue.py:92-93`: RPUSH and EXPIRE are not atomic.  A worker that
  dies between them leaves a result list that never expires if its gateway is gone
  too (`late_result_ttl`); `docs/README.md:702` promises the opposite.  The next
  result for the same gateway, or its restart under the same name, repairs it.
* `app/redis_batch_queue.py:29`: JSON that is a number, a boolean or null, or an object whose
  `deadline_ms` or `token_count` is not a number, makes the script raise before its LTRIM.  The
  worker dies, and its replacement meets the same head (`unreadable`).  The comment at `:26`
  says a malformed head item should not poison the queue forever; that is true only of text
  cjson cannot decode, and of JSON the script takes for an item without fields.
* `app/batching_client.py:271`: each lane's pending gauge is set to the size of the
  whole `_pending` (`gauge_mixed`), against the description at `app/metrics.py:40`.

Met while modelling, without a run of their own:

* `app/redis_batch_queue.py:35`: an oversized input is claimed alone, over the
  target.  That is needed for it to be served at all (`requests_served`), but
  `README.md:75` and `README.md:202` state the target as a bound.
* `app/embeddings.py:151` with `app/workload.py:26-28`: a short single input
  without `input_type` takes the document lane; `README.md:201` lists documents,
  several inputs and long requests only.
* `app/batch_worker.py:114`: the window sleeps its whole remainder even when the budget
  is queued; `docs/README.md:179-181` says a worker waits until the budget is reached *or* the
  time is up.  `NoIdleWaiting` bounds the cost.
* `app/autoscaling.py:40`: a lane whose `current_replicas` setting is 0 gets the maximum for any
  backlog and the minimum without one, although the formula of `README.md:241` does not
  depend on `current_replicas`.
* `app/tokenization.py:50` with `app/embeddings.py:98`: the text that truncation leaves is
  counted again but not compared with the context again.  If the cut falls inside a character, its
  decoding ends in a replacement character, which may take more tokens than were kept, so a
  truncated input can still exceed the context.
* `app/redis_batch_queue.py:32`: the script drops an item by the worker's clock, while the
  deadline is the gateway's.  With a worker's clock ahead, an item is dropped before
  its client has waited for the timeout; `DropsOnlyDead` says by how much at most.
* `app/metrics_exporter.py:57`: settings that `recommend_replicas` rejects for one lane end every
  refresh there, so the lanes after it never get gauges.  `GaugesConverge` leaves them out.
* `app/redis_batch_queue.py:156`: the gauge described as the number of queued work items
  (`app/metrics.py:59`) counts scanned entries, at most the scan limit.  `GaugesConverge`
  says so: the gauges reach the whole list only while it is within the limit.

## Not modelled

* `auth.py`: a stateless comparison of keys.  The tokenizer, and how `config.py` reads its
  environment: external, or pydantic's.
* Pydantic's validation of requests: `Body` is what it lets through.
* The gateway's histogram of token counts, histograms and last-batch gauges of the
  worker, logging, `/healthz`, `/metrics`,
  LLEN (nothing calls it), and the age of the newest item: nothing reads them.
* Rounding of floats in the recommendation and in the conversion of seconds to milliseconds.
* `k8s/`, `Dockerfile`, `scripts/`: deployment and tooling; restarts and names
  of pods enter the models as described.
