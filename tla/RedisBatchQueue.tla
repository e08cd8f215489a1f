--------------------------- MODULE RedisBatchQueue ---------------------------
(***************************************************************************)
(* Redis as redis_batch_queue.py uses it: one work list per lane and one   *)
(* result list per gateway.  Every operator below is one Redis command,    *)
(* hence atomic; a method that sends two commands is two operators.        *)
(*                                                                         *)
(* Wall-clock time is the set of requests whose deadline it has passed.    *)
(***************************************************************************)
EXTENDS WorkItems, ClaimScript

VARIABLES
    work,      \* [Lane -> Seq(Item)]: the work lists
    results,   \* [Gateway -> Seq(Result)]: the result lists
    ttl,       \* [Gateway -> BOOLEAN]: the result list has an expiry set
    expired    \* SUBSET Request: deadline_ms < current_time_ms()

redisVars == <<work, results, ttl, expired>>

RedisTypeOK ==
    /\ work \in [Lane -> Seq(Item)]
    /\ results \in [Gateway -> Seq(Result)]
    /\ ttl \in [Gateway -> BOOLEAN]
    /\ expired \in SUBSET Request

RedisInit ==
    /\ work = [l \in Lane |-> <<>>]
    /\ results = [g \in Gateway |-> <<>>]
    /\ ttl = [g \in Gateway |-> FALSE]
    /\ expired = {}

----------------------------------------------------------------------------
\* RPUSH of a work item.
EnqueueEmbeddingWork(l, item) ==
    work' = [work EXCEPT ![l] = Append(@, item)]

\* RPUSH of a result, the first half of publish_embedding_result.  A list that
\* already has an expiry keeps it.
PushResult(g, result) ==
    results' = [results EXCEPT ![g] = Append(@, result)]

\* Mutant: the expiry is set only by the push that created the list.
ExpireIfCreated(g) ==
    ttl' = [ttl EXCEPT ![g] = @ \/ Len(results[g]) = 1]

\* EXPIRE, the second half: no effect on a list that has been emptied meanwhile.
ExpireResults(g) ==
    ttl' = [ttl EXCEPT ![g] = results[g] # <<>>]

\* BLPOP.  Redis deletes a list, and its expiry, with its last element.
PopResult(g) ==
    /\ results[g] # <<>>
    /\ results' = [results EXCEPT ![g] = Tail(@)]
    /\ ttl' = [ttl EXCEPT ![g] = @ /\ Len(results[g]) > 1]

\* The claim script's view of an item: its deadline compared with the clock the
\* worker read, its token count from the gateway.
Overdue(q, seen) == {q[k] : k \in {j \in 1..Len(q) : q[j].id[1] \in seen}}

TokenView(q) == [item \in {q[k] : k \in 1..Len(q)} |-> TokenCount(item.id)]

ClaimFrom(l, seen) ==
    Claim(work[l], MaxItems[l], Budget[l], Overdue(work[l], seen), TokenView(work[l]))

\* EVALSHA of the claim script.
ClaimEmbeddingBatch(l, seen) ==
    work' = [work EXCEPT ![l] = ClaimFrom(l, seen).rest]

----------------------------------------------------------------------------
(* What Redis does by itself. *)

\* The expiry of a result list runs out.
ResultsExpire(g) ==
    /\ ttl[g]
    /\ results' = [results EXCEPT ![g] = <<>>]
    /\ ttl' = [ttl EXCEPT ![g] = FALSE]
    /\ UNCHANGED <<work, expired>>

\* A restart without persistence empties every list (and the script cache, which
\* _eval_claim_script reloads on NOSCRIPT before it retries the claim).
RedisLoss ==
    /\ work' = [l \in Lane |-> <<>>]
    /\ results' = [g \in Gateway |-> <<>>]
    /\ ttl' = [g \in Gateway |-> FALSE]
    /\ UNCHANGED expired

=============================================================================
