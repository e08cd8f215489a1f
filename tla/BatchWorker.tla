----------------------------- MODULE BatchWorker -----------------------------
(***************************************************************************)
(* The batch worker process (batch_worker.py): claim a batch, have vLLM    *)
(* embed it, publish one result per item, for ever.  Nothing in the loop   *)
(* catches a Redis error, so any of them ends the process; the claimed     *)
(* batch lives only in its memory.                                         *)
(*                                                                         *)
(* The batch window (_wait_for_batch_window) only delays the claim, which  *)
(* interleaving already covers.                                            *)
(***************************************************************************)
EXTENDS RedisBatchQueue

VARIABLES
    wpc,      \* [Worker -> where its loop is]
    seen,     \* [Worker -> SUBSET Request]: overdue at the now_ms it read
    batch,    \* [Worker -> Seq(Item)]: the items it claimed
    data,     \* [Worker -> Seq(Child)]: vLLM's vectors, or <<>> if it failed
    pos       \* [Worker -> index of the item being published]

workerVars == <<wpc, seen, batch, data, pos>>

\* expire: the result is in Redis.  reexpire: it is there twice.
WorkerPc == {"idle", "claim", "embed", "publish", "expire", "reexpire", "down"}

WorkerTypeOK ==
    /\ wpc \in [Worker -> WorkerPc]
    /\ seen \in [Worker -> SUBSET Request]
    /\ batch \in [Worker -> Seq(Item)]
    /\ data \in [Worker -> Seq(Child)]
    /\ pos \in [Worker -> Nat]

WorkerInit ==
    /\ wpc = [w \in Worker |-> "idle"]
    /\ seen = [w \in Worker |-> {}]
    /\ batch = [w \in Worker |-> <<>>]
    /\ data = [w \in Worker |-> <<>>]
    /\ pos = [w \in Worker |-> 0]

----------------------------------------------------------------------------
\* claim_embedding_batch reads the clock before it sends the script.
ReadClock(w) ==
    /\ wpc[w] = "idle"
    /\ wpc' = [wpc EXCEPT ![w] = "claim"]
    /\ seen' = [seen EXCEPT ![w] = expired]
    /\ UNCHANGED <<redisVars, batch, data, pos>>

\* The script runs; an empty claim goes back to the top of the loop.
ClaimBatch(w) ==
    LET l == WorkerLane[w]
        selected == ClaimFrom(l, seen[w]).selected
    IN  /\ wpc[w] = "claim"
        /\ ClaimEmbeddingBatch(l, seen[w])
        /\ batch' = [batch EXCEPT ![w] = selected]
        /\ wpc' = [wpc EXCEPT ![w] = IF selected = <<>> THEN "idle" ELSE "embed"]
        /\ seen' = [seen EXCEPT ![w] = {}]
        /\ UNCHANGED <<results, ttl, expired, data, pos>>

\* The script runs, its reply is lost, and redis-py (6 and later) sends the
\* command again: what the first run claimed is in nobody's hands.
ClaimAgain(w) ==
    LET l == WorkerLane[w]
    IN  /\ wpc[w] = "claim"
        /\ ClaimFrom(l, seen[w]).selected # <<>>
        /\ ClaimEmbeddingBatch(l, seen[w])
        /\ UNCHANGED <<results, ttl, expired, workerVars>>

\* Mutant: the vectors are taken in an order other than the inputs'.
EmbedOkUnsorted(w) ==
    /\ wpc[w] = "embed"
    /\ data' = [data EXCEPT ![w] = [k \in 1..Len(batch[w]) |->
                                       batch[w][Len(batch[w]) + 1 - k].id]]
    /\ wpc' = [wpc EXCEPT ![w] = "publish"]
    /\ pos' = [pos EXCEPT ![w] = 1]
    /\ UNCHANGED <<redisVars, seen, batch>>

\* vLLM answers and the answer normalizes: one vector per input, in input order.
EmbedOk(w) ==
    /\ wpc[w] = "embed"
    /\ data' = [data EXCEPT ![w] = [k \in 1..Len(batch[w]) |-> batch[w][k].id]]
    /\ wpc' = [wpc EXCEPT ![w] = "publish"]
    /\ pos' = [pos EXCEPT ![w] = 1]
    /\ UNCHANGED <<redisVars, seen, batch>>

\* vLLM fails, or its answer does not normalize: every item gets the error.
EmbedFails(w) ==
    /\ wpc[w] = "embed"
    /\ data' = [data EXCEPT ![w] = <<>>]
    /\ wpc' = [wpc EXCEPT ![w] = "publish"]
    /\ pos' = [pos EXCEPT ![w] = 1]
    /\ UNCHANGED <<redisVars, seen, batch>>

\* Mutant: every item gets the first vector of the batch.
ResultWithFirst(w, k) ==
    IF data[w] = <<>> THEN ErrorResult(batch[w][k])
                      ELSE OkResult(batch[w][k], data[w][1])

\* The result of the k-th item: zip(items, data), or the batch's error.
ResultAt(w, k) ==
    IF data[w] = <<>> THEN ErrorResult(batch[w][k])
                      ELSE OkResult(batch[w][k], data[w][k])

\* Mutant: the whole batch is answered to the first item's gateway.
PublishToFirst(w) ==
    /\ wpc[w] = "publish"
    /\ PushResult(batch[w][1].reply_to, ResultAt(w, pos[w]))
    /\ wpc' = [wpc EXCEPT ![w] = "expire"]
    /\ UNCHANGED <<work, ttl, expired, seen, batch, data, pos>>

\* The RPUSH of publish_embedding_result.
Publish(w) ==
    /\ wpc[w] = "publish"
    /\ PushResult(batch[w][pos[w]].reply_to, ResultAt(w, pos[w]))
    /\ wpc' = [wpc EXCEPT ![w] = "expire"]
    /\ UNCHANGED <<work, ttl, expired, seen, batch, data, pos>>

\* The reply to the RPUSH is lost and redis-py sends it again.
PublishAgain(w) ==
    /\ wpc[w] = "expire"
    /\ PushResult(batch[w][pos[w]].reply_to, ResultAt(w, pos[w]))
    /\ wpc' = [wpc EXCEPT ![w] = "reexpire"]
    /\ UNCHANGED <<work, ttl, expired, seen, batch, data, pos>>

\* The end of a batch, or of the process: its locals are gone.
Forget(w) ==
    /\ batch' = [batch EXCEPT ![w] = <<>>]
    /\ data' = [data EXCEPT ![w] = <<>>]
    /\ pos' = [pos EXCEPT ![w] = 0]

\* The EXPIRE of publish_embedding_result, and the next turn of the loop.
SetTtl(w) ==
    /\ wpc[w] \in {"expire", "reexpire"}
    /\ ExpireResults(batch[w][pos[w]].reply_to)
    /\ IF pos[w] < Len(batch[w])
       THEN /\ pos' = [pos EXCEPT ![w] = @ + 1]
            /\ wpc' = [wpc EXCEPT ![w] = "publish"]
            /\ UNCHANGED <<batch, data>>
       ELSE /\ wpc' = [wpc EXCEPT ![w] = "idle"]
            /\ Forget(w)
    /\ UNCHANGED <<work, results, expired, seen>>

\* A Redis error or a crash anywhere in the loop ends the process.
WorkerCrash(w) ==
    /\ wpc[w] # "down"
    /\ wpc' = [wpc EXCEPT ![w] = "down"]
    /\ seen' = [seen EXCEPT ![w] = {}]
    /\ Forget(w)
    /\ UNCHANGED redisVars

\* The container is restarted; what was claimed is not claimed again.
WorkerRestart(w) ==
    /\ wpc[w] = "down"
    /\ wpc' = [wpc EXCEPT ![w] = "idle"]
    /\ UNCHANGED <<redisVars, seen, batch, data, pos>>

=============================================================================
