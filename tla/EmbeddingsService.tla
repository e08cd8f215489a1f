-------------------------- MODULE EmbeddingsService --------------------------
(***************************************************************************)
(* EmbeddingsService.create_embeddings (embeddings.py): check a request,   *)
(* count its tokens, classify it, hand it to a batching lane or to vLLM,   *)
(* and answer.  A request awaits exactly once, so it is two actions: up to *)
(* that await, and from it.  The batching client is seen through its       *)
(* promise (EmbeddingApi): the vectors of what it was given, or a failure. *)
(*                                                                         *)
(* A text is its number of tokens, its prefix included, and the number the *)
(* tokenizer finds in what truncation leaves of it, which may be any: the  *)
(* kept ids are decoded to text, and nobody checks what that text encodes  *)
(* to.  The vector of the i-th input is i.                                 *)
(***************************************************************************)
EXTENDS ResponseNormalization

CONSTANTS
    Request,    \* the requests
    Body,       \* [Request -> the bodies it may have]
    Config,     \* the settings the service may run with
    Answer      \* [Request -> the data lists vLLM may answer it with]

\* An entry of vLLM's data list, a vector being the number of its input.
AnyEntry == [embedding : Nat \cup {Absent, Invalid}, index : Int \cup {Absent, Invalid}]

ASSUME ServiceAssumption ==
    /\ \A r \in Request :
          Body[r] \subseteq [model : STRING, input_type : STRING, truncation : BOOLEAN,
                             output_dimension : BOOLEAN,
                             inputs : Seq([tokens : Nat, clipped : Nat]) \ {<<>>}]
    /\ Config \subseteq [query_batching : BOOLEAN, document_batching : BOOLEAN,
                          query_max_tokens : Nat, max_inputs : Nat, context : Nat,
                          batch_worker_model : STRING]
    /\ \A r \in Request : Answer[r] \subseteq Seq(AnyEntry) \cup {Absent}

VARIABLES
    config,     \* the settings, read once at the start
    pc,         \* [Request -> "idle", the path it awaits, or "done"]
    body,       \* [Request -> its body, or Absent]
    handed,     \* [Request -> the children given to its path]
    answered,   \* [Request -> the data list vLLM sent it, or Absent]
    reply,      \* [Request -> what create_embeddings returned or raised]
    routed,     \* [Path -> Nat]: the batchable and direct counters
    counted,    \* [Path \X Outcome -> Nat]: GATEWAY_REQUESTS_TOTAL
    errors,     \* [Failure -> Nat]: GATEWAY_ERRORS_TOTAL
    timed       \* [Path -> Nat]: the latency histogram's count

vars == <<config, pc, body, handed, answered, reply, routed, counted, errors, timed>>

Lane == {"query_batch", "document_batch", "direct"}
Path == Lane \cup {"unknown"}
Outcome == {"success", "error"}

\* How a request fails: with one of the four statuses, or ("error") with an
\* exception that is no HTTPException, which is counted as unhandled.
Failure == {"bad_request", "bad_gateway", "timeout", "unavailable", "error"}

Reply(status, data, usage) == [status |-> status, data |-> data, usage |-> usage]
NoReply == Reply("none", <<>>, 0)

Init ==
    /\ config \in Config
    /\ pc = [r \in Request |-> "idle"]
    /\ body = [r \in Request |-> Absent]
    /\ handed = [r \in Request |-> <<>>]
    /\ answered = [r \in Request |-> Absent]
    /\ reply = [r \in Request |-> NoReply]
    /\ routed = [p \in Lane |-> 0]
    /\ counted = [p \in Path \X Outcome |-> 0]
    /\ errors = [s \in Failure |-> 0]
    /\ timed = [p \in Path |-> 0]

----------------------------------------------------------------------------
(* Tokens *)

\* count_tokens of each text, after truncate_to_context_length if the body asks
\* for it: a text within the context is left alone, another is decoded from its
\* first ids and counted anew.
ModelInputs(b) ==
    [i \in 1..Len(b.inputs) |->
        IF b.truncation /\ b.inputs[i].tokens > config.context
        THEN b.inputs[i].clipped
        ELSE b.inputs[i].tokens]

Total(tokens) ==
    LET sum[k \in 0..Len(tokens)] == IF k = 0 THEN 0 ELSE sum[k - 1] + tokens[k]
    IN  sum[Len(tokens)]

\* The checks that answer 400, in one condition.
Refused(b) ==
    \/ b.output_dimension
    \/ Len(b.inputs) > config.max_inputs
    \/ ~b.truncation /\ \E i \in 1..Len(b.inputs) : b.inputs[i].tokens > config.context

----------------------------------------------------------------------------
(* Routing *)

\* Mutant: the number of inputs does not count.
QueryWorkloadOfAnySize(b) ==
    /\ Total(ModelInputs(b)) <= config.query_max_tokens
    /\ b.input_type = "query"

\* classify_embedding_request
QueryWorkload(b) ==
    /\ Len(b.inputs) = 1
    /\ Total(ModelInputs(b)) <= config.query_max_tokens
    /\ b.input_type = "query"

\* The lifespan makes a batching client for either switch.
HasClient == config.query_batching \/ config.document_batching

\* The model the workers serve, at a gateway with a batching client.
Batched(b) == HasClient /\ b.model = config.batch_worker_model

PathOf(b) ==
    CASE config.query_batching /\ Batched(b) /\ QueryWorkload(b) -> "query_batch"
      [] config.document_batching /\ Batched(b) /\ ~QueryWorkload(b) -> "document_batch"
      [] OTHER -> "direct"

\* embed_query is given the first input with the count of all of them, the other
\* two paths every input with its own.
HandedTo(path, b) ==
    LET tokens == ModelInputs(b)
    IN  IF path = "query_batch"
        THEN <<[input |-> 1, tokens |-> Total(tokens)]>>
        ELSE [i \in 1..Len(tokens) |-> [input |-> i, tokens |-> tokens[i]]]

----------------------------------------------------------------------------
(* Ends of a request *)

\* Mutant: the latency is observed on success only.
CountSuccessesOnly(path, outcome) ==
    /\ counted' = [counted EXCEPT ![<<path, outcome>>] = @ + 1]
    /\ timed' = [timed EXCEPT ![path] = IF outcome = "success" THEN @ + 1 ELSE @]

\* The counters of the except branches, and of the finally block.
Count(path, outcome) ==
    /\ counted' = [counted EXCEPT ![<<path, outcome>>] = @ + 1]
    /\ timed' = [timed EXCEPT ![path] = @ + 1]

Succeed(r, data) ==
    /\ pc' = [pc EXCEPT ![r] = "done"]
    /\ reply' = [reply EXCEPT ![r] = Reply("ok", data, Total(ModelInputs(body[r])))]
    /\ Count(pc[r], "success")
    /\ UNCHANGED errors

Fail(r, path, status) ==
    /\ pc' = [pc EXCEPT ![r] = "done"]
    /\ reply' = [reply EXCEPT ![r] = Reply(status, <<>>, 0)]
    /\ errors' = [errors EXCEPT ![status] = @ + 1]
    /\ Count(path, "error")

----------------------------------------------------------------------------
(* Steps of a request *)

\* A request the service refuses before it has a path.
Refuse(r, b) ==
    /\ pc[r] = "idle"
    /\ Refused(b)
    /\ body' = [body EXCEPT ![r] = b]
    /\ Fail(r, "unknown", "bad_request")
    /\ UNCHANGED <<config, handed, answered, routed>>

\* The tokenizer cannot be loaded, or raises: nobody turns that into a status.
TokenizerRaises(r, b) ==
    /\ pc[r] = "idle"
    /\ ~b.output_dimension
    /\ Len(b.inputs) <= config.max_inputs
    /\ body' = [body EXCEPT ![r] = b]
    /\ Fail(r, "unknown", "error")
    /\ UNCHANGED <<config, handed, answered, routed>>

\* A request on its way: classified, counted and handed over.
Dispatch(r, b) ==
    /\ pc[r] = "idle"
    /\ ~Refused(b)
    /\ body' = [body EXCEPT ![r] = b]
    /\ pc' = [pc EXCEPT ![r] = PathOf(b)]
    /\ handed' = [handed EXCEPT ![r] = HandedTo(PathOf(b), b)]
    /\ routed' = [routed EXCEPT ![PathOf(b)] = @ + 1]
    /\ UNCHANGED <<config, answered, reply, counted, errors, timed>>

\* embed_query or embed_documents returns.
BatchReturns(r) ==
    /\ pc[r] \in {"query_batch", "document_batch"}
    /\ Succeed(r, [k \in 1..Len(handed[r]) |->
                      [embedding |-> handed[r][k].input, index |-> k - 1]])
    /\ UNCHANGED <<config, body, handed, answered, routed>>

\* It raises: a child's failure, a timeout, a shutdown, an error of Redis.
BatchRaises(r, status) ==
    /\ pc[r] \in {"query_batch", "document_batch"}
    /\ Fail(r, pc[r], status)
    /\ UNCHANGED <<config, body, handed, answered, routed>>

\* vLLM answers with JSON, and the answer is normalized.
VllmAnswers(r, raw) ==
    LET result == Normalize(raw, Len(handed[r]))
    IN  /\ pc[r] = "direct"
        /\ answered' = [answered EXCEPT ![r] = raw]
        /\ IF result.status = "ok" THEN Succeed(r, result.data)
                                   ELSE Fail(r, "direct", result.status)
        /\ UNCHANGED <<config, body, handed, routed>>

\* VllmClient.embed raises: no answer in time, no connection, a status of 400 or
\* more, or a body that is no JSON, for which there is no handler.
VllmRaises(r, status) ==
    /\ pc[r] = "direct"
    /\ Fail(r, "direct", status)
    /\ UNCHANGED <<config, body, handed, answered, routed>>

Next ==
    \E r \in Request :
        \/ \E b \in Body[r] : Refuse(r, b) \/ TokenizerRaises(r, b) \/ Dispatch(r, b)
        \/ BatchReturns(r)
        \/ \E s \in {"bad_gateway", "timeout", "unavailable", "error"} : BatchRaises(r, s)
        \/ \E raw \in Answer[r] : VllmAnswers(r, raw)
        \/ \E s \in {"bad_gateway", "timeout", "error"} : VllmRaises(r, s)

Spec == Init /\ [][Next]_vars

----------------------------------------------------------------------------
(* Properties *)

Vectors(b) == [i \in 1..Len(b.inputs) |-> i]

\* A 200 has the vector of every input, in input order and numbered so: on a
\* batching lane always, on the direct path when vLLM's answer is faithful,
\* whatever its order and whether or not it carries indexes.
AnswersCoverInputs ==
    \A r \in Request :
        LET vectors == Vectors(body[r])
        IN  /\ reply[r].status = "ok"
            /\ answered[r] # Absent => Faithful(answered[r], vectors)
            => reply[r].data = [i \in 1..Len(vectors) |->
                                   [embedding |-> vectors[i], index |-> i - 1]]

\* The data of the direct path is vLLM's own, sorted stably: an answer that
\* repeats an index loses and doubles nothing.
DirectDataIsSorted ==
    \A r \in Request :
        reply[r].status = "ok" /\ answered[r] # Absent =>
            StableSort(Indexed(answered[r]), reply[r].data)

\* Every input is handed over once, in order, with its own count, which is within
\* the context; only a request to truncate may have others, of its inputs beyond
\* the context.  The counts add up to the usage the client is told: embed_query's
\* single input and total are those of the whole request.
NothingDropped ==
    \A r \in Request :
        LET b == body[r]
            count == [k \in 1..Len(handed[r]) |-> handed[r][k].tokens]
        IN  handed[r] # <<>> =>
                /\ [k \in 1..Len(handed[r]) |-> handed[r][k].input] = Vectors(b)
                /\ \A k \in 1..Len(handed[r]) :
                      \/ count[k] = b.inputs[k].tokens /\ count[k] <= config.context
                      \/ b.truncation /\ b.inputs[k].tokens > config.context
                /\ reply[r].status = "ok" => reply[r].usage = Total(count)

\* The metrics agree with each other and with the requests: every finished
\* request is counted and timed once under its path, a path's routing counter
\* is ahead of its outcomes by the requests still waiting there, and each kind
\* of error is counted as often as a client was answered with it.
MetricsAgree ==
    /\ \A p \in Path : timed[p] = counted[<<p, "success">>] + counted[<<p, "error">>]
    /\ \A p \in Lane : routed[p] = timed[p] + Cardinality({r \in Request : pc[r] = p})
    /\ counted[<<"unknown", "error">>] =
           Cardinality({r \in Request : pc[r] = "done" /\ handed[r] = <<>>})
    /\ \A s \in Failure : errors[s] = Cardinality({r \in Request : reply[r].status = s})

=============================================================================
