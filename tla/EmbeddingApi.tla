---------------------------- MODULE EmbeddingApi ----------------------------
(***************************************************************************)
(* What the batched path promises an HTTP client: every request is         *)
(* answered exactly once, either with the vectors of its own inputs in     *)
(* input order or with a failure.  Queues, batches, workers and retries    *)
(* are invisible at this level.                                            *)
(***************************************************************************)
CONSTANTS
    Request,      \* the client's requests
    Vectors,      \* [Request -> the list of vectors it should get]
    Failures,     \* the failure replies
    NoReply,      \* before there is one
    OkReply(_)    \* the reply that carries a list of vectors

VARIABLES
    state,        \* [Request -> {"unsent", "open", "answered"}]
    reply         \* [Request -> reply]

apiVars == <<state, reply>>

ApiInit ==
    /\ state = [r \in Request |-> "unsent"]
    /\ reply = [r \in Request |-> NoReply]

Submit(r) ==
    /\ state[r] = "unsent"
    /\ state' = [state EXCEPT ![r] = "open"]
    /\ UNCHANGED reply

\* A request that is refused at once.
Refuse(r) ==
    /\ state[r] = "unsent"
    /\ state' = [state EXCEPT ![r] = "answered"]
    /\ \E f \in Failures : reply' = [reply EXCEPT ![r] = f]

Serve(r) ==
    /\ state[r] = "open"
    /\ state' = [state EXCEPT ![r] = "answered"]
    /\ reply' = [reply EXCEPT ![r] = OkReply(Vectors[r])]

Fail(r) ==
    /\ state[r] = "open"
    /\ state' = [state EXCEPT ![r] = "answered"]
    /\ \E f \in Failures : reply' = [reply EXCEPT ![r] = f]

\* A server process dies, and with it the connections it holds.
LoseConnections(S) ==
    /\ \A r \in S : state[r] = "open"
    /\ state' = [r \in Request |-> IF r \in S THEN "answered" ELSE state[r]]
    /\ \E f \in Failures : reply' = [r \in Request |-> IF r \in S THEN f ELSE reply[r]]

ApiNext ==
    \/ \E r \in Request : Submit(r) \/ Refuse(r) \/ Serve(r) \/ Fail(r)
    \/ \E S \in SUBSET Request : LoseConnections(S)

ApiSpec == ApiInit /\ [][ApiNext]_apiVars

\* An open request is answered in the end.
ApiAnswers == \A r \in Request : state[r] = "open" ~> state[r] = "answered"

=============================================================================
