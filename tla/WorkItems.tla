------------------------------ MODULE WorkItems ------------------------------
(***************************************************************************)
(* The data that crosses the Redis queues: the children a parent embedding *)
(* request is split into, the work items that carry them to a batch worker *)
(* and the result items that carry the answers back (queue_models.py).     *)
(*                                                                         *)
(* Texts and vectors are abstracted to what the properties tell apart: the *)
(* text of a child is the child itself, and so is its embedding, so "the   *)
(* right vector" is "the vector named like the child".                     *)
(***************************************************************************)
EXTENDS Naturals, Sequences

CONSTANTS
    Request,      \* the parent requests the clients send
    Gateway,      \* the gateway instances, each with its own reply queue
    Worker,       \* the batch worker processes
    Lane,         \* the workloads, one Redis work list each
    LaneOf,       \* [Request -> Lane]: the lane a request was classified into
    WorkerLane,   \* [Worker -> Lane]: the lane a worker serves
    Tokens,       \* [Request -> Seq(Nat)]: the token count of each input
    Budget,       \* [Lane -> Nat]: target tokens of a batch
    MaxItems,     \* [Lane -> Nat]: most items one claim looks at
    Nil           \* no gateway, no result, no embedding

ASSUME ConstantsAssumption ==
    /\ LaneOf \in [Request -> Lane]
    /\ WorkerLane \in [Worker -> Lane]
    /\ Tokens \in [Request -> Seq(Nat) \ {<<>>}]
    /\ Budget \in [Lane -> Nat]
    /\ MaxItems \in [Lane -> Nat]

----------------------------------------------------------------------------
Indexes(r) == 1..Len(Tokens[r])

\* child_request_ids: one id per input, unique because the parent's is a uuid.
ChildrenOf(r) == {<<r, i>> : i \in Indexes(r)}

Child == UNION {ChildrenOf(r) : r \in Request}

TokenCount(c) == Tokens[c[1]][c[2]]

\* EmbeddingWorkItem, without the fields no handler reads back.
Item == [id : Child, index : Nat, reply_to : Gateway]

\* The work item the gateway builds for the i-th input of r.
WorkItem(r, i, g) == [id |-> <<r, i>>, index |-> i, reply_to |-> g]

\* EmbeddingResultItem: the error text and status are abstracted to ok = FALSE.
Result == [id : Child, index : Nat, ok : BOOLEAN, embedding : Child \cup {Nil}]

\* None is neither a gateway nor a result.
ASSUME NilAssumption == Nil \notin Gateway /\ Nil \notin Result

OkResult(item, vector) ==
    [id |-> item.id, index |-> item.index, ok |-> TRUE, embedding |-> vector]

ErrorResult(item) ==
    [id |-> item.id, index |-> item.index, ok |-> FALSE, embedding |-> Nil]

=============================================================================
