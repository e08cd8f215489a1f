-------------------------- MODULE MCBatchingSystem --------------------------
(***************************************************************************)
(* Finite instances of BatchingSystem for TLC: one query request and one   *)
(* two-input document request on a lane each, or two requests that share   *)
(* a lane, with token counts around the lane's budget.                     *)
(***************************************************************************)
EXTENDS BatchingInvariant

CONSTANTS
    q1, d1, d2,     \* requests
    g1, g2,         \* gateways
    w1, w2,         \* workers
    query, document \* lanes

\* Two lanes, one worker each.
TwoLanes == [r \in Request |-> IF r = q1 THEN query ELSE document]
LaneWorkers == [w \in Worker |-> IF w = w1 THEN query ELSE document]

\* One lane, every worker on it.
OneLane == [r \in Request |-> document]
DocumentWorkers == [w \in Worker |-> document]

\* The document's second input exceeds the budget next to the first.
SmallTokens == [r \in Request |-> IF r = q1 THEN <<1>> ELSE <<1, 2>>]

\* The second input of d1 exceeds the budget alone; d2 fits next to the first.
SharedTokens == [r \in Request |-> IF r = d1 THEN <<1, 3>> ELSE <<1>>]

\* Two inputs that share a batch.
PairTokens == [r \in Request |-> <<1, 1>>]

\* Three inputs, of which the second exceeds the budget alone.
ThreeTokens == [r \in Request |-> <<1, 3, 1>>]

BudgetTwo == [l \in Lane |-> 2]
MaxItemsTwo == [l \in Lane |-> 2]
MaxItemsAll == [l \in Lane |-> 0]

=============================================================================
