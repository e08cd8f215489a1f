----------------------------- MODULE ClaimScript -----------------------------
(***************************************************************************)
(* The Lua script a worker runs in Redis to claim a batch: it reads a      *)
(* prefix of the work list, walks it under a token budget and trims what   *)
(* it walked over.  The loop is a recursive function over the iterations,  *)
(* so that facts about it can be proved as well as checked.                *)
(*                                                                         *)
(* The script's inputs are abstracted to two views of the raw items:       *)
(*   dead  the set of items the script throws away: text cjson cannot      *)
(*         decode, and items whose deadline is before now_ms;              *)
(*   tok   the token_count of every other item.                            *)
(***************************************************************************)
EXTENDS Naturals, Sequences

\* Mutant: the stop index is max_items.
WindowOneMore(q, maxItems) ==
    IF maxItems >= Len(q) THEN q ELSE SubSeq(q, 1, maxItems + 1)

\* LRANGE key 0 max_items-1.  With max_items = 0 the stop index is -1, which
\* Redis reads as the last element: the whole list.
Window(q, maxItems) ==
    IF maxItems = 0 \/ maxItems > Len(q) THEN q ELSE SubSeq(q, 1, maxItems)

LoopStart == [selected |-> <<>>, total |-> 0, removed |-> 0, broke |-> FALSE]

\* Mutant: a dropped item is not counted, so LTRIM leaves it.
DropUncounted(s) ==
    [selected |-> s.selected, total |-> s.total, removed |-> s.removed, broke |-> FALSE]

Drop(s) ==
    [selected |-> s.selected, total |-> s.total, removed |-> s.removed + 1, broke |-> FALSE]

Select(s, raw, tok) ==
    [selected |-> Append(s.selected, raw), total |-> s.total + tok[raw],
     removed |-> s.removed + 1, broke |-> FALSE]

\* Mutant: the item that ends the loop is counted, so LTRIM takes it too.
BreakCounted(s) ==
    [selected |-> s.selected, total |-> s.total, removed |-> s.removed + 1, broke |-> TRUE]

Break(s) ==
    [selected |-> s.selected, total |-> s.total, removed |-> s.removed, broke |-> TRUE]

\* Mutant: the first item has to keep within the budget as well.
FitsWithinBudget(s, raw, budget, tok) == s.total + tok[raw] <= budget

\* Mutant: the budget is compared before the item is added.
FitsBeforeAdding(s, raw, budget, tok) == s.selected = <<>> \/ s.total <= budget

\* The first live item fits whatever its size.
Fits(s, raw, budget, tok) == s.selected = <<>> \/ s.total + tok[raw] <= budget

\* One iteration: drop the item, take it, or break out of the loop.
LoopBody(s, raw, budget, dead, tok) ==
    IF s.broke THEN s
    ELSE IF raw \in dead THEN Drop(s)
    ELSE IF Fits(s, raw, budget, tok) THEN Select(s, raw, tok)
    ELSE Break(s)

\* The loop's variables after each number of iterations.
LoopStates(w, budget, dead, tok) ==
    LET state[k \in 0..Len(w)] ==
            IF k = 0 THEN LoopStart
                     ELSE LoopBody(state[k - 1], w[k], budget, dead, tok)
    IN  state

LoopEnd(w, budget, dead, tok) == LoopStates(w, budget, dead, tok)[Len(w)]

\* Mutant: the trim keeps the last item the loop walked over.
TrimmedShort(q, removed) == SubSeq(q, IF removed = 0 THEN 1 ELSE removed, Len(q))

\* LTRIM key remove_count -1
Trimmed(q, removed) == SubSeq(q, removed + 1, Len(q))

\* The script's reply and the list it leaves behind.
Claim(q, maxItems, budget, dead, tok) ==
    LET s == LoopEnd(Window(q, maxItems), budget, dead, tok)
    IN  [selected |-> s.selected, rest |-> Trimmed(q, s.removed)]

=============================================================================
