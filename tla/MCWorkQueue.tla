----------------------------- MODULE MCWorkQueue -----------------------------
(***************************************************************************)
(* WorkQueue for TLC: two workers, of which one may fall behind in its     *)
(* work while its clock is ahead, and three entries, with token counts at  *)
(* the target.                                                             *)
(***************************************************************************)
EXTENDS WorkQueue

CONSTANTS a, b, c, w1, w2

\* Work items, but for b, which may be anything.
OneOfAnyKind ==
    {[e \in Entry |-> IF e = b THEN k ELSE "item"] :
        k \in {"item", "garbage", "partial", "abort"}}

FirstUnreadable == {[e \in Entry |-> IF e = a THEN "abort" ELSE "item"]}

\* b does not fit next to the others.
MixedTokens == [e \in Entry |-> IF e = b THEN 2 ELSE 1]

\* The workers' clocks, in step and not.
NoneAhead == [w \in Worker |-> 0]
OneAhead == [w \in Worker |-> IF w = w2 THEN 1 ELSE 0]

=============================================================================
