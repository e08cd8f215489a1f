----------------------------- MODULE Autoscaling -----------------------------
(***************************************************************************)
(* recommend_replicas (autoscaling.py): how many replicas a lane should    *)
(* have for its token backlog.  A lane's settings are a record             *)
(*   tps      tokens per second per replica                                *)
(*   current  replicas the settings say the lane has                       *)
(*   target   seconds in which the backlog should drain                    *)
(*   min, max the bounds of the recommendation                             *)
(* of integers; the code's floats are exact here.                          *)
(***************************************************************************)
EXTENDS Integers

LaneSettings == [tps : Int, current : Int, target : Int, min : Int, max : Int]

AtLeast(a, b) == IF a >= b THEN a ELSE b
AtMost(a, b) == IF a <= b THEN a ELSE b

CeilDiv(a, b) == (a + b - 1) \div b

\* A call that neither recommend_replicas nor its result's fields reject.
Accepted(s) == s.max >= s.min /\ s.target > 0 /\ s.min >= 0

SafePerReplica(s) == AtLeast(s.tps, 0)
TotalCurrentTps(s) == SafePerReplica(s) * AtLeast(s.current, 0)

\* A drain time is a fraction; Never is the sentinel 1e30 for an infinite one.
Fraction(n, d) == [num |-> n, den |-> d]
Never == Fraction(1, 0)

\* Mutant: no throughput at all is no backlog at all.
DrainTimeZero(backlog, s) ==
    IF backlog <= 0 \/ TotalCurrentTps(s) <= 0 THEN Fraction(0, 1)
    ELSE Fraction(backlog, TotalCurrentTps(s))

DrainTime(backlog, s) ==
    IF backlog <= 0 THEN Fraction(0, 1)
    ELSE IF TotalCurrentTps(s) <= 0 THEN Never
    ELSE Fraction(backlog, TotalCurrentTps(s))

\* Mutant: the quotient is rounded down.
RawFloor(backlog, s) ==
    IF backlog <= 0 THEN s.min
    ELSE IF TotalCurrentTps(s) <= 0 THEN s.max
    ELSE backlog \div (s.target * SafePerReplica(s))

\* Mutant: the operands of the division are swapped.
RawSwapped(backlog, s) ==
    IF backlog <= 0 THEN s.min
    ELSE IF TotalCurrentTps(s) <= 0 THEN s.max
    ELSE CeilDiv(s.target * SafePerReplica(s), backlog)

\* The floor of 1e-9 under the divisor is below every product of integers.
RawRecommended(backlog, s) ==
    IF backlog <= 0 THEN s.min
    ELSE IF TotalCurrentTps(s) <= 0 THEN s.max
    ELSE CeilDiv(backlog, s.target * SafePerReplica(s))

Recommended(backlog, s) == AtMost(s.max, AtLeast(s.min, RawRecommended(backlog, s)))

Recommendation(backlog, s) ==
    [backlog |-> AtLeast(0, backlog),
     replicas |-> Recommended(backlog, s),
     drain |-> DrainTime(backlog, s)]

=============================================================================
