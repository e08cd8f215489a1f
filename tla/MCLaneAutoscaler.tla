--------------------------- MODULE MCLaneAutoscaler ---------------------------
(***************************************************************************)
(* LaneAutoscaler over small settings: a backlog of 0 to 9 tokens, against *)
(* divisors of 1 to 4, bounds of 0 to 3 replicas, and a lane that is       *)
(* stopped, has no throughput, or a nonsensical negative one.  The last    *)
(* settings and backlogs are those of tests/test_autoscaling.py, in        *)
(* thousands of tokens.                                                    *)
(***************************************************************************)
EXTENDS LaneAutoscaler

SmallSettings ==
    {s \in [tps : -1 .. 2, current : -1 .. 3, target : 1 .. 2, min : 0 .. 3, max : 0 .. 3] :
        Accepted(s)}

TestSettings == [tps |-> 8, current |-> 1, target |-> 2, min |-> 1, max |-> 8]

AllSettings == SmallSettings \cup {TestSettings}

Backlogs == 0 .. 9 \cup {32, 1000}

=============================================================================
