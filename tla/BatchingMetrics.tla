--------------------------- MODULE BatchingMetrics ---------------------------
(***************************************************************************)
(* The metrics a gateway and a worker keep of the batched path, added to   *)
(* BatchingSystem as what they are: numbers set by the steps of the code   *)
(* that nothing reads.                                                     *)
(*                                                                         *)
(* Every step of a request that changes _pending sets the gauge of the     *)
(* request's own lane to the size of the whole dictionary.  The gauge of   *)
(* document children is set to the same number whenever the document       *)
(* lane's is, so it is that gauge under another name.                      *)
(***************************************************************************)
EXTENDS BatchingSystem

VARIABLES
    gauge,      \* [Gateway -> [Lane -> Nat]]: GATEWAY_PENDING_REQUESTS
    counted     \* [Worker -> [claimed, completed, failed : Nat]]

metricVars == <<vars, gauge, counted>>

NoPending == [l \in Lane |-> 0]
NoBatches == [claimed |-> 0, completed |-> 0, failed |-> 0]

MetricsInit ==
    /\ Init
    /\ gauge = [g \in Gateway |-> NoPending]
    /\ counted = [w \in Worker |-> NoBatches]

----------------------------------------------------------------------------
(* The pending gauges of a gateway *)

\* Mutant: the finally block does not set the gauges.
MovedByRegistering(r) == next'[r] # next[r]

\* A request registers its next child, or leaves its finally block.
Moved(r) == \/ next'[r] # next[r]
            \/ InFlight(r) /\ phase'[r] = "done"

\* Mutant: a lane's gauge counts what is registered one await later.
SetPendingMetricsEarly(g) ==
    [l \in Lane |-> IF \E r \in Request : home'[r] = g /\ LaneOf[r] = l /\ Moved(r)
                    THEN Cardinality(pending[g]) ELSE gauge[g][l]]

\* _set_pending_metrics, called with the lane of the request that moved.
SetPendingMetrics(g) ==
    [l \in Lane |-> IF \E r \in Request : home'[r] = g /\ LaneOf[r] = l /\ Moved(r)
                    THEN Cardinality(pending'[g]) ELSE gauge[g][l]]

\* A process that is gone takes its registry with it.
SetGauges ==
    gauge' = [g \in Gateway |-> IF gw'[g] = "down" THEN NoPending ELSE SetPendingMetrics(g)]

----------------------------------------------------------------------------
(* The batch counters of a worker *)

Claims(w) == wpc[w] = "claim" /\ wpc'[w] = "embed"
Fails(w) == wpc[w] = "embed" /\ wpc'[w] = "publish" /\ data'[w] = <<>>

\* Mutant: the error path goes on to what follows the loop over the items.
CompletesAnyhow(w) == wpc[w] \in {"expire", "reexpire"} /\ wpc'[w] = "idle"

\* A batch completes when its last result has been published; the error path
\* returns before that.
Completes(w) ==
    /\ wpc[w] \in {"expire", "reexpire"}
    /\ wpc'[w] = "idle"
    /\ data[w] # <<>>

Count(n, happens) == IF happens THEN n + 1 ELSE n

\* The counters of _process_batch; a new process starts from zero.
CountBatches ==
    counted' = [w \in Worker |->
        IF wpc'[w] = "down" THEN NoBatches
        ELSE [claimed |-> Count(counted[w].claimed, Claims(w)),
              completed |-> Count(counted[w].completed, Completes(w)),
              failed |-> Count(counted[w].failed, Fails(w))]]

MetricsNext == Next /\ SetGauges /\ CountBatches

MetricsSpec == MetricsInit /\ [][MetricsNext]_metricVars

----------------------------------------------------------------------------
(* Properties *)

Waiting(g, l) == {c \in pending[g] : LaneOf[c[1]] = l}

\* The gauge never hides a child that is waiting: whatever the other lane and
\* stop() do, it is at least the number of the lane's own.
GaugeHidesNothing ==
    \A g \in Gateway, l \in Lane : gauge[g][l] >= Cardinality(Waiting(g, l))

\* At a gateway that serves one lane, as with one batching switch on, the gauge is
\* the number of children waiting, until stop() clears them behind its back.
GaugeExactForOneLane ==
    \A g \in Gateway, l \in Lane :
        (gw[g] = "up" /\ \A r \in Request : home[r] = g => LaneOf[r] = l)
            => gauge[g][l] = Cardinality(pending[g])

\* The number of child requests of the workload that wait for batched results in
\* this gateway process (the gauge's description in metrics.py).
GaugeCountsItsLane ==
    \A g \in Gateway, l \in Lane :
        gw[g] = "up" => gauge[g][l] = Cardinality(Waiting(g, l))

\* The batch in the worker's hands is not counted as completed or failed yet.
Undecided(w) ==
    \/ wpc[w] = "embed"
    \/ wpc[w] \in {"publish", "expire", "reexpire"} /\ data[w] # <<>>

\* Every batch a process has claimed is counted as completed or as failed, once,
\* but for the one in its hands: the try, its two handlers and the code after the
\* loop over the items miss none and count none twice.
BatchesAddUp ==
    \A w \in Worker :
        counted[w].claimed =
            counted[w].completed + counted[w].failed + Count(0, Undecided(w))

=============================================================================
