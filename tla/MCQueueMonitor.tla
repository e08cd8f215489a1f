---------------------------- MODULE MCQueueMonitor ----------------------------
(***************************************************************************)
(* QueueMonitor with two work items, one entry that is none, and settings  *)
(* of which one lane's or the other's may be rejected.                     *)
(***************************************************************************)
EXTENDS QueueMonitor

CONSTANTS query, document, i1, i2, bad, exporter, r1, r2

QueryFirst == <<query, document>>
LaneOfEntry == [e \in Entry |-> query]
Tokens == [e \in Entry |-> IF e = i2 THEN 4 ELSE 1]
Endpoints == [r \in Request |-> IF r = r1 THEN "queues" ELSE "autoscaling"]

Good == [tps |-> 2, current |-> 1, target |-> 1, min |-> 1, max |-> 3]
Crossed == [Good EXCEPT !.max = 0]

SomeRejected ==
    {s \in [{query, document} -> {Good, Crossed}] : \E l \in {query, document} : s[l] = Good}

\* The exporter, or requests that overlap.
OneProcess == {Exporter, Request}

=============================================================================
