------------------------------ MODULE ChildLife ------------------------------
(***************************************************************************)
(* What the queues promise a child work item without a retried command: it *)
(* passes through the system once, one station at a time.  It may be lost  *)
(* anywhere on the way, but what has left a station never comes back to    *)
(* it, so no input is embedded, or answered, twice.                        *)
(***************************************************************************)
CONSTANT Child

VARIABLE place    \* [Child -> station]

\* unsent: not in Redis yet.  queued: in a work list.  claimed: in a worker's batch.
\* replied: in a result list.  received: popped by a listener.  gone: delivered,
\* lost, or given up before it was sent.
Station == {"unsent", "queued", "claimed", "replied", "received", "gone"}

Following(s) ==
    CASE s = "unsent"   -> {"queued", "gone"}
      [] s = "queued"   -> {"claimed", "gone"}
      [] s = "claimed"  -> {"replied", "gone"}
      [] s = "replied"  -> {"received", "gone"}
      [] s = "received" -> {"gone"}
      [] s = "gone"     -> {}

LifeInit == place = [c \in Child |-> "unsent"]

\* Some children move on, as a batch does, or a crash takes them.
Move ==
    /\ place' \in [Child -> Station]
    /\ \A c \in Child : place'[c] = place[c] \/ place'[c] \in Following(place[c])

LifeSpec == LifeInit /\ [][Move]_place

=============================================================================
