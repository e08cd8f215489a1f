---------------------------- MODULE LaneAutoscaler ----------------------------
(***************************************************************************)
(* What a lane's autoscaling gauges show from one refresh to the next: the *)
(* settings are read once, the backlog is whatever the list holds.         *)
(***************************************************************************)
EXTENDS Autoscaling

CONSTANTS
    Settings,     \* the lane settings a deployment may have
    Backlog       \* the backlogs a refresh may find

ASSUME SettingsAssumption == Settings \subseteq {s \in LaneSettings : Accepted(s)}
ASSUME BacklogAssumption == Backlog \subseteq Nat

VARIABLES settings, shown

scalerVars == <<settings, shown>>

\* The gauges after the first refresh; before it there are none.
ScalerInit ==
    /\ settings \in Settings
    /\ \E b \in Backlog : shown = Recommendation(b, settings)

\* Every later refresh of the lane (_set_autoscaling_metrics).
Refresh ==
    /\ \E b \in Backlog : shown' = Recommendation(b, settings)
    /\ UNCHANGED settings

ScalerSpec == ScalerInit /\ [][Refresh]_scalerVars

----------------------------------------------------------------------------
\* n replicas at the stated throughput drain the backlog within the target.
Drains(n) == n * settings.tps * settings.target >= shown.backlog

\* The deployment can drain at all: it has replicas, and they have throughput.
Working == settings.current > 0 /\ settings.tps > 0

\* The recommendation is the least number of replicas within the bounds that
\* drains the backlog within the target, or max if none does
\* (the ceiling and the clamp of recommend_replicas).
LeastThatDrains ==
    Working =>
        /\ shown.replicas \in settings.min .. settings.max
        /\ Drains(shown.replicas) \/ shown.replicas = settings.max
        /\ \A n \in settings.min .. (shown.replicas - 1) : ~Drains(n)

\* The two gauges tell the same story: within the bounds, more replicas than there
\* are now are recommended exactly when the estimated drain time exceeds the target.
GaugesAgree ==
    settings.current \in settings.min .. (settings.max - 1) =>
        (shown.replicas > settings.current
            <=> shown.drain.num > settings.target * shown.drain.den)

\* A longer backlog never lowers the recommendation.
MoreWorkNeverFewerReplicas ==
    [][shown'.backlog >= shown.backlog => shown'.replicas >= shown.replicas]_scalerVars

=============================================================================
