CONSTANTS
    Settings <- AllSettings
    Backlog <- Backlogs
SPECIFICATION ScalerSpec
INVARIANTS
    LeastThatDrains
    GaugesAgree
PROPERTIES
    MoreWorkNeverFewerReplicas
