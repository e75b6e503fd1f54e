CONSTANTS
    NoView = NoView
    KubeEventThreshold = 3
    Callers = {c1}
    Reasons <- MCReasons
    Faults <- AllFaults
    MaxEvents = 3
SPECIFICATION Spec
INVARIANTS
    TypeOK
    PromoteEarned
PROPERTIES
    HardwareDrainHeld
    WaitEnds
CHECK_DEADLOCK FALSE
