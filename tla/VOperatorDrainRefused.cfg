CONSTANTS
    NoView = NoView
    KubeEventThreshold = 3
    Callers = {c1}
    DrainReasons <- MCReasons
    ReturnToService = 2
    Faults <- AllFaults
    MaxDisruptions = 3
SPECIFICATION Spec
PROPERTY
    OperatorDrainRefused
CHECK_DEADLOCK FALSE
