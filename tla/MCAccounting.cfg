CONSTANTS
    NoView = NoView
    KubeEventThreshold = 3
    IncidentGap = 1
    CasualtySlack = 1
    HistoryWindow = 2
    EventWindow = 3
    DrainingDeath = "DOWN"
    MaxTime = 6
    MaxChanges = 3
    MaxJobs = 1
    MaxPending = 2
CHECK_DEADLOCK FALSE
SPECIFICATION Spec
INVARIANTS
    TypeOK
    CasualtiesExplained
    EatenJobsCounted
    IncidentsAreOutages
