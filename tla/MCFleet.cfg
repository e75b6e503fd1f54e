CONSTANTS
    NoView = NoView
    KubeEventThreshold = 3
    ClassicNodes <- MCClassic
    SlinkyNodes <- MCSlinky
    KubeNodes <- MCKube
    HostOf <- MCHostOf
    StartFlags <- MCFlags
    Pods <- MCPods
    PDBs <- MCPDBs
    StartPods <- MCStart
    JobHosts <- MCJobHosts
    MaxEvents = 3
SPECIFICATION Spec
INVARIANTS
    TypeOK
    NoNodeLost
    BlameIsShared
    BlockedDrainIsRefused
    RunningJobsSeen
    DoneMeansDone
    AnswersAgree
    RankedAndCounted
    AdviceShows
CHECK_DEADLOCK FALSE
