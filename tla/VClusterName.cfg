CONSTANTS
    NoView = NoView
    KubeEventThreshold = 3
    ClassicNodes <- MCClassic
    SlinkyNodes <- MCSlinky
    KubeNodes <- MCKube
    HostOf <- MCHostOf
    StartFlags <- NameFlags
    Pods <- MCPods
    PDBs <- MCPDBs
    StartPods <- MCStart
    JobHosts <- MCJobHosts
    MaxEvents = 3
SPECIFICATION Spec
INVARIANT NoNodeLost
CHECK_DEADLOCK FALSE
