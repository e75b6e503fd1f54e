CONSTANTS
    NoView = NoView
    KubeEventThreshold = 5
    ClassicNodes <- MCClassic
    SlinkyNodes <- MCSlinky
    KubeNodes <- MCKube
    HostOf <- MCHostOf
    StartFlags <- MCFlags
    Pods <- MCPods
    PDBs <- MCPDBs
    StartPods <- MCStart
    JobHosts <- MCJobHosts
    MaxEvents = 3
SPECIFICATION Spec
INVARIANT BlameIsShared
CHECK_DEADLOCK FALSE
