CONSTANTS
    lab = lab
    slinky = slinky
    n0 = n0
    n1 = n1
    Kube = kube
    Clusters <- MCClusters
    RESTClusters <- MCREST
    KubeConfigured = TRUE
    Pods <- MCPods
    SourceTimeout = 2
    MaxClock = 5
SPECIFICATION Spec
INVARIANTS
    TypeOK
    EverySourceAccountedFor
    AccountingAllOrNothing
    CrossLinked
    OneTimeoutAtMost
PROPERTIES
    AlwaysAnswered
    ReportsEverySource
