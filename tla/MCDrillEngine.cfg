CONSTANT Drills <- AllDrills
SPECIFICATION Spec
INVARIANTS
    TypeOK
    PassLeavesNothing
    CleanupFirst
PROPERTIES
    PutBack
    DrillEnds
