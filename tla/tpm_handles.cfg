SPECIFICATION Spec
CONSTANTS
    i1 = i1
    i2 = i2
    Procs = {i1, i2}
    Free = Free
    ObjectSlots = 4
    SessionSlots = 2
    MaxConnections = 3
    MaxCalls = 4
    MaxFaults = 2
INVARIANTS
    UsesWhatItLoaded
    
PROPERTIES
    HealthyTpmAnswers
CHECK_DEADLOCK FALSE
