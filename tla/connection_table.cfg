CONSTANTS
    s1 = s1
    s2 = s2
    Sessions <- MCSessions
    Freed = Freed
    FirstCapacity = 3
    Timeout = 2
    MaxIds = 5
    MaxTime = 4
SYMMETRY Symmetry
SPECIFICATION Spec
INVARIANTS
    PutFindsRoom
    HomesUntilWrap
    IdsLeadToTheirSessions
PROPERTIES
    OnlyIdleDropped
CHECK_DEADLOCK FALSE
