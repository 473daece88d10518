SPECIFICATION Spec
CONSTANTS
    d1 = d1
    d2 = d2
    expired = expired
    Databases = {d1, d2}
    Expired = expired
    Texts = {2}
    Links = {"query"}
    MaxClicks = 3
    MaxTabs = 1
    MaxRequests = 4
    MaxConnects = 1
    MaxLoads = 1
    MaxFaults = 1
SYMMETRY DatabaseSymmetry
INVARIANTS
    TabsShowTheirLastAnswer
    ListIsCurrent
CHECK_DEADLOCK FALSE
