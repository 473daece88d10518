SPECIFICATION Spec
CONSTANTS
    d1 = d1
    d2 = d2
    expired = expired
    Databases = {d1}
    Expired = expired
    Texts = {1}
    Links = {"home", "query", "gallery", "object", "objects"}
    MaxClicks = 4
    MaxTabs = 3
    MaxRequests = 2
    MaxConnects = 0
    MaxLoads = 1
    MaxFaults = 0
SYMMETRY DatabaseSymmetry
INVARIANTS
    PageShowsActiveTab
    TabsOutliveThePage
CHECK_DEADLOCK FALSE
