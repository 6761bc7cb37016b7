SPECIFICATION Spec
SYMMETRY MCSymmetry
CONSTANTS
    u1 = u1
    u2 = u2
    p1 = p1
    p2 = p2
    k1 = k1
    n1 = n1
    n2 = n2
    r1 = r1
    r2 = r2
    Users <- MCUsers
    Projects <- MCProjects
    Keys <- MCKeys
    Names <- MCNames
    Asked <- MCAsked
    Others <- MCOthers
    Requests <- MCRequests
    Me = u1
    WatchedSets <- MCWatchedSets
    MaxFetches = 2
    MaxLoads = 2
    None = None
CHECK_DEADLOCK FALSE
INVARIANTS
    TypeOK
    KeysDistinct
    ConflictsAreRaces
    SidebarTellsProject
    SettledListsAreRight
PROPERTIES
    LockedOutKnowingly
