SPECIFICATION Spec
SYMMETRY MCSymmetry
CONSTANTS
    i1 = i1
    s1 = s1
    b1 = b1
    p1 = p1
    p2 = p2
    d1 = d1
    r1 = r1
    r2 = r2
    r3 = r3
    Issues <- MCIssues
    Sprints <- MCSprints
    Statuses <- MCStatuses
    Backlogs <- MCBacklogs
    SprintPages <- MCSprintPages
    Dashboards <- MCDashboards
    OpenSets <- MCOpenSets
    Requests <- MCRequests
    None = None
CHECK_DEADLOCK FALSE
INVARIANTS
    TypeOK
    SettledPageIsRight
PROPERTIES
    StrandedUnknowingly
    ReopenedUnknowingly
