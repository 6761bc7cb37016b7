SPECIFICATION Spec
CONSTANTS
    i1 = i1
    i2 = i2
    r1 = r1
    r2 = r2
    r3 = r3
    r4 = r4
    s1 = s1
    Projects = {p1}
    IssueIds <- MCIssueIds
    Requests <- MCRequests
    Mixes <- MCThree
    Sprints <- MCSprints
    validStatuses <- MCStatuses
    BadStatus = "blocked"
    NoSprint = NoSprint
    NoRow = NoRow
    NoIssue = NoIssue
    NoRequest = NoRequest
    Keep = Keep
SYMMETRY MCSymmetry
INVARIANT AuditTellsStatus
