SPECIFICATION Spec
CONSTANTS
    i1 = i1
    i2 = i2
    r1 = r1
    r2 = r2
    p1 = p1
    p2 = p2
    Issues <- MCIssues
    Boards = {b1}
    Requests <- MCRequests
    Pods <- MCPods
    STATUSES = {"todo", "done"}
    BufferSize = 1
    Gap = 3
    Absent = Absent
    Keep = Keep
    Elsewhere = Elsewhere
    None = None
SYMMETRY MCSymmetry
INVARIANT SyncsLive
