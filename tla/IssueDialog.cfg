SPECIFICATION Spec
SYMMETRY MCSymmetry
CONSTANTS
    i1 = i1
    i2 = i2
    x1 = x1
    x2 = x2
    c1 = c1
    f1 = f1
    r1 = r1
    r2 = r2
    r3 = r3
    Issues <- MCIssues
    Texts <- MCTexts
    Comments <- MCComments
    Files <- MCFiles
    Requests <- MCRequests
    None = None
    Gone = Gone
CHECK_DEADLOCK FALSE
INVARIANTS
    TypeOK
    BucketMatchesRows
    DialogIsChosen
    SettledListsAreRight
