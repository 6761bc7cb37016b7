SPECIFICATION Spec
SYMMETRY MCSymmetry
CONSTANTS
    t1 = t1
    t2 = t2
    f1 = f1
    f2 = f2
    c1 = c1
    c2 = c2
    e1 = e1
    e2 = e2
    Tabs <- MCTabs
    Forms <- MCForms
    Calls <- MCCalls
    Emails <- MCEmails
    MaxBusy = 3
    None = None
    Unsure = Unsure
INVARIANTS
    TypeOK
    RefusalsAreRaces
    SessionIsChosen
    ExpiryIsInvisible
