SPECIFICATION Spec
CONSTANTS
    Clients = {c1, c2}
    Casts = {b1, b2}
    Projects = {p1, p2}
    BufferSize = 1
    NoClient = NoClient
    NoCast = NoCast
INVARIANT HandlerOwnsSocket
