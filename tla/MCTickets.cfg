CONSTANTS
    tool = tool
    egress = egress
    p1 = p1
    p2 = p2
    Unbounded = Unbounded
    MaxIssued = 4
    MaxRoots = 2
    MaxTickets = 3
    MaxDepth = 2
    TTL = 2
    Retain = 1
    MaxTime = 2
    Principals <- MCPrincipals
    Effects <- MCEffects
    Asks <- MCAsks
SPECIFICATION Spec
INVARIANTS
    TicketTypeOK
    RevocationReaches
    LineageIsWhole
    NoWiderThanAncestors
PROPERTIES
    EndIsFinal
CHECK_DEADLOCK FALSE
