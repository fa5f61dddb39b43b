SPECIFICATION Spec
CHECK_DEADLOCK FALSE
SYMMETRY Symmetry
CONSTANTS
    alice = alice
    bob = bob
    p1 = p1
    p2 = p2
    User <- MCUser
    Req <- MCReq
    AdminRole <- MCAdminRole
    ApiTtl = 2
    PageTtl = 1
    MaxRead = 1
    MaxTime = 2
    MaxWrites = 2
    MaxRequests = 3
INVARIANTS
    ApiDecisionFresh
    PageDecisionFresh
PROPERTIES
    OnlyRacesDeleteLastAdmin
