SPECIFICATION Spec
CONSTANTS
    p1 = p1
    p2 = p2
    Users = {u1, u2}
    Admins = {u2}
    Products = {p1}
    OrderIds = {o1, o2, o3}
    Clients = {c1, c2}
    Carts <- MCCarts
    Rows <- MCRows
    MaxUses = 1
    MinAmount = 2
    MaxRequests = 4
INVARIANTS
    ActiveOrdersBounded
    UsesWithinLimit
PROPERTIES
    OversoldOnlyByTwoLines
    FreshCommitsConserve
CHECK_DEADLOCK FALSE
SYMMETRY MCSymmetry
