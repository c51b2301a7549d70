SPECIFICATION NodeSpec
CONSTANTS
    c1 = c1  c2 = c2  r1 = r1  s1 = s1
    n1 = n1  n2 = n2  n3 = n3  p1 = p1  p2 = p2  none = none
    Endpoints = {c1, c2, r1}
    Rooms = {r1}
    MaxConns = 1
    MaxDelay = 1
    MaxSlots = 2
    Order <- MCOrder
    Channel <- MCChannel
    Foreign <- MCForeign
    Empty <- MCEmpty
    OverrideChannel = TRUE
    OverrideContact = TRUE
    Strangers = {s1}
    Capacity = 2
    MaxAdverts = 0
PROPERTY EvictsOnlyWhenFull
CHECK_DEADLOCK FALSE
