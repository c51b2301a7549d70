SPECIFICATION NodeSpec
CONSTANTS
    c1 = c1  c2 = c2  r1 = r1  s1 = s1
    n1 = n1  n2 = n2  n3 = n3  p1 = p1  p2 = p2  none = none
    Endpoints = {c1, c2, r1}
    Rooms = {r1}
    MaxConns = 2
    MaxDelay = 1
    MaxSlots = 2
    Order <- MCOrder
    Channel <- MCChannel
    Foreign <- MCForeign
    Empty <- MCEmpty
    OverrideChannel = TRUE
    OverrideContact = TRUE
    Strangers = {s1}
    Capacity = 1
    MaxAdverts = 1
INVARIANTS NodeTypeOK OwnSlot NoCrossTalk
PROPERTY ImplementsLink
CHECK_DEADLOCK FALSE
