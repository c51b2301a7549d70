SPECIFICATION Spec
CONSTANTS
    ann = ann  self = self  hi = hi
    w1 = w1  w2 = w2  tail = tail
    Foreign <- MCForeign
    Wires = {w1, w2}
    NoWire = NoWire
    Decoded <- MCDecoded
    TTL = 1
    HubSize = 1
    MaxTime = 3
INVARIANTS TypeOK SilenceForgets GuardIsExact
PROPERTIES DuplicatesSpaced MarkedEchoDropped
CHECK_DEADLOCK FALSE
