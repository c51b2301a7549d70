SPECIFICATION FairSpec
CONSTANTS
    e1 = e1  e2 = e2
    Endpoints = {e1, e2}
    Rooms = {e2}
    MaxConns = 3
    MaxDelay = 2
INVARIANTS TypeOK OneConnection WaitingIsResolved
PROPERTY HeardDropRecovers
CHECK_DEADLOCK FALSE
