SPECIFICATION FairSpec
CONSTANTS
    n1 = n1  n2 = n2  m1 = m1  m2 = m2  e1 = e1
    chat = chat  thread = thread  none = none
    NoTopic = NoTopic
    Hash = hash  hash = hash
    Configs <- MCConfigs
    MaxUpdates = 2
    MaxSignals = 2
INVARIANTS TypeOK AcceptedIsRoutable OrderlyStop
PROPERTIES LossNeedsAnEdge CancelledExits
CHECK_DEADLOCK FALSE
