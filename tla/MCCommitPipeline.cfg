SPECIFICATION Spec
CONSTANTS
    m1 = m1  m2 = m2  m3 = m3
    tg = tg  other = other  n1 = n1  n2 = n2
    Msgs = {m1, m2, m3}
    NoMsg = NoMsg
    NoRow = NoRow
    Messengers = {tg}
    Nodes = {n1, n2}
    Configs <- MCConfigs
    Source <- MCSource
    NativeId <- MCNativeId
    Target <- MCTarget
    Room <- MCRoom
    Refused <- MCRefused
    Capacity = 2
    Burst = 2
    BusyRetries = 2
    MaxCrashes = 1
INVARIANTS TypeOK OneInTheAir PersistBeforeAct NeverRequeued MirrorAfterCommit PendingIsBacked
PROPERTIES StatusForward
CHECK_DEADLOCK FALSE
