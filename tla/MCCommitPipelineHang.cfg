SPECIFICATION Spec
CONSTANTS
    m1 = m1  m2 = m2  m3 = m3
    tg1 = tg1  tg2 = tg2  n1 = n1
    Msgs = {m1, m2, m3}
    NoMsg = NoMsg
    NoRow = NoRow
    Messengers = {tg1, tg2}
    Nodes = {n1}
    Configs <- SameConfig
    Source <- MCSource
    NativeId <- MCNativeId
    Target <- MCTarget
    Room <- MCRoom
    Refused = {m3}
    Capacity = 2
    Burst = 3
    BusyRetries = 3
    MaxCrashes = 1
INVARIANT SentIsShown
CHECK_DEADLOCK FALSE
