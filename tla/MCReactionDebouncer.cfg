SPECIFICATION FairSpec
CONSTANTS
    m1 = m1  m2 = m2
    Messages = {m1, m2}
    NoTask = NoTask
    MaxLives = 2
INVARIANTS TypeOK SentIsClean ClearIsNeeded
PROPERTY VerdictIsDrawn
CHECK_DEADLOCK FALSE
