SPECIFICATION Spec
CONSTANTS
    m1 = m1  m2 = m2
    Messages = {m1, m2}
    NoTask = NoTask
    MaxLives = 2
INVARIANT NoStaleReaction
CHECK_DEADLOCK FALSE
