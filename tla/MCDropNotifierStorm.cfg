SPECIFICATION FairSpec
CONSTANTS
    a1 = a1  a2 = a2  b1 = b1  wa = wa  wb = wb
    DropKeys = {a1, a2, b1}
    Windows = {wa, wb}
    WindowOf <- MCWindowOf
    Window = 2
    Interval = 1
    MaxLag = 3
    MaxCount = 2
PROPERTY TailFlushed
