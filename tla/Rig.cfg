SPECIFICATION Spec
CONSTANTS
    s1 = s1
    s2 = s2
    Slot <- MCSlot
    None = None
    MaxAsks = 3
    MaxLost = 1
SYMMETRY Sym
INVARIANTS StopAllIsFinal JogTakesOver
CHECK_DEADLOCK FALSE
