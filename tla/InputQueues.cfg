SPECIFICATION Spec
CONSTANTS
    k1 = k1
    f10 = f10
    b1 = b1
    b2 = b2
    Keys = {k1, f10}
    SystemKeys = {f10}
    Buttons = {b1, b2}
    Threshold = 1
    MaxBuffer = 2
SYMMETRY ButtonSymmetry
INVARIANTS
    EventsTellTheState
    WrongOnlyIfMissed
