SPECIFICATION Spec
CONSTANTS
    c1 = c1
    c2 = c2
    c3 = c3
    None = None
    Calls = {c1, c2, c3}
    Names = {"s1", "s2"}
    Settings <- AllSettings
    MaxData = 2
SYMMETRY CallSymmetry
INVARIANTS LayerOwned LatestDataKept
PROPERTY FrozenStaysFrozen
CHECK_DEADLOCK FALSE
