SPECIFICATION Spec
CONSTANTS
    c1 = c1
    c2 = c2
    c3 = c3
    None = None
    Calls = {c1, c2}
    Names = {"s1", "s2"}
    Settings <- ClonesOnly
    MaxData = 2
INVARIANT RestartKept
CHECK_DEADLOCK FALSE
