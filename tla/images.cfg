SPECIFICATION ImagesSpec
CONSTANTS
    a1 = a1
    a2 = a2
    None = None
    Digests = {"m1", "m2", "m3", "i2", "i4", "c1", "c2", "c3"}
    Content <- Blobs
    Arch = "amd64"
    Callers = {a1, a2}
    Names = {"n"}
    Options <- SomeOptions
    Settings <- AllSettings
    MaxCalls = 3
    MaxChanges = 2
SYMMETRY CallerSymmetry
INVARIANTS OneImage  
CHECK_DEADLOCK FALSE
