CONSTANTS
    a = a
    b = b
    B = B
    c = c
    d = d
    Names = {a, b, B, c, d}
    Key <- MCKey
    InitialFile = {a, b, c}
    UserSaves <- MCUserSaves
    PruneBatchLimit = 2
    MaxUpsets = 2
SPECIFICATION Spec
INVARIANTS PrunedIsRecorded RecordedOnce CleanStopPrunes SeenFileIsLoaded
CHECK_DEADLOCK FALSE
