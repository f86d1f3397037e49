CONSTANTS
    w1 = w1
    w2 = w2
    w3 = w3
    w4 = w4
    Threads = {w1, w2, w3, w4}
    Slot = 20
    MinLimit = 40
    MaxLimit = 60
    Ceilings <- MCCeilings
    GrowStreak = 2
    CutCooldown = 1
    ProbeInterval = 1
SPECIFICATION FairSpec
INVARIANTS CapInRange InflightExact WaitersCovered
PROPERTIES CancelFreesWaiters FreeSlotIsTaken CapRecovers
CHECK_DEADLOCK FALSE
