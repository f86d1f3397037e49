CONSTANTS
    p1 = p1
    p2 = p2
    p3 = p3
    masked = masked
    broken = broken
    Idle = Idle
    Gone = Gone
    Proxies = {p1, p2, p3, masked}
    Shown <- MCShown
    Broken = {broken}
    FirstList <- MCFirstList
    UserSaves <- MCUserSaves
    Testers = {w1, w2}
    MaxProxySaves = 2
    MaxStarts = 2
SPECIFICATION TestSpec
INVARIANTS NoProxyLost
PROPERTIES UntestedStays
CHECK_DEADLOCK FALSE
