CONSTANTS
    p1 = p1
    p2 = p2
    direct = direct
    Routes <- MCRoutes
    Pools <- MCPools
    Attempts = 2
    TransportRetries = 1
    TakenCanaries = 2
    FreeCanaries = 2
SPECIFICATION GuardFairSpec
INVARIANTS SoundNotCondemned OpenNeverPasses FullHearing
PROPERTIES KeepsPromise CheckEnds CaughtIsStopped
CHECK_DEADLOCK FALSE
