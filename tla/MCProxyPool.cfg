CONSTANTS
    p1 = p1
    p2 = p2
    Proxies = {p1, p2}
    Pools <- MCPools
    Users = {u1, u2}
    MaxFails = 2
    SlowProbeInterval = 2
SPECIFICATION FairSpec
INVARIANTS HealthyExact QuarantineEarned
PROPERTIES NoProxyExiled
