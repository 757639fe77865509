CONSTANTS
    h1 = h1  h2 = h2  s1 = s1  s2 = s2  machine = machine  none = none
    p1 = p1  p2 = p2  idle = idle  off = off
    Handlers = {h1, h2}
    Keys <- MCKeys
    NoKey = none
    SidOf <- TwoPanes
    MachineScope = machine
    IdleKey = idle
    OfflineKey = off
    Tiers = {"pro"}
    Threshold <- MCThreshold
    Cooldown <- MCCooldown
    Scopes <- OneScope
    Stale = 1
    Lookback = 3
    MaxTime = 2
    MaxJobs = 3
    MaxCrashes = 0
    MaxForgets = 0
SPECIFICATION MCSpec
SYMMETRY Symmetry
INVARIANTS FiredIsEnqueued
CHECK_DEADLOCK FALSE
