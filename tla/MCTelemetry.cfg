CONSTANTS
    s1 = s1  s2 = s2  p1 = p1  p2 = p2
    Sids <- MCSessions
    Panes <- MCPanes
    SidOf <- MCSidOf
    Marked <- MCMarked
    Verdict <- MCVerdict
    Fingerprints = {1, 2, 3, 4}
    StaleAfter = 1
    Threshold = 1
    Lookback = 3
    Cap = 3
    MaxPosts = 2
    MaxChanges = 1
    MaxLifecycle = 2
    MaxForgets = 1
    MaxLosses = 1
    MaxEvents = 3
SPECIFICATION MCSpec
INVARIANTS ForgottenFades IdleIsSilence
PROPERTIES Converges
CHECK_DEADLOCK FALSE
