CONSTANTS
    p1 = p1
    p2 = p2
    tree = tree  x = x
    v1 = v1  v2 = v2  d1 = d1
    Viewers = {}
    Slots = {}
    Pro = FALSE
    TTL = 0
    Window = 0
    Retention = 0
    MaxTime = 0
    MaxLosses = 0
    Polls = {p1, p2}
    Structures = {tree}
    Contents = {x}
    WithAttention = {}
    OnsetDebounce = 2
    WatchedFloor = 3
    IdleFloor = 4
    Keepalive = 3
    HeartbeatDefault = 13
    HeartbeatMin = 13
    HeartbeatMax = 13
    Intervals = {13}
    MaxWall = 12
    PollEvery = 2
    Hold = 1
    Watchdog = 4
    Lag = 1
    MaxFaults = 0
    MaxRestarts = 1
    MaxClicks = 2
SPECIFICATION MCSpec
INVARIANTS RefreshAfterRestart
CHECK_DEADLOCK FALSE
