CONSTANTS
    p1 = p1  p2 = p2
    tree = tree  x = x
    v1 = v1  v2 = v2
    d1 = d1
    Polls = {p1, p2}
    Structures = {tree}
    Contents = {x}
    WithAttention = {}
    OnsetDebounce = 2
    WatchedFloor = 3
    IdleFloor = 4
    Keepalive = 3
    HeartbeatDefault = 9
    HeartbeatMin = 9
    HeartbeatMax = 9
    Intervals = {12}
    MaxWall = 8
    PollEvery = 2
    Hold = 1
    Watchdog = 4
    Lag = 1
    MaxFaults = 1
    MaxRestarts = 1
    MaxClicks = 1
    Viewers = {v1, v2}
    Slots = {d1}
    Pro = FALSE
    TTL = 0
    Window = 1
    Retention = 1
    MaxTime = 2
    MaxLosses = 1
SPECIFICATION MCSpec
INVARIANTS OneOutstanding StaysFresh RefreshInTime RowsBounded FulfilledHasFrame
PROPERTIES AutoWithinWindow
SYMMETRY Symmetry
CHECK_DEADLOCK FALSE
