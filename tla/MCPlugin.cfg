CONSTANTS
    p1 = p1
    i1 = i1  i2 = i2  c1 = c1  c2 = c2
    Structures <- Structure
    Contents = {}
    WithAttention <- Alerting
    Panes = {p1}
    Raws <- SomeRaws
    StaleTicks = 3
    OnsetDebounce = 2
    WatchedFloor = 3
    IdleFloor = 4
    Keepalive = 4
    HeartbeatDefault = 4
    HeartbeatMin = 2
    HeartbeatMax = 4
    Intervals = {9}
    MaxEvents = 3
    MaxWall = 6
    Instances = {i1, i2}
    Codes = {c1, c2}
    Settings <- TwoSettings
    MaxPolls <- Polls
    MaxMishaps = 1
SPECIFICATION MCSpec
INVARIANTS SilenceBounded OnsetPrompt AttentionsTrue SettingsHold PairingSound
PROPERTIES NothingRevoked
CHECK_DEADLOCK FALSE
