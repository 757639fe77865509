CONSTANTS
    N = 2
    MaxStreams = 1
    MaxWire = 2
    MaxFetches = 2
    MaxEvents = 3
    T = 2
    M = 1
    MaxOps = 2
    MaxTurns = 2
    AlbumEvents = 2
    Sids = {1, 2}
    Named = {1, 2}
    Names = {0, 1}
    Bucket = 2
    MaxClock = 3
    MaxSent = 3
    Codes = {0, 2, 5, 22, 31, 38, 48}
    MaxCodes = 5
    CoolDown = 2
    NudgeWindow = 3
    MaxNow = 5
    MaxPresses = 3
    Tabs = {t1, t2}
    Accounts = {a, b}
    MaxEnds = 2
    MaxRows = 2
    Good = {1}
    MaxSubmits = 3
    MaxLogins = 3
    RowPanes <- TwoPanes
    ClaudeOnes <- OneClaude
    FreshFor = 1
    MaxTime = 3
    MaxEdits = 3
    MaxDeploys = 2
    MaxWindows = 1
    MaxPushes = 1
    MaxTries = 2
    Ways = {"google", "apple"}
    StateTTL = 1
    MaxHours = 2
    MaxStarts = 2
    MaxReplays = 1
SPECIFICATION Spec
SYMMETRY Alike
INVARIANTS
    PageCaughtUp
    OwnWork
    SameReading
    ButtonsHonest
PROPERTIES
    NothingJumps
CHECK_DEADLOCK FALSE
