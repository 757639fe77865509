CONSTANTS
    Browsers = {b1, b2}
    Identities = {owner, user}
    LocalOwner = owner
    Deployments <- Offers
    Capacity = 1
    MaxMinutes = 1
    MaxEvents = 4
    Duration = 2
    Validity = 2
    TierCap = 3
    GenEvery = 1
    MaxCodes = 3
    MaxNow = 1
    Platforms = {"discord", "telegram"}
    ChatUsers = {"u1", "u2"}
    PlatformOf <- TwoUsers
    Tokens = {t1, t2}
    Socks = {1, 2, 3, 4}
    Loops = {1, 2}
    PingEvery = 2
    PongWithin = 1
    MaxIdle = 3
    StableAfter = 1
    MaxBackoff = 3
    MaxTrouble = 2
    Asks = {1, 2}
    V = 3
    Pre = {3}
    PollEvery = 4
    Timeout = 1
    MaxEdits = 4
    MaxFaults = 2
    Passes = {1}
    Chats = {1, 2}
    Calls = {1, 2}
    MaxPolls = 2
    MaxMints = 2
    MaxChanges = 1
SPECIFICATION Spec
INVARIANTS SignInSound GrantsSound BackoffKept Recovers ToldLinked MirrorsLatest
PROPERTIES NothingTaken NoFalseEnd
SYMMETRY Swapped
CHECK_DEADLOCK FALSE
