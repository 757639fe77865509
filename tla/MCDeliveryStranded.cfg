CONSTANTS
    d1 = d1  c = c  none = none  w1 = w1  second = second
    device = device  user = user
    Deliveries = {c}
    Platforms = {"discord"}
    Channel <- MCChannel
    Recipient <- MCRecipient
    NoDelivery = none
    Workers = {w1}
    MaxAttempts = 2
    Batch = 2
    Redeliver = 1
    Retention = 3
    IdleCutoff = 1
    MaxTime = 6
    MaxCrashes = 0
    MaxDrops = 2
    MaxOverlaps = 0
SPECIFICATION MCSpec

INVARIANTS NoneStranded
CHECK_DEADLOCK FALSE
