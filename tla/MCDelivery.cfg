CONSTANTS
    d1 = d1  c = c  none = none  w1 = w1  second = second
    device = device  user = user
    Deliveries = {d1, c}
    Platforms = {"discord"}
    Channel <- MCChannel
    Recipient <- MCRecipient
    NoDelivery = none
    Workers = {w1, second}
    MaxAttempts = 2
    Batch = 1
    Redeliver = 1
    Retention = 1
    IdleCutoff = 1
    MaxTime = 3
    MaxCrashes = 1
    MaxDrops = 1
    MaxOverlaps = 1
SPECIFICATION MCSpec
INVARIANTS DeliveredWasReceived AttemptBudget
PROPERTIES QueueContract ResendNeedsCause Settles
CHECK_DEADLOCK FALSE
