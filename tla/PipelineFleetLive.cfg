SPECIFICATION FairSpec
CONSTANTS
    p1 = p1
    p2 = p2
    p3 = p3
    Prompts = {p1}
    Instances = {i1, i2}
    Ticks = {t1}
    JobIds = {1, 2}
    BatchSize = 1
    MaxAttempts = 3
    MaxStalls = 1
    Tiers <- MCTiers
    FaultKinds = {"job", "generate", "cache", "publish", "rollback", "lock"}
    MaxFaults = 1
    None = None
INVARIANTS NoOrphan
PROPERTIES EventuallyCompleted EventuallyAnnounced
