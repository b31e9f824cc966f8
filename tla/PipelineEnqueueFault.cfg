SPECIFICATION FairSpec
CONSTANTS
    p1 = p1
    p2 = p2
    p3 = p3
    Prompts = {p1, p2}
    Instances = {i1}
    Ticks = {t1}
    JobIds = {1, 2, 3, 4}
    BatchSize = 1
    MaxAttempts = 3
    MaxStalls = 1
    Tiers <- MCTiers
    FaultKinds = {"enqueue"}
    MaxFaults = 1
    None = None
PROPERTIES PickedUp
