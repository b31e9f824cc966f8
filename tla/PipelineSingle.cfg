SPECIFICATION Spec
CONSTANTS
    p1 = p1
    p2 = p2
    p3 = p3
    Prompts = {p1, p2, p3}
    Instances = {i1}
    Ticks = {t1, t2}
    JobIds = {1, 2, 3, 4}
    BatchSize = 2
    MaxAttempts = 3
    MaxStalls = 1
    Tiers <- MCTiers
    FaultKinds = {"poll", "enqueue", "job", "lock", "crash"}
    MaxFaults = 2
    None = None
SYMMETRY Symmetry
INVARIANTS TypeOK OneJobPerPrompt AnnouncedOnce
PROPERTIES CompletedIsFinal OldestFirst PaidFirst
