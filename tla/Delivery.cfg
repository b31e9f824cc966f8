SPECIFICATION FairSystem
CONSTANTS
    p1 = p1
    p2 = p2
    alice = alice
    bob = bob
    c1 = c1
    c2 = c2
    Prompts = {p1}
    Owner <- MCOwner
    Gateways = {i1}
    Clients = {c1, c2}
    UserOf <- MCUserOf
    MaxBreaks = 2
    Instances = {i1}
    Ticks = {t1}
    JobIds = {1, 2}
    BatchSize = 1
    MaxAttempts = 3
    MaxStalls = 1
    Tiers <- MCTiers
    FaultKinds = {"job", "generate", "cache", "publish"}
    MaxFaults = 2
    MaxTroubles = 2
    None = None
INVARIANTS TypeOK InOrder EachOwn ToldHasAudio NoOrphan
PROPERTIES EventuallyTold EventuallyCompleted
