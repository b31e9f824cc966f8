SPECIFICATION FairSpec
CONSTANTS
    r1 = r1
    r2 = r2
    own1 = own1
    first = first
    second = second
    Rows = {r1, r2}
    Lists = {first, second}
    OwnKeys = {own1}
    Own <- MCOwn
    Shows <- MCShows
    Clients = {c1, c2}
    Paths = {"update", "produce", "around"}
    MaxVersion = 2
    MaxFaults = 1
    None = None
INVARIANTS TypeOK StaleIsExplained
PROPERTIES EventuallyCoherent
