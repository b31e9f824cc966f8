\* Every token may be spent and every user logged out: the run may stop.
CHECK_DEADLOCK FALSE
SPECIFICATION Spec
CONSTANTS
    Users = {u1, u2}
    Tokens = {t1, t2, t3, t4, t5}
    Requests = {q1, q2}
    MaxFaults = 2
    None = None
SYMMETRY Symmetry
INVARIANTS TypeOK TradedInIsRevoked EndedStaysEnded BoundedForks
