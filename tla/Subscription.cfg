SPECIFICATION FairSpec
CONSTANTS
    Requests = {q1, q2, q3}
    Tokens = {t1, t2}
    None = None
INVARIANTS TypeOK FewRepeats TierIsExplained
PROPERTIES EventuallyAgree
