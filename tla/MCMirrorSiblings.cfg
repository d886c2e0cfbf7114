CONSTANTS
    c1 = c1
    c2 = c2
    t1 = t1
    t2 = t2
    Claims = {c1, c2}
    Sessions = {t1, t2}
    BountyRow = bounty
    NoRow = none
    ActionsAsked = {}
    MaxActions = 0
    MaxUploads = 2
    MaxReviews = 1
    MayDie = TRUE
SPECIFICATION Spec
SYMMETRY TwoClaimSymmetry
PROPERTIES
    SettlementClosesSiblings
CHECK_DEADLOCK FALSE
