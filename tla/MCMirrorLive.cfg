CONSTANTS
    c1 = c1
    c2 = c2
    t1 = t1
    t2 = t2
    Claims = {c1}
    Sessions = {t1, t2}
    BountyRow = bounty
    NoRow = none
    ActionsAsked = {"request_info"}
    MaxActions = 1
    MaxUploads = 1
    MaxReviews = 0
    MayDie = FALSE
SPECIFICATION FairSpec
PROPERTIES
    RequestsEnd
    MirrorConverges
CHECK_DEADLOCK FALSE
