CONSTANTS
    c1 = c1
    c2 = c2
    t1 = t1
    t2 = t2
    Claims = {c1}
    Sessions = {t1, t2}
    BountyRow = bounty
    NoRow = none
    ActionsAsked = {"send_message", "propose_handover", "accept_handover", "cancel_handover", "mark_delivered"}
    MaxActions = 4
    MaxUploads = 1
    MaxReviews = 0
    MayDie = TRUE
SPECIFICATION Spec
SYMMETRY OneClaimSymmetry
INVARIANTS
    HandoverInStep
    AgreedByBoth
    VerdictsAreReal
PROPERTIES
    ClosedIsClosed
CHECK_DEADLOCK FALSE
