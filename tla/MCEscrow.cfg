CONSTANTS
    f1 = f1
    f2 = f2
    a1 = a1
    a2 = a2
    o = o
    Wallets = {o, f1, f2, a1, a2}
    Owner = o
    NoWallet = nobody
    Finders = {f1, f2}
    Rewards = {0, 2}
    Deadlines = {0, 1}
    Supply = 3
    VaultCap = 3
    DepositAmounts = {1}
    MaxTime = 5
    RejectWindow = 1
    ResolveWindow = 2
SYMMETRY Symmetry
SPECIFICATION Spec
INVARIANTS
    TypeOK
    Backed
    ActiveClaimsCounted
    RefundLeavesNoOpenClaim
    DisputeLock
    SettlementMatchesClaim
    VotesCounted
    OfferedStepsAreAccepted
    FundsHaveAnExit
PROPERTIES
    VerdictsAreFinal
    DisputedPayoutAuthorized
    RejectionWaitsForWindow
    KeepsPromise
    FollowsLifecycle
CHECK_DEADLOCK FALSE
