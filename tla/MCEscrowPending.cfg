CONSTANTS
    o = o
    f1 = f1
    f2 = f2
    a1 = a1
    a2 = a2
    Wallets = {o, f1, f2, a1}
    Owner = o
    NoWallet = nobody
    Finders = {f1, f2}
    Rewards = {1}
    Deadlines = {1}
    Supply = 1
    VaultCap = 1
    DepositAmounts = {}
    MaxTime = 12
    RejectWindow = 1
    ResolveWindow = 2
SPECIFICATION FairSpec
PROPERTY PendingRejectionEnds
CHECK_DEADLOCK FALSE
