CONSTANTS
    o = o
    f1 = f1
    f2 = f2
    a1 = a1
    Wallets = {o, f1, f2, a1}
    Owner = o
    NoWallet = nobody
    Finders = {f1, f2}
    Rewards = {0, 2}
    Deadlines = {0, 1, 2}
    Supply = 3
    VaultCap = 4
    DepositAmounts = {1}
    MaxTime = 3
SPECIFICATION FairSpec
INVARIANTS
    FinderOfClaim
PROPERTIES
    KeepsPromise
    FundsLeaveEscrow
CHECK_DEADLOCK FALSE
