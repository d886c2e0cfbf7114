CONSTANTS
    Listings = {"l1"}
    Claims = {"c1"}
    Tasks = {1, 2}
    Rooms = {1, 2}
    Changes = 2
    Reloads = 1
    Instances = {"i1", "i2"}
    Limit = 2
    Window = 2
    Waiting = 1
    Txs = {1, 2, 3}
    Handlers = {1, 2}
    Slips = {1, 2, 3}
    DayQuota = 1
    Target = 2
    Spendable = 2
    Users = {"u1", "u2"}
    Wallets = {"w1", "w2"}
    Sessions = {1, 2}
    NoWallet = "no wallet"
    Challenges = {1, 2}
    Parties = {"p1", "p2", "p3"}
    Bounties = {"b1", "b2"}
    Rewards = {1, 2}
    MaxReturns = 2
    MaxTokens = 3
    Signers = {"w1", "w2", "w3"}
    Sponsor = "sponsor"
    IdLengths = {1, 32}
    IdSizes = {1, 2, 3, 4, 5, 6, 7, 8, 9, 10, 11, 12, 13, 14, 15, 16,
               17, 18, 19, 20, 21, 22, 23, 24, 25, 26, 27, 28, 29, 30, 31, 32}
    Tags = {"t1", "t2", "t3"}
    Scanned = "t1"
    TagQuota = 1
    ReportQuota = 1
    Makers = {1, 2}
    Visitors = {1, 2}
    Reviews = {1, 2}
    Varied = {1}
    Forms = {"f1", "f2"}
    Refreshes = {"r1", "r2"}
SPECIFICATION Spec
INVARIANTS
    RetainedUnlessDisturbed
    BurstsAreBounded
    PaidOnce
    GrantsAreBounded
    LinkedWalletIsProven
    ReputationMatchesAttestations
    AccountsMatchProgram
    DecodesWhatWasEncoded
    TagLimitsHold
    ReviewsAreCautious
    ReportsVerify
    EvidenceIsKept
PROPERTIES
    ViewConverges
    ResumeSucceeds
CHECK_DEADLOCK FALSE
