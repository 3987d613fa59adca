SPECIFICATION Spec
CONSTANTS
    Users = {buyer, operator}
    Treasury = treasury
    Robots = {r1, r2}
    JobSpecs = {s1}
    Completions = {c1, c2}
    Prices = {9, 40}
    Deadlines = {2}
    Metrics <- NoMetrics
    ChallengeWindow = 2
    MaxTime = 4
    MaxJobs = 2
    MaxBonded = 8
    Buyers = {buyer}
    Operators = {operator}
    InitialFunds = 84
    InitialVRWX = 0
    BaseReward = 2
    UnlockDelay = 2
    SlashPercentBps = 2500
    AuthorizedCallers = {buyer}
    NonReceivers = {}
    EscrowReputation = "ReputationLedger"
    RewardsReputation = "ReputationLedger"
    EscrowRewards = "RewardsDistributor"
    DisputeStaking = "zero"
    DisputeReputation = "ReputationLedger"
    BondAmounts = {4}
    StakeAmounts = {}
INVARIANTS
    TypeOK
    MoneyAccounted
    BondAccounted
    BondsCovered
    DisputesMatchJobs
    ReceiptsMatchJobs
    WaitingSettlementsIntact
    ReputationMatchesHistory
    SettleableAfterWindow
    QuotesMatchContracts
PROPERTIES
    BondLossJustified
    ImplementsPromise
CHECK_DEADLOCK FALSE
