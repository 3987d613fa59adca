SPECIFICATION MarketSpec
CONSTANTS
    Users = {buyer, operator, book}
    Treasury = treasury
    Robots = {r1}
    JobSpecs = {s1}
    Completions = {c1}
    Prices = {40}
    Deadlines = {2}
    Metrics <- BestMetric
    ChallengeWindow = 1
    MaxTime = 3
    MaxJobs = 2
    MaxBonded = 8
    Buyers = {buyer}
    Operators = {operator}
    InitialFunds = 84
    InitialVRWX = 6
    BaseReward = 10
    UnlockDelay = 1
    SlashPercentBps = 2500
    AuthorizedCallers = {book}
    NonReceivers = {}
    EscrowReputation = "ReputationLedger"
    RewardsReputation = "ReputationLedger"
    EscrowRewards = "RewardsDistributor"
    DisputeStaking = "StakingGate"
    DisputeReputation = "ReputationLedger"
    BondAmounts = {4}
    StakeAmounts = {4}
    Book = book
    BookStaking = "StakingGate"
    MinStakeVRWX = 4
    ListingFee = 1
    JobExtension = 1
    MaxOffers = 2
    Durations = {1}
    Expiries = {2}
INVARIANTS
    SalesMatchJobs
    SalesPaidAndBonded
PROPERTIES
    StakeLossJustified
    VRWXSupplyJustified
    ExpiredJobFrozen
    MarketImplementsPromise
CHECK_DEADLOCK FALSE
