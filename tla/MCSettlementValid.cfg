SPECIFICATION Spec
CONSTANTS
    Users = {buyer, operator}
    Treasury = treasury
    Robots = {r1}
    JobSpecs = {s1}
    Completions = {c1, c2}
    Prices = {40}
    Deadlines = {2}
    Metrics <- NoMetrics
    ChallengeWindow = 2
    MaxTime = 4
    MaxJobs = 1
    MaxBonded = 8
    Buyers = {buyer}
    Operators = {operator}
    InitialFunds = 84
    InitialVRWX = 0
    BaseReward = 1
    UnlockDelay = 2
    SlashPercentBps = 2500
    AuthorizedCallers = {buyer}
    NonReceivers = {}
    EscrowReputation = "ReputationLedger"
    RewardsReputation = "ReputationLedger"
    EscrowRewards = "RewardsDistributor"
    DisputeStaking = "zero"
    DisputeReputation = "ReputationLedger"
    BondAmounts = {4}
    StakeAmounts = {}
INVARIANTS
    ValidVerdictFreesBond
CHECK_DEADLOCK FALSE
