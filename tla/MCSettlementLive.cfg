SPECIFICATION FairSpec
CONSTANTS
    Users = {buyer, mute, operator}
    Treasury = treasury
    Robots = {r1}
    JobSpecs = {s1}
    Completions = {c1, c2}
    Prices = {9}
    Deadlines = {2}
    Metrics <- NoMetrics
    ChallengeWindow = 2
    MaxTime = 4
    MaxJobs = 2
    MaxBonded = 8
    Buyers = {buyer, mute}
    Operators = {operator}
    InitialFunds = 84
    InitialVRWX = 4
    BaseReward = 1
    UnlockDelay = 2
    SlashPercentBps = 2500
    AuthorizedCallers = {buyer}
    NonReceivers = {mute}
    EscrowReputation = "ReputationLedger"
    RewardsReputation = "ReputationLedger"
    EscrowRewards = "RewardsDistributor"
    DisputeStaking = "StakingGate"
    DisputeReputation = "ReputationLedger"
    BondAmounts = {4}
    StakeAmounts = {4}
PROPERTIES
    CompletedIsDecided
CHECK_DEADLOCK FALSE
