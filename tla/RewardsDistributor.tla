--------------------------- MODULE RewardsDistributor ---------------------------
(***************************************************************************)
(* contracts/src/depin/RewardsDistributor.sol and the VRWX token it mints  *)
(* (depin/VRWXToken.sol): the reward of a settled job that has work units, *)
(* scaled by its quality and by the robot's reliability.                   *)
(***************************************************************************)
EXTENDS ReputationLedger

CONSTANTS
    BaseReward,         \* VRWX per work unit before the multipliers (100 ether in the code)
    InitialVRWX,        \* what each user holds at the start
    RewardsReputation   \* reputationLedger, as setReputationLedger set it

ASSUME RewardAssumption == BaseReward \in Nat /\ InitialVRWX \in Nat

VARIABLE vrwx       \* VRWX balance of each account

VRWXInit == vrwx = [a \in Accounts |-> IF a \in Users THEN InitialVRWX ELSE 0]

\* The quality scores a claim can carry (uint8); the code expects 80 to 120.
QualityScores == 0..255

\* 80..120 maps to 0.8x..1.2x, in basis points.
QualityMultiplier(score) ==
    IF score < 80 THEN 8000
    ELSE IF score >= 120 THEN 12000
    ELSE 8000 + (score - 80) * 100

\* 0..10000 maps to 0.5x..1.5x, in basis points.
ReliabilityMultiplier(bps) == 5000 + (bps * 10000) \div 10000

\* _getReliabilityMultiplier: 1x without a ledger, and else by the score it answers.
RobotMultiplier(rep) ==
    IF RewardsReputation = NoAddress
    THEN 10000
    ELSE ReliabilityMultiplier(ReliabilityScoreBps(rep))

Reward(quality, units, multiplier) ==
    (BaseReward * units * QualityMultiplier(quality) * multiplier) \div 100000000

\* onJobFinal, called by JobEscrow.settle: mints the reward to the controller.
OnJobFinal(to, quality, units, rep) ==
    [vrwx EXCEPT ![to] = @ + Reward(quality, units, RobotMultiplier(rep))]
================================================================================
