------------------------------ MODULE StakingGate ------------------------------
(***************************************************************************)
(* contracts/src/depin/StakingGate.sol: the VRWX an operator stakes, the   *)
(* delay before it can be taken back, and the part a lost dispute costs.   *)
(***************************************************************************)
EXTENDS RewardsDistributor

CONSTANTS
    UnlockDelay,        \* UNLOCK_DELAY (7 days)
    SlashPercentBps     \* slashPercentBps (2500)

ASSUME StakingAssumption ==
    /\ UnlockDelay \in Nat \ {0}
    /\ SlashPercentBps \in 0..10000

VARIABLE stakes     \* each user's stake, and the unlock it requested (at 0: none)

NoStake == [staked |-> 0, unlockAmount |-> 0, unlockRequestedAt |-> 0]

StakingInit == stakes = [u \in Users |-> NoStake]

UnlockPending(s) == s.unlockRequestedAt # 0

WithoutUnlock(s) == [s EXCEPT !.unlockAmount = 0, !.unlockRequestedAt = 0]

Stake(u, amount) ==
    /\ amount # 0
    /\ vrwx[u] >= amount
    /\ vrwx' = Moved(vrwx, u, Gate, amount)
    /\ stakes' = [stakes EXCEPT ![u].staked = @ + amount]
    /\ UNCHANGED <<chainVars, balance, controller, reputation>>

RequestUnlock(u, amount) ==
    /\ stakes[u].staked >= amount
    /\ ~UnlockPending(stakes[u])
    /\ stakes' = [stakes EXCEPT ![u].unlockRequestedAt = now, ![u].unlockAmount = amount]
    /\ UNCHANGED <<chainVars, balance, controller, reputation, vrwx>>

CancelUnlock(u) ==
    /\ UnlockPending(stakes[u])
    /\ stakes' = [stakes EXCEPT ![u] = WithoutUnlock(@)]
    /\ UNCHANGED <<chainVars, balance, controller, reputation, vrwx>>

NoDelay(s) == TRUE

DelayOver(s) == now >= s.unlockRequestedAt + UnlockDelay

\* What unstake leaves of a stake.
Unstaked(s) == WithoutUnlock([s EXCEPT !.staked = @ - s.unlockAmount])

Unstake(u) ==
    LET amount == stakes[u].unlockAmount
    IN  /\ UnlockPending(stakes[u])
        /\ DelayOver(stakes[u])
        /\ amount <= stakes[u].staked
        /\ stakes' = [stakes EXCEPT ![u] = Unstaked(@)]
        /\ vrwx[Gate] >= amount
        /\ vrwx' = Moved(vrwx, Gate, u, amount)
        /\ UNCHANGED <<chainVars, balance, controller, reputation>>

SlashShare(u) == (stakes[u].staked * SlashPercentBps) \div 10000

SlashedStakeUnlockKept(s, amount) == [s EXCEPT !.staked = @ - amount]

\* A stake after a slash: an unlock it can no longer cover is dropped.
SlashedStake(s, amount) ==
    LET left == [s EXCEPT !.staked = @ - amount]
    IN  IF left.staked < s.unlockAmount THEN WithoutUnlock(left) ELSE left

\* slashStakeVRWX, called by DisputeManager.resolve.
SlashStakeVRWX(operator, recipient) ==
    LET amount == SlashShare(operator)
    IN  IF amount = 0
        THEN UNCHANGED <<stakes, vrwx>>
        ELSE /\ stakes' = [stakes EXCEPT ![operator] = SlashedStake(@, amount)]
             /\ vrwx[Gate] >= amount
             /\ vrwx' = Moved(vrwx, Gate, recipient, amount)

================================================================================
