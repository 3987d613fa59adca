------------------------------- MODULE Settlement -------------------------------
(***************************************************************************)
(* The settlement core: the identity registry, the bonds, the escrow with  *)
(* its receipts, reputation and rewards, the disputes and the operators'   *)
(* stakes, sharing one chain.  A step is one transaction, or one half of a *)
(* settle that calls back the buyer; while a settle waits, anything that   *)
(* an address other than the admin may call can be called.                 *)
(***************************************************************************)
EXTENDS DisputeManager, FiniteSets, FiniteSetsExt

CONSTANTS
    BondAmounts,    \* what a deposit or a withdrawal may move
    StakeAmounts,   \* what a stake or an unlock may move
    Buyers,         \* bound: who creates jobs (the code lets anyone)
    Operators,      \* bound: who gets robots, adds to bonds and stakes (likewise)
    MaxBonded       \* bound: the largest bond of one robot

ASSUME AmountsAssumption ==
    /\ BondAmounts \subseteq Nat
    /\ StakeAmounts \subseteq Nat
    /\ Buyers \subseteq Users
    /\ Operators \subseteq Users

\* An address has 160 bits, a robot id 256.
ASSUME FiniteAssumption == IsFiniteSet(Users) /\ IsFiniteSet(Robots)

vars == <<chainVars, balance, controller, bondVars, receiptVars, reputation, vrwx,
          jobVars, disputes, stakes>>

Init ==
    /\ ChainInit /\ StableTokenInit /\ IdentityInit /\ BondInit /\ ReceiptInit
    /\ ReputationInit /\ VRWXInit /\ JobInit /\ DisputeInit /\ StakingInit

-------------------------------------------------------------------------------
(* What each contract leaves alone in the state of the others. *)

Tick ==
    /\ NextBlock
    /\ UNCHANGED <<balance, controller, bondVars, receiptVars, reputation, vrwx,
                   jobVars, disputes, stakes>>

IdentityStep ==
    /\ \E r \in Robots, c \in Operators : RegisterRobot(r, c)
    /\ UNCHANGED <<bondVars, receiptVars, reputation, vrwx, jobVars, disputes, stakes>>

BondStep ==
    /\ \E u \in Users, r \in Robots, a \in BondAmounts :
        \/ u \in Operators /\ bonded[r] + a <= MaxBonded /\ Deposit(u, r, a)
        \/ Withdraw(u, r, a)
    /\ UNCHANGED <<receiptVars, reputation, vrwx, jobVars, disputes, stakes>>

Create ==
    \E u \in Buyers, s \in JobSpecs, r \in Robots, p \in Prices, d \in Deadlines :
        /\ \/ CreateJob(u, s, r, p, d)
           \/ \E caller \in Users : CreateAndFundJobFor(caller, u, s, r, p, d)
        /\ UNCHANGED <<disputes, stakes>>

FundStep ==
    /\ \E u \in Users, j \in JobIds : Fund(u, j)
    /\ UNCHANGED <<disputes, stakes>>

Complete ==
    \E u \in Users, j \in JobIds, c \in Completions :
        /\ \/ SubmitCompletion(u, j, c)
           \/ \E m \in Metrics : SubmitCompletionV2(u, j, c, m[1], m[2])
        /\ UNCHANGED <<disputes, stakes>>

BeginSettle(j) == SettleBegin(j) /\ UNCHANGED <<disputes, stakes>>

FinishSettle(j) == SettleFinish(j) /\ UNCHANGED <<disputes, stakes>>

Dispute == \E u \in Users, j \in JobIds : OpenDispute(u, j) /\ UNCHANGED stakes

Resolve ==
    \E j \in JobIds :
        \/ \E v \in Verdicts : ResolveFault(j, v)
        \/ ResolveValid(j) /\ UNCHANGED stakes

StakingStep ==
    /\ \E u \in Operators :
        \/ \E a \in StakeAmounts : Stake(u, a) \/ RequestUnlock(u, a)
        \/ CancelUnlock(u)
        \/ Unstake(u)
    /\ UNCHANGED <<bondVars, receiptVars, jobVars, disputes>>

Next ==
    \/ Tick
    \/ IdentityStep
    \/ BondStep
    \/ Create
    \/ FundStep
    \/ Complete
    \/ \E j \in JobIds : BeginSettle(j)
    \/ \E j \in JobIds : FinishSettle(j)
    \/ Dispute
    \/ Resolve
    \/ StakingStep

Spec == Init /\ [][Next]_vars

\* Time passes, a transaction that was started returns, and whoever is owed the payout
\* of a job (settle is open to anyone) keeps asking for it.
Fairness ==
    /\ WF_vars(Tick)
    /\ \A j \in JobIds : WF_vars(BeginSettle(j)) /\ WF_vars(FinishSettle(j))

FairSpec == Spec /\ Fairness

-------------------------------------------------------------------------------
(* Types *)

JobType ==
    [buyer : Users \cup {NoAddress}, robotId : Robots \cup {NoHash},
     jobSpecHash : JobSpecs \cup {NoHash}, price : Nat, deadline : Nat,
     status : Statuses, completionHash : Completions \cup {NoHash},
     tokenId : TokenIds \cup {NoToken}, settleAfter : Nat, qualityScore : QualityScores,
     workUnits : Nat]

ReputationType ==
    [totalJobs : Nat, totalDisputes : Nat, totalSlashes : Nat,
     reliabilityScoreBps : BasisPoints]

StakeType == [staked : Nat, unlockAmount : Nat, unlockRequestedAt : Nat]

\* The type invariant; it says too that no balance, bond or stake ever goes negative.
TypeOK ==
    /\ now \in Nat \ {0}
    /\ callStack \in Seq(JobIds)
    /\ balance \in [Accounts -> Nat]
    /\ controller \in [Robots -> Users \cup {NoAddress}]
    /\ bonded \in [Robots -> Nat]
    /\ locked \in [Robots -> Nat]
    /\ exists \in SUBSET TokenIds
    /\ metadata \in [TokenIds -> JobIds \cup {0}]
    /\ supply \in [TokenIds -> Nat]
    /\ reputation \in [Robots -> ReputationType]
    /\ vrwx \in [Accounts -> Nat]
    /\ jobCount \in 0..MaxJobs
    /\ jobs \in [JobIds -> JobType]
    /\ disputes \in [JobIds -> [challenger : Users \cup {NoAddress}, verdict : Verdicts]]
    /\ stakes \in [Users -> StakeType]

-------------------------------------------------------------------------------
(* Safety *)

\* The job's bond is still locked: it was neither freed by settle nor slashed.
BondHeld(j) == jobs[j].status \in {"CREATED", "FUNDED", "COMPLETED", "DISPUTED"}

\* The payout has left the escrow for the robot's side.
Paid(j) == InSettle(j) \/ jobs[j].status = "SETTLED"

\* The escrow still holds the price.
Owed(j) == jobs[j].status \in {"FUNDED", "COMPLETED", "DISPUTED"} /\ ~InSettle(j)

\* What the escrow owes for each job, what the treasury earned with it, and what of a
\* robot's bond stands behind it.
EscrowOwes == [j \in JobIds |-> IF Owed(j) THEN jobs[j].price ELSE 0]

FeesEarned == [j \in JobIds |-> IF Paid(j) THEN Fee(jobs[j].price) ELSE 0]

BondBehind(r) ==
    [j \in JobIds |->
        IF jobs[j].robotId = r /\ BondHeld(j) THEN MinBond(jobs[j].price) ELSE 0]

\* The stablecoin each contract holds is, to the unit, what its records say it owes, at
\* every point of every settlement, also inside the receipt callback: the escrow the
\* prices of undecided jobs, the bond manager the bonds, the treasury the fees
\* (JobEscrow.fund, settle and refund; BondManager.deposit, withdraw and slash).
MoneyAccounted ==
    /\ balance[Escrow] = SumFunction(EscrowOwes)
    /\ balance[BondPool] = SumFunction(bonded)
    /\ balance[Treasury] = SumFunction(FeesEarned)

\* What is locked of a robot's bond is exactly the minimum bonds of its open jobs: no
\* path through lock, unlock and slash loses or doubles one (JobEscrow 171-190, 465,
\* DisputeManager 120).
BondAccounted == \A r \in Robots : locked[r] = SumFunction(BondBehind(r))

\* The bond of every open job is there to be freed or slashed in full: the unlock at the
\* end of settle cannot revert, and a slash is never cut short (BondManager 82-104).
BondsCovered ==
    /\ \A r \in Robots : locked[r] <= bonded[r]
    /\ \A j \in JobIds :
        Exists(j) /\ BondHeld(j) => MinBond(jobs[j].price) <= locked[jobs[j].robotId]

\* Verdicts and statuses never disagree, though two contracts keep them: a job is
\* DISPUTED while its dispute is pending or was found VALID, REFUNDED after a fault
\* verdict, and has no dispute in any other status (DisputeManager 82-149, JobEscrow
\* 498-512).  In particular a disputed job is never settled.
DisputesMatchJobs ==
    \A j \in JobIds :
        LET verdict == disputes[j].verdict
            status == jobs[j].status
        IN  /\ HasDispute(j) <=> status \in {"DISPUTED", "REFUNDED"}
            /\ HasDispute(j) => (verdict \in {"PENDING", "VALID"} <=> status = "DISPUTED")
            /\ HasDispute(j) => disputes[j].challenger = jobs[j].buyer

\* Receipts and settlements correspond one to one: every paid job has its own receipt,
\* minted once, carrying its id, and no receipt exists for a job that was not paid
\* (JobEscrow.settle, Receipt1155.mint and burn).
ReceiptsMatchJobs ==
    /\ \A j \in JobIds :
        Paid(j) => /\ TokenIdOf(jobs[j]) \in exists
                   /\ metadata[TokenIdOf(jobs[j])] = j
    /\ \A t \in exists :
        /\ supply[t] = 1
        /\ metadata[t] \in JobIds
        /\ Paid(metadata[t])

\* Nothing that runs inside the receipt callback can disturb the settlement that waits
\* for it: its job is still COMPLETED, undisputed and past its window, it waits only
\* once, and its receipt is still its own, so that settle's last writes (JobEscrow
\* 462-486), which check nothing again, close the job they opened.
WaitingSettlementsIntact ==
    /\ \A j \in JobIds : InSettle(j) =>
        /\ jobs[j].status = "COMPLETED"
        /\ ~HasDispute(j)
        /\ now >= jobs[j].settleAfter
        /\ metadata[TokenIdOf(jobs[j])] = j
    /\ \A i, k \in 1..Len(callStack) : callStack[i] = callStack[k] => i = k

\* The verdict of this step refunds the job.
Refunds(j) == jobs[j].status = "DISPUTED" /\ jobs'[j].status = "REFUNDED"

\* A fault verdict takes the whole minimum bond of the job it decides, and otherwise a
\* robot's bond shrinks only into its controller's own pocket (BondManager 67-104,
\* DisputeManager 120-121).
BondLossJustified ==
    [][/\ \A j \in JobIds : Refunds(j) =>
            bonded[jobs[j].robotId] - bonded'[jobs[j].robotId] = MinBond(jobs[j].price)
       /\ \A r \in Robots : bonded'[r] < bonded[r] =>
            \/ \E j \in JobIds : Refunds(j) /\ jobs[j].robotId = r
            \/ /\ balance'[controller[r]] = balance[controller[r]] + bonded[r] - bonded'[r]
               /\ UNCHANGED jobs]_vars

\* The ledger's counts are the robot's history in the escrow and in the disputes
\* (ReputationLedger 61-94), where both contracts have it as a hook.
ReputationMatchesHistory ==
    {EscrowReputation, DisputeReputation} = {"ReputationLedger"} =>
        \A r \in Robots :
            LET Count(status) ==
                    Cardinality({j \in JobIds : jobs[j].robotId = r /\ jobs[j].status = status})
            IN  /\ reputation[r].totalJobs = Count("SETTLED")
                /\ reputation[r].totalDisputes = Count("REFUNDED")
                /\ reputation[r].totalSlashes = Count("REFUNDED")

\* The gate holds exactly the stakes, and an unlock that was requested can still be paid
\* out after any number of slashes (StakingGate 103-142).
StakesAccounted ==
    /\ vrwx[Gate] = SumFunction([u \in Users |-> stakes[u].staked])
    /\ \A u \in Users : stakes[u].unlockAmount <= stakes[u].staked

\* A stake that leaves the gate to its owner was announced UnlockDelay before; anything
\* else that shrinks a stake is a fault verdict (StakingGate 103-142).
StakeLossJustified ==
    [][\A u \in Users : stakes'[u].staked < stakes[u].staked =>
        \/ /\ stakes[u].unlockRequestedAt \in 1..(now - UnlockDelay)
           /\ stakes[u].staked - stakes'[u].staked = stakes[u].unlockAmount
        \/ \E j \in JobIds : Refunds(j) /\ controller[jobs[j].robotId] = u]_vars

\* Past its window, a completed job can be settled, whatever the other jobs of its robot
\* and the other users did meanwhile: the money is there and the hooks answer.  Two
\* things excepted: its receipt id may be taken by another job with the same hashes, and
\* its buyer may be a contract that takes no receipts (JobEscrow 442-495; README 58,
\* "Settlement -> JobEscrow.settle() [after 24h challenge window]").
SettleableAfterWindow ==
    \A j \in JobIds :
        /\ jobs[j].status = "COMPLETED"
        /\ now >= jobs[j].settleAfter
        /\ TokenIdOf(jobs[j]) \notin exists
        /\ jobs[j].buyer \notin NonReceivers
        => ENABLED BeginSettle(j)

-------------------------------------------------------------------------------
(* The escrow implements its promise.  A job counts as paid from the moment the money  *)
(* moved, so the second half of a settle is a stuttering step.                         *)

Stage(j) ==
    IF ~Exists(j) THEN "none"
    ELSE IF InSettle(j) THEN "paid"
    ELSE [CREATED |-> "agreed", FUNDED |-> "held", COMPLETED |-> "claimed",
          DISPUTED |-> "contested", SETTLED |-> "paid", REFUNDED |-> "refunded"]
            [jobs[j].status]

Promise == INSTANCE EscrowPromise WITH
    clock <- now,
    Window <- ChallengeWindow,
    stage <- [j \in JobIds |-> Stage(j)],
    price <- [j \in JobIds |-> jobs[j].price],
    windowEnd <- [j \in JobIds |-> jobs[j].settleAfter],
    pot <- balance[Escrow]

\* Every behaviour of the contracts is one the abstract escrow allows: a price comes out
\* once, to the robot only after an uncontested window, to the buyer only after a
\* dispute opened inside it.
ImplementsPromise == Promise!Spec

-------------------------------------------------------------------------------
(* Liveness *)

\* A completed job is settled or disputed in the end.  Two things can stop it: another
\* job that was settled with the same specification and completion hashes and so took
\* its receipt id (JobEscrow 459 leaves the job id out of the token id), and a buyer that
\* is a contract and takes no receipts.
CompletedIsDecided ==
    \A j \in JobIds :
        jobs[j].status = "COMPLETED" ~>
            \/ jobs[j].status \in {"SETTLED", "DISPUTED", "REFUNDED"}
            \/ jobs[j].buyer \in NonReceivers
            \/ \E k \in JobIds \ {j} : Paid(k) /\ TokenIdOf(jobs[k]) = TokenIdOf(jobs[j])

-------------------------------------------------------------------------------
(* What the repository says and the code does not do *)

\* DisputeManager 142-143: after VALID "job continues to settled state" and "bond is
\* unlocked".  The job is never settled, so its bond must at least not stay locked.
ValidVerdictFreesBond ==
    \A j \in JobIds :
        HasDispute(j) /\ disputes[j].verdict = "VALID" =>
            locked[jobs[j].robotId] =
                SumFunctionOnSet(BondBehind(jobs[j].robotId), JobIds \ {j})
================================================================================
