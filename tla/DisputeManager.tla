----------------------------- MODULE DisputeManager -----------------------------
(***************************************************************************)
(* contracts/src/core/DisputeManager.sol: the buyer of a completed job may *)
(* challenge it while the window is open; the admin decides.  FRAUD and    *)
(* NON_DELIVERY refund the buyer, slash the robot's bond and its           *)
(* operator's stake and mark its reputation; VALID records the verdict and *)
(* nothing else.                                                           *)
(***************************************************************************)
EXTENDS JobEscrow, StakingGate

CONSTANTS
    DisputeStaking,     \* stakingGate, as setDepinContracts set it
    DisputeReputation   \* reputationLedger, as setDepinContracts set it

Verdicts == {"PENDING", "VALID", "FRAUD", "NON_DELIVERY"}

VARIABLE disputes   \* the dispute of each job; challenger NoAddress if there is none

NoDispute == [challenger |-> NoAddress, verdict |-> "PENDING"]

DisputeInit == disputes = [j \in JobIds |-> NoDispute]

HasDispute(j) == disputes[j].challenger # NoAddress

\* openDispute, with the setDisputed call it makes.
OpenDispute(sender, j) ==
    /\ Exists(j)
    /\ sender = jobs[j].buyer
    /\ jobs[j].status = "COMPLETED"
    /\ WindowOpen(j)
    /\ ~HasDispute(j)
    /\ disputes' = [disputes EXCEPT ![j] = [challenger |-> sender, verdict |-> "PENDING"]]
    /\ jobs' = [jobs EXCEPT ![j].status = "DISPUTED"]
    /\ UNCHANGED <<chainVars, balance, controller, bondVars, receiptVars, reputation,
                   vrwx, stakes, jobCount, claimUsed>>

ReputationAfterDispute(r) == [reputation EXCEPT ![r] = RecordDispute(@)]

ReputationAfterFault(r) ==
    IF DisputeReputation = NoAddress
    THEN reputation
    ELSE [reputation EXCEPT ![r] = RecordSlash(RecordDispute(@))]

BurnTokenOf(job) ==
    IF TokenIdOf(job) \in exists
    THEN Burn(TokenIdOf(job))
    ELSE UNCHANGED receiptVars

\* The receipt is burned only if this job's own settlement minted it.
BurnReceipt(job) ==
    IF job.tokenId # NoToken /\ job.tokenId \in exists
    THEN Burn(job.tokenId)
    ELSE UNCHANGED receiptVars

\* resolve(FRAUD | NON_DELIVERY), with the refund, slash, burn and hook calls it makes.
ResolveFault(j, verdict) ==
    LET job == jobs[j]
        challenger == disputes[j].challenger
        slashed == Slashable(job.robotId, MinBond(job.price))
        operator == controller[job.robotId]
    IN  /\ verdict \in {"FRAUD", "NON_DELIVERY"}
        /\ callStack = <<>>
        /\ HasDispute(j)
        /\ disputes[j].verdict = "PENDING"
        /\ disputes' = [disputes EXCEPT ![j].verdict = verdict]
        /\ job.status = "DISPUTED"
        /\ jobs' = [jobs EXCEPT ![j].status = "REFUNDED"]
        /\ balance[Escrow] >= job.price
        /\ balance[BondPool] >= slashed
        /\ balance' = Moved(Moved(balance, Escrow, job.buyer, job.price),
                            BondPool, challenger, slashed)
        /\ Slash(job.robotId, MinBond(job.price))
        /\ BurnReceipt(job)
        /\ reputation' = ReputationAfterFault(job.robotId)
        /\ IF DisputeStaking = NoAddress \/ operator = NoAddress
           THEN UNCHANGED <<stakes, vrwx>>
           ELSE SlashStakeVRWX(operator, challenger)
        /\ UNCHANGED <<chainVars, controller, jobCount, claimUsed>>

\* resolve(VALID): the verdict is recorded; job, money and bond stay as they are.
ResolveValid(j) ==
    /\ callStack = <<>>
    /\ HasDispute(j)
    /\ disputes[j].verdict = "PENDING"
    /\ disputes' = [disputes EXCEPT ![j].verdict = "VALID"]
    /\ UNCHANGED <<chainVars, balance, controller, bondVars, receiptVars, reputation,
                   vrwx, stakes, jobVars>>
================================================================================
