------------------------------- MODULE JobEscrow -------------------------------
(***************************************************************************)
(* contracts/src/core/JobEscrow.sol: the life of a job and the money held  *)
(* for it.  A job is created against free bond of its robot, funded by the *)
(* buyer, completed by a claim the robot's controller signed, and settled  *)
(* once the challenge window is over: fee to the treasury, payout to the   *)
(* controller, receipt to the buyer, bond freed, hooks called.             *)
(*                                                                         *)
(* settle() mints an ERC-1155 token, and a buyer that is a contract runs   *)
(* in the middle of it, after the money has moved and before the bond is   *)
(* freed and the status written; so settle is two actions, SettleBegin and *)
(* SettleFinish, and the job sits on the call stack in between.            *)
(***************************************************************************)
EXTENDS BondManager, Receipt1155, RewardsDistributor

CONSTANTS
    Prices, Deadlines,      \* what a buyer may ask for
    Metrics,                \* <<qualityScore, workUnits>> pairs of a V2 claim
    ChallengeWindow,        \* CHALLENGE_WINDOW (86400)
    AuthorizedCallers,      \* authorizedCallers, as the deployment set it
    NonReceivers,           \* contracts that refuse an ERC-1155 token
    EscrowReputation,       \* reputationLedger, as setDepinContracts set it
    EscrowRewards           \* rewardsDistributor, as setDepinContracts set it

ASSUME JobAssumption ==
    /\ Prices \subseteq Nat
    /\ Deadlines \subseteq Nat
    /\ Metrics \subseteq QualityScores \X Nat
    /\ ChallengeWindow \in Nat \ {0}
    /\ AuthorizedCallers \subseteq Users
    /\ NonReceivers \subseteq Users

ASSUME RobotsAssumption == NoHash \notin Robots

Statuses == {"CREATED", "FUNDED", "COMPLETED", "SETTLED", "DISPUTED", "REFUNDED"}

VARIABLES
    jobCount,
    jobs,           \* the record of each job id; the zero record before it is created
    claimUsed       \* the claim ids accepted so far

jobVars == <<jobCount, jobs, claimUsed>>

\* The zero value of the Job struct; its status reads CREATED, its buyer 0.
NoJob ==
    [buyer |-> NoAddress, robotId |-> NoHash, jobSpecHash |-> NoHash, price |-> 0,
     deadline |-> 0, status |-> "CREATED", completionHash |-> NoHash,
     tokenId |-> NoToken, settleAfter |-> 0, qualityScore |-> 0, workUnits |-> 0]

JobInit ==
    /\ jobCount = 0
    /\ jobs = [j \in JobIds |-> NoJob]
    /\ claimUsed = {}

Exists(j) == jobs[j].buyer # NoAddress

\* MIN_BOND_RATIO, 10%, rounded down: nothing below a price of 10.
MinBond(price) == (price * 1000) \div 10000

\* TAU_BPS, 2.5%, rounded down.
Fee(price) == (price * 250) \div 10000

PayoutWithFee(price) == price

Payout(price) == price - Fee(price)

WindowIgnored(j) == TRUE

\* The challenge window of a completed job: a dispute must come before its end, the
\* settlement after.
WindowOpen(j) == now < jobs[j].settleAfter
WindowOver(j) == now >= jobs[j].settleAfter

TokenIdOf(job) == <<job.jobSpecHash, job.completionHash>>

-------------------------------------------------------------------------------
(* Creation and funding *)

\* The part the four creating functions share: a job against free bond.
OpenJob(buyer, spec, r, price, deadline, status) ==
    /\ price # 0
    /\ deadline > now
    /\ jobCount < MaxJobs
    /\ Lock(r, MinBond(price))
    /\ jobCount' = jobCount + 1
    /\ jobs' = [jobs EXCEPT ![jobCount + 1] =
            [NoJob EXCEPT !.buyer = buyer, !.robotId = r, !.jobSpecHash = spec,
                          !.price = price, !.deadline = deadline, !.status = status]]
    /\ UNCHANGED <<chainVars, controller, receiptVars, reputation, vrwx, claimUsed>>

\* createJob and createJobV2 (the V2 service type only labels an event).
CreateJob(buyer, spec, r, price, deadline) ==
    /\ OpenJob(buyer, spec, r, price, deadline, "CREATED")
    /\ UNCHANGED balance

\* createAndFundJobFor and createAndFundJobV2For: the caller pays.
CreateAndFundJobFor(caller, buyer, spec, r, price, deadline) ==
    /\ caller \in AuthorizedCallers
    /\ buyer # NoAddress
    /\ OpenJob(buyer, spec, r, price, deadline, "FUNDED")
    /\ balance[caller] >= price
    /\ balance' = Moved(balance, caller, Escrow, price)

Fund(sender, j) ==
    /\ Exists(j)
    /\ jobs[j].status = "CREATED"
    /\ sender = jobs[j].buyer
    /\ balance[sender] >= jobs[j].price
    /\ balance' = Moved(balance, sender, Escrow, jobs[j].price)
    /\ jobs' = [jobs EXCEPT ![j].status = "FUNDED"]
    /\ UNCHANGED <<chainVars, controller, bondVars, receiptVars, reputation, vrwx,
                   jobCount, claimUsed>>

-------------------------------------------------------------------------------
(* Completion *)

AnyTime(j) == TRUE

InTime(j) == now <= jobs[j].deadline

\* When a job completed now can be settled.
SettleAfter(j) == now + ChallengeWindow

\* The part submitCompletion and submitCompletionV2 share.  The signature covers the
\* job, its spec and deadline and the claim, so it is valid exactly when the robot's
\* controller is the one who signed this claim; who sends it does not matter.
AcceptClaim(signer, j, claim, completion, quality, units) ==
    /\ Exists(j)
    /\ jobs[j].status = "FUNDED"
    /\ InTime(j)
    /\ claim \notin claimUsed
    /\ claimUsed' = claimUsed \cup {claim}
    /\ controller[jobs[j].robotId] # NoAddress
    /\ signer = controller[jobs[j].robotId]
    /\ jobs' = [jobs EXCEPT ![j] =
            [@ EXCEPT !.completionHash = completion, !.qualityScore = quality,
                      !.workUnits = units, !.status = "COMPLETED",
                      !.settleAfter = SettleAfter(j)]]
    /\ UNCHANGED <<chainVars, balance, controller, bondVars, receiptVars, reputation,
                   vrwx, jobCount>>

\* A V1 claim has no metrics: the job keeps the zeros of its creation.
SubmitCompletion(signer, j, completion) ==
    AcceptClaim(signer, j, <<j, completion>>, completion,
                jobs[j].qualityScore, jobs[j].workUnits)

SubmitCompletionV2(signer, j, completion, quality, units) ==
    AcceptClaim(signer, j, <<j, completion, quality, units>>, completion, quality, units)

-------------------------------------------------------------------------------
(* Settlement *)

\* Whether the hook calls at the end of settle can succeed: each hook is disabled,
\* or points at a contract that has the function, and so does that of the distributor.
HooksCallable(job) ==
    /\ EscrowReputation \in {NoAddress, "ReputationLedger"}
    /\ \/ EscrowRewards = NoAddress
       \/ job.workUnits = 0
       \/ /\ EscrowRewards = "RewardsDistributor"
          /\ RewardsReputation \in {NoAddress, "ReputationLedger"}

\* What settle requires up to the receipt's callback, besides the free id that Mint asks
\* for.  A refused receipt or a hook that cannot be called reverts the transaction.
SettleGuard(j) ==
    /\ Exists(j)
    /\ jobs[j].status = "COMPLETED"
    /\ WindowOver(j)
    /\ HooksCallable(jobs[j])
    /\ jobs[j].buyer \notin NonReceivers
    /\ balance[Escrow] >= jobs[j].price

\* settle up to the receipt's callback: money out, receipt minted.
SettleBegin(j) ==
    LET job == jobs[j]
        payee == controller[job.robotId]
    IN  /\ SettleGuard(j)
        /\ balance' = Moved(Moved(balance, Escrow, Treasury, Fee(job.price)),
                            Escrow, payee, Payout(job.price))
        /\ Mint(TokenIdOf(job), j)
        /\ callStack' = Append(callStack, j)
        /\ UNCHANGED <<now, controller, bondVars, reputation, vrwx, jobVars>>

\* The records after the hooks of settle.
ReputationAfterSettle(r) ==
    IF EscrowReputation = NoAddress
    THEN reputation
    ELSE [reputation EXCEPT ![r] = RecordJobComplete(@)]

\* The rewards are computed after the reputation was updated.
VRWXAfterSettle(job) ==
    IF EscrowRewards = NoAddress \/ job.workUnits = 0
    THEN vrwx
    ELSE OnJobFinal(controller[job.robotId], job.qualityScore, job.workUnits,
                    ReputationAfterSettle(job.robotId)[job.robotId])

SettleFinishStatusLost(j) ==
    LET job == jobs[j]
    IN  /\ callStack # <<>>
        /\ j = callStack[Len(callStack)]
        /\ callStack' = SubSeq(callStack, 1, Len(callStack) - 1)
        /\ Unlock(job.robotId, MinBond(job.price))
        /\ reputation' = ReputationAfterSettle(job.robotId)
        /\ vrwx' = VRWXAfterSettle(job)
        /\ jobs' = [jobs EXCEPT ![j].tokenId = TokenIdOf(job)]
        /\ UNCHANGED <<now, balance, controller, receiptVars, jobCount, claimUsed>>

\* settle after the receipt's callback returned: the innermost waiting call goes on.
SettleFinish(j) ==
    LET job == jobs[j]
    IN  /\ callStack # <<>>
        /\ j = callStack[Len(callStack)]
        /\ callStack' = SubSeq(callStack, 1, Len(callStack) - 1)
        /\ Unlock(job.robotId, MinBond(job.price))
        /\ reputation' = ReputationAfterSettle(job.robotId)
        /\ vrwx' = VRWXAfterSettle(job)
        /\ jobs' = [jobs EXCEPT ![j].tokenId = TokenIdOf(job), ![j].status = "SETTLED"]
        /\ UNCHANGED <<now, balance, controller, receiptVars, jobCount, claimUsed>>
================================================================================
