---------------------------- MODULE SettlementProofs ----------------------------
(***************************************************************************)
(* What holds of Settlement for every number of users, robots and jobs,    *)
(* every price, window and deployment.                                     *)
(*                                                                         *)
(* The argument: JobsWellFormed, DisputesMatchJobs and the statuses of the *)
(* waiting settlements are inductive together with the types; the order of *)
(* the window's two sides (a dispute before its end, a settlement after)   *)
(* is what keeps a dispute out of a settlement that waits for its receipt. *)
(*                                                                         *)
(* On top of it, what relates two contracts: a dispute and the status of   *)
(* its job, a receipt and the settlement that minted it, and what a        *)
(* settlement that waits for its receipt finds when it goes on.            *)
(***************************************************************************)
EXTENDS Settlement, SequenceTheorems, TLAPS

-------------------------------------------------------------------------------
(* Arithmetic and operators *)

LEMMA MinBondType == \A p \in Nat : MinBond(p) \in Nat
BY DEF MinBond

LEMMA PayoutType ==
    ASSUME NEW p \in Nat
    PROVE  Fee(p) \in Nat /\ Payout(p) \in Nat /\ Fee(p) + Payout(p) = p
BY DEF Fee, Payout

LEMMA MovedType ==
    ASSUME NEW b \in [Accounts -> Nat], NEW f \in Accounts, NEW t \in Accounts,
           NEW a \in Nat, a <= b[f]
    PROVE  Moved(b, f, t, a) \in [Accounts -> Nat]
BY DEF Moved

LEMMA ScoreType == \A d, s \in Nat : ScoreOf(d, s) \in BasisPoints
<1> SUFFICES ASSUME NEW d \in Nat, NEW s \in Nat
             PROVE  ScoreOf(d, s) \in BasisPoints
    OBVIOUS
<1> DEFINE dp == Penalty(5000, d * 500)
           sp == Penalty(5000, s * 1000)
<1>1. dp \in 0..5000
    BY DEF Penalty
<1>2. sp \in 0..5000
    BY DEF Penalty
<1> HIDE DEF dp, sp
<1>3. (IF dp + sp >= 10000 THEN 0 ELSE 10000 - (dp + sp)) \in 0..10000
    BY <1>1, <1>2
<1> QED
    BY <1>3 DEF ScoreOf, BasisPoints, dp, sp

LEMMA RescoredType ==
    ASSUME NEW rep \in ReputationType
    PROVE  Rescored(rep) \in ReputationType
<1>1. rep.totalDisputes \in Nat
    BY DEF ReputationType
<1>2. rep.totalSlashes \in Nat
    BY DEF ReputationType
<1>3. ScoreOf(rep.totalDisputes, rep.totalSlashes) \in BasisPoints
    BY <1>1, <1>2, ScoreType
<1> QED
    BY <1>3 DEF Rescored, ReputationType

LEMMA RecordsType ==
    ASSUME NEW rep \in ReputationType
    PROVE  /\ RecordJobComplete(rep) \in ReputationType
           /\ RecordDispute(rep) \in ReputationType
           /\ RecordSlash(rep) \in ReputationType
<1>1. [rep EXCEPT !.totalJobs = @ + 1] \in ReputationType
    BY DEF ReputationType
<1>2. [rep EXCEPT !.totalDisputes = @ + 1] \in ReputationType
    BY DEF ReputationType
<1>3. [rep EXCEPT !.totalSlashes = @ + 1] \in ReputationType
    BY DEF ReputationType
<1> QED
    BY <1>1, <1>2, <1>3, RescoredType DEF RecordJobComplete, RecordDispute, RecordSlash

LEMMA MultiplierType ==
    ASSUME NEW rep, ReliabilityScoreBps(rep) \in BasisPoints
    PROVE  RobotMultiplier(rep) \in Nat
<1>1. \A bps \in BasisPoints : ReliabilityMultiplier(bps) \in Nat
    BY DEF ReliabilityMultiplier, BasisPoints
<1> QED
    BY <1>1 DEF RobotMultiplier

LEMMA RewardType ==
    ASSUME NEW q \in QualityScores, NEW u \in Nat, NEW m \in Nat
    PROVE  Reward(q, u, m) \in Nat
<1> DEFINE a == BaseReward * u
           b == a * QualityMultiplier(q)
           c == b * m
<1>1. a \in Nat
    BY RewardAssumption
<1>2. QualityMultiplier(q) \in Nat
    BY DEF QualityMultiplier, QualityScores
<1> HIDE DEF a
<1>3. b \in Nat
    BY <1>1, <1>2
<1> HIDE DEF b
<1>4. c \in Nat
    BY <1>3
<1> HIDE DEF c
<1>5. c \div 100000000 \in Nat
    BY <1>4
<1> QED
    BY <1>5 DEF Reward, a, b, c

LEMMA SlashShareType ==
    ASSUME NEW u \in Users, stakes \in [Users -> StakeType]
    PROVE  SlashShare(u) \in Nat /\ SlashShare(u) <= stakes[u].staked
<1> DEFINE s == stakes[u].staked
           p == s * SlashPercentBps
<1>1. s \in Nat
    BY DEF StakeType
<1> HIDE DEF s
<1>2. p \in Nat /\ p <= s * 10000
    BY <1>1, StakingAssumption
<1> HIDE DEF p
<1>3. p \div 10000 \in Nat /\ p \div 10000 <= s
    BY <1>1, <1>2
<1> QED
    BY <1>3 DEF SlashShare, p, s

-------------------------------------------------------------------------------
(* The inductive invariant *)

\* What the transactions that touch a job rely on: the records past jobCount are the
\* zero record; a job that was created has a robot and a specification; one that was
\* completed has its hash, and a robot with a controller; a token id is written last.
JobsWellFormed ==
    \A j \in JobIds :
        /\ Exists(j) <=> j <= jobCount
        /\ ~Exists(j) => jobs[j] = NoJob
        /\ Exists(j) => jobs[j].robotId \in Robots /\ jobs[j].jobSpecHash \in JobSpecs
        /\ jobs[j].status \notin {"CREATED", "FUNDED"} =>
                /\ jobs[j].completionHash \in Completions
                /\ controller[jobs[j].robotId] \in Users
        /\ jobs[j].tokenId # NoToken => jobs[j].status = "SETTLED"

\* A settlement that waits is one that its own first half let through: its receipt is
\* minted, which is why no second call of settle can have begun for the same job.
WaitingWellFormed ==
    /\ \A j \in JobIds : InSettle(j) =>
        /\ jobs[j].status = "COMPLETED"
        /\ now >= jobs[j].settleAfter
        /\ TokenIdOf(jobs[j]) \in exists
        /\ metadata[TokenIdOf(jobs[j])] = j
    /\ \A i, k \in 1..Len(callStack) : callStack[i] = callStack[k] => i = k

LockedWithinBond == \A r \in Robots : locked[r] <= bonded[r]

IInv == TypeOK /\ JobsWellFormed /\ WaitingWellFormed /\ LockedWithinBond

LEMMA NoJobType == NoJob \in JobType /\ NoJob.tokenId = NoToken
BY DEF NoJob, JobType, Statuses, QualityScores

\* Whoever holds the tokens when the contracts are deployed.
LEMMA DeployedIInv ==
    ASSUME ChainInit, IdentityInit, BondInit, ReceiptInit, ReputationInit, JobInit,
           DisputeInit, StakingInit,
           balance \in [Accounts -> Nat], vrwx \in [Accounts -> Nat]
    PROVE  IInv
<1> USE DEF ChainInit, IdentityInit, BondInit, ReceiptInit,
            ReputationInit, JobInit, DisputeInit, StakingInit
<1>1. NoJob \in JobType
    BY NoJobType
<1>2. NoStake \in StakeType
    BY DEF NoStake, StakeType
<1>3. [totalJobs |-> 0, totalDisputes |-> 0, totalSlashes |-> 0,
       reliabilityScoreBps |-> 0] \in ReputationType
    BY DEF ReputationType, BasisPoints
<1>4. NoDispute \in [challenger : Users \cup {NoAddress}, verdict : Verdicts]
    BY DEF NoDispute, Verdicts
<1>5. jobCount \in 0..MaxJobs
    BY MaxJobsAssumption
<1>6. TypeOK
    BY <1>1, <1>2, <1>3, <1>4, <1>5 DEF TypeOK
<1>7. JobsWellFormed
    BY DEF JobsWellFormed, Exists, NoJob, JobIds
<1>8. WaitingWellFormed
    BY DEF WaitingWellFormed, InSettle
<1>9. LockedWithinBond
    BY DEF LockedWithinBond
<1> QED
    BY <1>6, <1>7, <1>8, <1>9 DEF IInv

LEMMA InitIInv == Init => IInv
<1>1. Init => balance \in [Accounts -> Nat] /\ vrwx \in [Accounts -> Nat]
    BY InitialFundsAssumption, RewardAssumption DEF Init, StableTokenInit, VRWXInit
<1> QED
    BY <1>1, DeployedIInv DEF Init

-------------------------------------------------------------------------------
(* One lemma per kind of transaction *)

LEMMA JobsFrame ==
    ASSUME JobsWellFormed, UNCHANGED <<jobs, jobCount, controller>>
    PROVE  JobsWellFormed'
BY DEF JobsWellFormed, Exists

LEMMA WaitingFrame ==
    ASSUME WaitingWellFormed, UNCHANGED <<jobs, callStack, now, exists, metadata>>
    PROVE  WaitingWellFormed'
BY DEF WaitingWellFormed, InSettle

LEMMA BondFrame ==
    ASSUME LockedWithinBond, UNCHANGED <<bonded, locked>>
    PROVE  LockedWithinBond'
BY DEF LockedWithinBond

\* A job beyond its creation was created.
LEMMA StatusExists ==
    ASSUME JobsWellFormed, NEW j \in JobIds, jobs[j].status # "CREATED"
    PROVE  Exists(j)
<1>1. NoJob.status = "CREATED"
    BY DEF NoJob
<1> QED
    BY <1>1 DEF JobsWellFormed

LEMMA TickIInv ==
    ASSUME IInv, Tick
    PROVE  IInv'
<1> USE DEF Tick, NextBlock, bondVars, receiptVars, jobVars
<1>1. TypeOK'
    BY MaxTimeAssumption DEF IInv, TypeOK
<1>2. JobsWellFormed'
    BY JobsFrame DEF IInv
<1>3. WaitingWellFormed'
    BY DEF IInv, WaitingWellFormed, InSettle
<1>4. LockedWithinBond'
    BY BondFrame DEF IInv
<1> QED
    BY <1>1, <1>2, <1>3, <1>4 DEF IInv

LEMMA IdentityIInv ==
    ASSUME IInv, IdentityStep
    PROVE  IInv'
<1>1. PICK r \in Robots, c \in Operators : RegisterRobot(r, c)
    BY DEF IdentityStep
<1> USE DEF IdentityStep, bondVars, receiptVars, jobVars, chainVars
<1>2. TypeOK'
    <2>1. controller' \in [Robots -> Users \cup {NoAddress}]
        BY <1>1, AmountsAssumption DEF RegisterRobot, IInv, TypeOK
    <2> QED
        BY <1>1, <2>1 DEF RegisterRobot, IInv, TypeOK
<1>3. \A q \in Robots : controller[q] \in Users => controller'[q] = controller[q]
    BY <1>1, AddressesAssumption DEF RegisterRobot, IInv, TypeOK
<1>4. ASSUME NEW j \in JobIds, jobs[j].status \notin {"CREATED", "FUNDED"}
      PROVE  jobs[j].robotId \in Robots
    <2>1. Exists(j)
        BY <1>4, StatusExists DEF IInv
    <2> QED
        BY <2>1 DEF IInv, JobsWellFormed, Exists
<1>5. JobsWellFormed'
    BY <1>3, <1>4, <1>1 DEF RegisterRobot, IInv, JobsWellFormed, Exists
<1>6. WaitingWellFormed'
    BY <1>1, WaitingFrame DEF RegisterRobot, IInv
<1>7. LockedWithinBond'
    BY BondFrame DEF IInv
<1> QED
    BY <1>2, <1>5, <1>6, <1>7 DEF IInv

LEMMA BondIInv ==
    ASSUME IInv, BondStep
    PROVE  IInv'
<1>1. PICK u \in Users, r \in Robots, a \in BondAmounts :
            Deposit(u, r, a) \/ Withdraw(u, r, a)
    BY DEF BondStep
<1> USE DEF BondStep, receiptVars, jobVars, chainVars
<1>2. /\ a \in Nat /\ BondPool \in Accounts /\ u \in Accounts
      /\ bonded[r] \in Nat /\ locked[r] \in Nat /\ locked[r] <= bonded[r]
    BY AmountsAssumption DEF Accounts, IInv, TypeOK, LockedWithinBond
<1>3. balance \in [Accounts -> Nat]
    BY DEF IInv, TypeOK
<1>4. UNCHANGED <<now, callStack, controller, locked>>
    BY <1>1 DEF Deposit, Withdraw
<1>5. balance' \in [Accounts -> Nat]
    BY <1>1, <1>2, <1>3, MovedType DEF Deposit, Withdraw
<1>6. PICK b \in Nat : locked[r] <= b /\ bonded' = [bonded EXCEPT ![r] = b]
    <2>1. CASE Deposit(u, r, a)
        <3>1. bonded[r] + a \in Nat /\ locked[r] <= bonded[r] + a
            BY <1>2
        <3> QED
            BY <3>1, <2>1 DEF Deposit
    <2>2. CASE Withdraw(u, r, a)
        <3>1. bonded[r] - a \in Nat /\ locked[r] <= bonded[r] - a
            BY <1>2, <2>2 DEF Withdraw, Available
        <3> QED
            BY <3>1, <2>2 DEF Withdraw
    <2> QED
        BY <1>1, <2>1, <2>2
<1>6a. bonded' \in [Robots -> Nat] /\ \A q \in Robots : locked[q] <= bonded'[q]
    BY <1>6 DEF IInv, TypeOK, LockedWithinBond
<1>7. TypeOK'
    BY <1>4, <1>5, <1>6a DEF IInv, TypeOK
<1>8. JobsWellFormed'
    BY <1>4, JobsFrame DEF IInv
<1>9. WaitingWellFormed'
    BY <1>4, WaitingFrame DEF IInv
<1>10. LockedWithinBond'
    BY <1>4, <1>6a DEF LockedWithinBond
<1> QED
    BY <1>7, <1>8, <1>9, <1>10 DEF IInv

\* A job opened by whichever contract, once the money it takes is there.
LEMMA OpenJobIInv ==
    ASSUME IInv, NEW u \in Users, NEW s \in JobSpecs, NEW r \in Robots, NEW p \in Prices,
           NEW d \in Nat, NEW st \in {"CREATED", "FUNDED"}, OpenJob(u, s, r, p, d, st),
           balance' \in [Accounts -> Nat], UNCHANGED <<disputes, stakes>>
    PROVE  IInv'
<1>1. p \in Nat /\ d \in Nat /\ u # NoAddress
    BY JobAssumption, AddressesAssumption
<1> DEFINE k == jobCount + 1
           new == [NoJob EXCEPT !.buyer = u, !.robotId = r, !.jobSpecHash = s,
                                !.price = p, !.deadline = d, !.status = st]
<1>2. /\ k \in JobIds /\ jobCount \in Nat /\ jobCount' = k
      /\ jobs' = [jobs EXCEPT ![k] = new]
      /\ UNCHANGED <<now, callStack, controller, exists, metadata, supply, reputation,
                     vrwx, disputes, stakes, bonded>>
      /\ Lock(r, MinBond(p))
    BY MaxJobsAssumption
    DEF OpenJob, Lock, IInv, TypeOK, JobIds, chainVars, receiptVars
<1>3. /\ new \in JobType
      /\ new.status = st /\ new.buyer = u /\ new.robotId = r /\ new.jobSpecHash = s
      /\ new.tokenId = NoToken
    <2>1. NoJob \in JobType /\ NoJob.tokenId = NoToken
        BY NoJobType
    <2>2. u \in Users \cup {NoAddress} /\ st \in Statuses
        BY <1>1 DEF Statuses
    <2>3. new \in JobType
        BY <1>1, <2>1, <2>2 DEF JobType
    <2>4. /\ new.status = st /\ new.buyer = u /\ new.robotId = r /\ new.jobSpecHash = s
          /\ new.tokenId = NoToken
        BY <2>1 DEF JobType
    <2> QED
        BY <2>3, <2>4
<1> HIDE DEF new
<1>4. jobs \in [JobIds -> JobType]
    BY DEF IInv, TypeOK
<1>5. jobs' \in [JobIds -> JobType] /\ jobs'[k] = new /\ \A j \in JobIds \ {k} : jobs'[j] = jobs[j]
    BY <1>2, <1>3, <1>4
<1>6. locked' \in [Robots -> Nat] /\ \A q \in Robots : locked'[q] <= bonded[q]
    <2>1. MinBond(p) \in Nat
        BY <1>1, MinBondType
    <2> QED
        BY <1>2, <2>1 DEF Lock, Available, IInv, TypeOK, LockedWithinBond
<1>7. jobCount' \in 0..MaxJobs
    BY <1>2 DEF JobIds
<1>8. TypeOK'
    BY <1>2, <1>5, <1>6, <1>7 DEF IInv, TypeOK
<1>9. ~Exists(k)
    BY <1>2 DEF IInv, JobsWellFormed
<1>10. JobsWellFormed'
    <2> SUFFICES ASSUME NEW j \in JobIds
                 PROVE  (/\ Exists(j) <=> j <= jobCount
                         /\ ~Exists(j) => jobs[j] = NoJob
                         /\ Exists(j) => jobs[j].robotId \in Robots /\ jobs[j].jobSpecHash \in JobSpecs
                         /\ jobs[j].status \notin {"CREATED", "FUNDED"} =>
                                 /\ jobs[j].completionHash \in Completions
                                 /\ controller[jobs[j].robotId] \in Users
                         /\ jobs[j].tokenId # NoToken => jobs[j].status = "SETTLED")'
        BY DEF JobsWellFormed
    <2>1. CASE j = k
        BY <2>1, <1>1, <1>2, <1>3, <1>5 DEF Exists
    <2>2. CASE j # k
        <3>1. j \in Nat /\ (j <= jobCount <=> j <= k)
            BY <2>2, <1>2 DEF JobIds
        <3>2. jobs'[j] = jobs[j]
            BY <2>2, <1>5
        <3> QED
            BY <3>1, <3>2, <1>2 DEF IInv, JobsWellFormed, Exists
    <2> QED
        BY <2>1, <2>2
<1>11. WaitingWellFormed'
    <2>1. ~InSettle(k)
        BY <1>2, <1>9, StatusExists DEF IInv, WaitingWellFormed
    <2> QED
        BY <2>1, <1>2, <1>5 DEF IInv, WaitingWellFormed, InSettle
<1>12. LockedWithinBond'
    BY <1>2, <1>6 DEF LockedWithinBond
<1> QED
    BY <1>8, <1>10, <1>11, <1>12 DEF IInv

LEMMA CreateIInv ==
    ASSUME IInv, Create
    PROVE  IInv'
<1>1. PICK u \in Buyers, s \in JobSpecs, r \in Robots, p \in Prices, d \in Deadlines :
        /\ \/ CreateJob(u, s, r, p, d)
           \/ \E caller \in Users : CreateAndFundJobFor(caller, u, s, r, p, d)
        /\ UNCHANGED <<disputes, stakes>>
    BY DEF Create
<1>2. u \in Users /\ p \in Nat /\ d \in Nat
    BY AmountsAssumption, JobAssumption
<1>3. PICK st \in {"CREATED", "FUNDED"} : OpenJob(u, s, r, p, d, st)
    <2>1. OpenJob(u, s, r, p, d, "CREATED") \/ OpenJob(u, s, r, p, d, "FUNDED")
        BY <1>1, Zenon DEF CreateJob, CreateAndFundJobFor
    <2> QED
        BY <2>1, Zenon
<1>4. balance' \in [Accounts -> Nat]
    <2>1. balance \in [Accounts -> Nat] /\ Escrow \in Accounts /\ \A c \in Users : c \in Accounts
        BY DEF IInv, TypeOK, Accounts
    <2> QED
        BY <1>1, <1>2, <2>1, MovedType DEF CreateJob, CreateAndFundJobFor
<1> QED
    BY <1>1, <1>2, <1>3, <1>4, OpenJobIInv

\* What a transaction that only rewrites one job's record has to show of the record.
LEMMA JobChange ==
    ASSUME JobsWellFormed, jobs \in [JobIds -> JobType], NEW k \in JobIds,
           NEW new \in JobType,
           jobs' = [jobs EXCEPT ![k] = new],
           UNCHANGED <<jobCount, controller>>,
           Exists(k),
           new.buyer = jobs[k].buyer, new.robotId = jobs[k].robotId,
           new.jobSpecHash = jobs[k].jobSpecHash,
           new.status \notin {"CREATED", "FUNDED"} =>
               /\ new.completionHash \in Completions
               /\ controller[new.robotId] \in Users,
           new.tokenId # NoToken => new.status = "SETTLED"
    PROVE  jobs' \in [JobIds -> JobType] /\ JobsWellFormed'
<1>1. jobs' \in [JobIds -> JobType]
    OBVIOUS
<1>2. jobs'[k] = new /\ \A j \in JobIds \ {k} : jobs'[j] = jobs[j]
    OBVIOUS
<1>3. JobsWellFormed'
    <2> SUFFICES ASSUME NEW j \in JobIds
                 PROVE  (/\ Exists(j) <=> j <= jobCount
                         /\ ~Exists(j) => jobs[j] = NoJob
                         /\ Exists(j) => jobs[j].robotId \in Robots /\ jobs[j].jobSpecHash \in JobSpecs
                         /\ jobs[j].status \notin {"CREATED", "FUNDED"} =>
                                 /\ jobs[j].completionHash \in Completions
                                 /\ controller[jobs[j].robotId] \in Users
                         /\ jobs[j].tokenId # NoToken => jobs[j].status = "SETTLED")'
        BY DEF JobsWellFormed
    <2>1. CASE j = k
        BY <2>1, <1>2 DEF JobsWellFormed, Exists
    <2>2. CASE j # k
        BY <2>2, <1>2 DEF JobsWellFormed, Exists
    <2> QED
        BY <2>1, <2>2
<1> QED
    BY <1>1, <1>3

LEMMA FundIInv ==
    ASSUME IInv, FundStep
    PROVE  IInv'
<1>1. PICK u \in Users, k \in JobIds : Fund(u, k)
    BY DEF FundStep
<1> DEFINE new == [jobs[k] EXCEPT !.status = "FUNDED"]
<1>2. /\ Exists(k) /\ jobs[k].status = "CREATED"
      /\ jobs' = [jobs EXCEPT ![k] = new]
      /\ UNCHANGED <<now, callStack, controller, bonded, locked, exists, metadata, supply,
                     reputation, vrwx, jobCount, disputes, stakes>>
    BY <1>1 DEF Fund, FundStep, chainVars, bondVars, receiptVars
<1>3. jobs \in [JobIds -> JobType] /\ jobs[k] \in JobType
    BY DEF IInv, TypeOK
<1>4. new \in JobType
    BY <1>3 DEF JobType, Statuses
<1>5. jobs' \in [JobIds -> JobType] /\ JobsWellFormed'
    <2>1. /\ new.buyer = jobs[k].buyer /\ new.robotId = jobs[k].robotId
          /\ new.jobSpecHash = jobs[k].jobSpecHash /\ new.tokenId = jobs[k].tokenId
          /\ new.status = "FUNDED"
        BY <1>3 DEF JobType
    <2>2. jobs[k].tokenId = NoToken
        BY <1>2 DEF IInv, JobsWellFormed, Exists
    <2> HIDE DEF new
    <2> QED
        BY <1>2, <1>3, <1>4, <2>1, <2>2, JobChange DEF IInv
<1>6. balance' \in [Accounts -> Nat]
    <2>1. balance \in [Accounts -> Nat] /\ Escrow \in Accounts /\ u \in Accounts
        BY DEF IInv, TypeOK, Accounts
    <2>2. jobs[k].price \in Nat
        BY <1>3 DEF JobType
    <2> QED
        BY <1>1, <2>1, <2>2, MovedType DEF Fund
<1>7. TypeOK'
    BY <1>2, <1>5, <1>6 DEF IInv, TypeOK
<1>8. WaitingWellFormed'
    BY <1>2, <1>3 DEF IInv, WaitingWellFormed, InSettle
<1>9. LockedWithinBond'
    BY <1>2, BondFrame DEF IInv
<1> QED
    BY <1>5, <1>7, <1>8, <1>9 DEF IInv

LEMMA CompleteIInv ==
    ASSUME IInv, Complete
    PROVE  IInv'
<1>1. PICK u \in Users, k \in JobIds, c \in Completions :
        /\ \/ SubmitCompletion(u, k, c)
           \/ \E m \in Metrics : SubmitCompletionV2(u, k, c, m[1], m[2])
        /\ UNCHANGED <<disputes, stakes>>
    BY DEF Complete
<1>2. jobs \in [JobIds -> JobType] /\ jobs[k] \in JobType
    BY DEF IInv, TypeOK
<1>3. PICK q \in QualityScores, w \in Nat : \E claim : AcceptClaim(u, k, claim, c, q, w)
    <2>1. CASE SubmitCompletion(u, k, c)
        <3>1. jobs[k].qualityScore \in QualityScores /\ jobs[k].workUnits \in Nat
            BY <1>2 DEF JobType
        <3>2. AcceptClaim(u, k, <<k, c>>, c, jobs[k].qualityScore, jobs[k].workUnits)
            BY <2>1 DEF SubmitCompletion
        <3> QED
            BY <3>1, <3>2, Zenon
    <2>2. CASE \E m \in Metrics : SubmitCompletionV2(u, k, c, m[1], m[2])
        <3>1. PICK m \in Metrics : SubmitCompletionV2(u, k, c, m[1], m[2])
            BY <2>2
        <3>2. m[1] \in QualityScores /\ m[2] \in Nat
            BY JobAssumption
        <3>3. AcceptClaim(u, k, <<k, c, m[1], m[2]>>, c, m[1], m[2])
            BY <3>1 DEF SubmitCompletionV2
        <3> QED
            BY <3>2, <3>3, Zenon
    <2> QED
        BY <1>1, <2>1, <2>2
<1> DEFINE new == [jobs[k] EXCEPT !.completionHash = c, !.qualityScore = q,
                                  !.workUnits = w, !.status = "COMPLETED",
                                  !.settleAfter = SettleAfter(k)]
<1>4. /\ Exists(k) /\ jobs[k].status = "FUNDED"
      /\ controller[jobs[k].robotId] # NoAddress
      /\ jobs' = [jobs EXCEPT ![k] = new]
      /\ UNCHANGED <<now, callStack, balance, controller, bonded, locked, exists, metadata,
                     supply, reputation, vrwx, jobCount, disputes, stakes>>
    BY <1>1, <1>3 DEF AcceptClaim, chainVars, bondVars, receiptVars
<1>5. SettleAfter(k) \in Nat
    BY JobAssumption DEF SettleAfter, IInv, TypeOK
<1>6. new \in JobType
    BY <1>2, <1>5 DEF JobType, Statuses
<1>7. jobs' \in [JobIds -> JobType] /\ JobsWellFormed'
    <2>1. /\ new.buyer = jobs[k].buyer /\ new.robotId = jobs[k].robotId
          /\ new.jobSpecHash = jobs[k].jobSpecHash /\ new.tokenId = jobs[k].tokenId
          /\ new.status = "COMPLETED" /\ new.completionHash = c
        BY <1>2 DEF JobType
    <2>2. jobs[k].tokenId = NoToken /\ jobs[k].robotId \in Robots
        BY <1>4 DEF IInv, JobsWellFormed, Exists
    <2>3. controller[jobs[k].robotId] \in Users
        BY <1>4, <2>2 DEF IInv, TypeOK
    <2> HIDE DEF new
    <2> QED
        BY <1>2, <1>4, <1>6, <2>1, <2>2, <2>3, JobChange DEF IInv
<1>8. TypeOK'
    BY <1>4, <1>7 DEF IInv, TypeOK
<1>9. WaitingWellFormed'
    BY <1>2, <1>4 DEF IInv, WaitingWellFormed, InSettle
<1>10. LockedWithinBond'
    BY <1>4, BondFrame DEF IInv
<1> QED
    BY <1>7, <1>8, <1>9, <1>10 DEF IInv

\* A job past its funding has a receipt id to mint and a controller to pay.
LEMMA CompletedJob ==
    ASSUME IInv, NEW k \in JobIds, jobs[k].status \notin {"CREATED", "FUNDED"}
    PROVE  /\ jobs[k] \in JobType
           /\ Exists(k)
           /\ jobs[k].robotId \in Robots
           /\ controller[jobs[k].robotId] \in Users
           /\ TokenIdOf(jobs[k]) \in TokenIds
<1>1. jobs[k] \in JobType
    BY DEF IInv, TypeOK
<1>2. Exists(k)
    BY StatusExists DEF IInv
<1> QED
    BY <1>1, <1>2 DEF IInv, JobsWellFormed, Exists, TokenIdOf, TokenIds

LEMMA BeginSettleIInv ==
    ASSUME IInv, NEW k \in JobIds, BeginSettle(k)
    PROVE  IInv'
<1> DEFINE job == jobs[k]
           payee == controller[job.robotId]
           t == TokenIdOf(job)
<1>1. /\ job.status = "COMPLETED" /\ now >= job.settleAfter
      /\ balance[Escrow] >= job.price
      /\ balance' = Moved(Moved(balance, Escrow, Treasury, Fee(job.price)),
                          Escrow, payee, Payout(job.price))
      /\ Mint(t, k)
      /\ callStack' = Append(callStack, k)
      /\ UNCHANGED <<now, controller, bonded, locked, reputation, vrwx, jobCount, jobs,
                     disputes, stakes>>
    BY DEF BeginSettle, SettleBegin, SettleGuard, WindowOver, bondVars, jobVars
<1>2. job \in JobType /\ payee \in Users /\ t \in TokenIds
    BY <1>1, CompletedJob
<1>3. balance' \in [Accounts -> Nat]
    <2>1. /\ balance \in [Accounts -> Nat] /\ Escrow \in Accounts /\ Treasury \in Accounts
          /\ Escrow # Treasury /\ payee \in Accounts
        BY <1>2, AddressesAssumption DEF IInv, TypeOK, Accounts
    <2>2. job.price \in Nat
        BY <1>2 DEF JobType
    <2>3. PICK fee, rest \in Nat : /\ fee = Fee(job.price) /\ rest = Payout(job.price)
                                   /\ fee + rest = job.price
        BY <2>2, PayoutType
    <2>4. fee <= balance[Escrow] /\ rest <= balance[Escrow] - fee
        BY <1>1, <2>1, <2>2, <2>3
    <2> DEFINE b == Moved(balance, Escrow, Treasury, fee)
    <2>5. b \in [Accounts -> Nat]
        BY <2>1, <2>3, <2>4, MovedType
    <2>6. b[Escrow] = balance[Escrow] - fee
        BY <2>1, <2>3 DEF Moved
    <2> HIDE DEF b
    <2>7. Moved(b, Escrow, payee, rest) \in [Accounts -> Nat]
        BY <2>1, <2>3, <2>4, <2>5, <2>6, MovedType
    <2> QED
        BY <1>1, <2>3, <2>7 DEF b
<1>4. callStack' \in Seq(JobIds)
    BY <1>1 DEF IInv, TypeOK
<1>5. /\ exists' \in SUBSET TokenIds
      /\ metadata' \in [TokenIds -> JobIds \cup {0}]
      /\ supply' \in [TokenIds -> Nat]
    BY <1>1, <1>2 DEF Mint, IInv, TypeOK
<1>6. TypeOK'
    BY <1>1, <1>3, <1>4, <1>5 DEF IInv, TypeOK
<1>7. JobsWellFormed'
    BY <1>1, JobsFrame DEF IInv
<1>8. WaitingWellFormed'
    <2>1. \A j \in JobIds : InSettle(j)' => InSettle(j) \/ j = k
        BY <1>1 DEF InSettle, IInv, TypeOK
    <2>2. \A j \in JobIds : InSettle(j) => t # TokenIdOf(jobs[j])
        BY <1>1 DEF Mint, IInv, WaitingWellFormed
    <2>3. ~InSettle(k)
        BY <2>2
    <2>4. \A j \in JobIds : InSettle(j)' =>
            /\ jobs'[j].status = "COMPLETED"
            /\ now' >= jobs'[j].settleAfter
            /\ TokenIdOf(jobs'[j]) \in exists'
            /\ metadata'[TokenIdOf(jobs'[j])] = j
        BY <1>1, <1>2, <2>1, <2>2 DEF Mint, IInv, TypeOK, WaitingWellFormed
    <2>5. \A i, n \in 1..Len(callStack') : callStack'[i] = callStack'[n] => i = n
        BY <1>1, <2>3 DEF InSettle, IInv, TypeOK, WaitingWellFormed
    <2> QED
        BY <2>4, <2>5 DEF WaitingWellFormed
<1>9. LockedWithinBond'
    BY <1>1, BondFrame DEF IInv
<1> QED
    BY <1>6, <1>7, <1>8, <1>9 DEF IInv

LEMMA FinishSettleIInv ==
    ASSUME IInv, NEW k \in JobIds, FinishSettle(k)
    PROVE  IInv'
<1> DEFINE job == jobs[k]
           r == job.robotId
           n == Len(callStack)
           new == [job EXCEPT !.tokenId = TokenIdOf(job), !.status = "SETTLED"]
<1>1. /\ callStack # <<>> /\ callStack[n] = k /\ callStack' = SubSeq(callStack, 1, n - 1)
      /\ Unlock(r, MinBond(job.price))
      /\ reputation' = ReputationAfterSettle(r)
      /\ vrwx' = VRWXAfterSettle(job)
      /\ jobs' = [jobs EXCEPT ![k].tokenId = TokenIdOf(job), ![k].status = "SETTLED"]
      /\ UNCHANGED <<now, balance, controller, exists, metadata, supply, jobCount,
                     disputes, stakes>>
    BY DEF FinishSettle, SettleFinish, receiptVars
<1>2. n \in Nat \ {0} /\ callStack \in Seq(JobIds)
    BY <1>1 DEF IInv, TypeOK
<1>3. InSettle(k) /\ job.status = "COMPLETED"
    BY <1>1, <1>2 DEF InSettle, IInv, WaitingWellFormed
<1>4. /\ job \in JobType /\ Exists(k) /\ r \in Robots /\ controller[r] \in Users
      /\ TokenIdOf(job) \in TokenIds
    BY <1>3, CompletedJob
<1>5. jobs \in [JobIds -> JobType]
    BY DEF IInv, TypeOK
<1>6. new \in JobType
    BY <1>4 DEF JobType, Statuses
<1>7. jobs' \in [JobIds -> JobType] /\ JobsWellFormed'
    <2>1. jobs' = [jobs EXCEPT ![k] = new]
        BY <1>1, <1>5
    <2>2. /\ new.buyer = job.buyer /\ new.robotId = r /\ new.jobSpecHash = job.jobSpecHash
          /\ new.completionHash = job.completionHash /\ new.status = "SETTLED"
        BY <1>4 DEF JobType
    <2>3. job.completionHash \in Completions
        BY <1>3 DEF IInv, JobsWellFormed
    <2> HIDE DEF new
    <2> QED
        BY <1>1, <1>4, <1>5, <1>6, <2>1, <2>2, <2>3, JobChange DEF IInv
<1>8. /\ callStack' \in Seq(JobIds) /\ Len(callStack') = n - 1
      /\ \A i \in 1..(n - 1) : callStack'[i] = callStack[i]
    <2>1. PICK m \in Nat : m = n - 1
        BY <1>2
    <2>2. callStack' = SubSeq(callStack, 1, m)
        BY <1>1, <2>1
    <2>3. \A i \in 1..m : callStack[i] \in JobIds
        BY <1>2, <2>1
    <2>4. /\ callStack' \in Seq(JobIds)
          /\ Len(callStack') = IF 1 <= m THEN m - 1 + 1 ELSE 0
          /\ \A i \in 1..(m - 1 + 1) : callStack'[i] = callStack[1 + i - 1]
        BY <2>2, <2>3, SubSeqProperties
    <2> HIDE DEF n
    <2> QED
        BY <2>1, <2>4
<1>9. /\ locked' \in [Robots -> Nat] /\ bonded' = bonded
      /\ \A q \in Robots : locked'[q] <= bonded'[q]
    <2>1. PICK a \in Nat : a = MinBond(job.price)
        BY <1>4, MinBondType DEF JobType
    <2> QED
        BY <1>1, <1>4, <2>1 DEF Unlock, IInv, TypeOK, LockedWithinBond
<1>10. reputation' \in [Robots -> ReputationType]
    <2>1. reputation \in [Robots -> ReputationType]
        BY DEF IInv, TypeOK
    <2>2. RecordJobComplete(reputation[r]) \in ReputationType
        BY <1>4, <2>1, RecordsType
    <2> QED
        BY <1>1, <2>1, <2>2 DEF ReputationAfterSettle
<1>11. vrwx' \in [Accounts -> Nat]
    <2>1. vrwx \in [Accounts -> Nat]
        BY DEF IInv, TypeOK
    <2>2. ReputationAfterSettle(r)[r] \in ReputationType
        BY <1>1, <1>4, <1>10
    <2>3. ReliabilityScoreBps(ReputationAfterSettle(r)[r]) \in BasisPoints
        <3> DEFINE rep == ReputationAfterSettle(r)[r]
        <3>1. rep.reliabilityScoreBps \in BasisPoints
            BY <2>2 DEF ReputationType
        <3>2. 10000 \in BasisPoints
            BY DEF BasisPoints
        <3>3. ReliabilityScoreBps(rep) \in {10000, rep.reliabilityScoreBps}
            BY DEF ReliabilityScoreBps
        <3> HIDE DEF rep
        <3>4. ReliabilityScoreBps(rep) \in BasisPoints
            BY <3>1, <3>2, <3>3
        <3> QED
            BY <3>4 DEF rep
    <2>4. job.qualityScore \in QualityScores /\ job.workUnits \in Nat
        BY <1>4 DEF JobType
    <2>5. PICK a \in Nat : a = Reward(job.qualityScore, job.workUnits,
                                RobotMultiplier(ReputationAfterSettle(r)[r]))
        BY <2>3, <2>4, MultiplierType, RewardType
    <2>6. controller[r] \in Accounts
        BY <1>4 DEF Accounts
    <2> QED
        BY <1>1, <2>1, <2>5, <2>6 DEF VRWXAfterSettle, OnJobFinal
<1>12. TypeOK'
    BY <1>1, <1>7, <1>8, <1>9, <1>10, <1>11 DEF IInv, TypeOK
<1>13. WaitingWellFormed'
    <2>1. \A j \in JobIds : InSettle(j)' => InSettle(j) /\ j # k
        BY <1>1, <1>2, <1>8 DEF InSettle, IInv, WaitingWellFormed
    <2>2. \A j \in JobIds \ {k} : jobs'[j] = jobs[j]
        BY <1>1, <1>5
    <2>3. \A i, m \in 1..Len(callStack') : callStack'[i] = callStack'[m] => i = m
        BY <1>2, <1>8 DEF IInv, WaitingWellFormed
    <2>4. ASSUME NEW j \in JobIds, InSettle(j)'
          PROVE  /\ jobs'[j].status = "COMPLETED"
                 /\ now' >= jobs'[j].settleAfter
                 /\ TokenIdOf(jobs'[j]) \in exists'
                 /\ metadata'[TokenIdOf(jobs'[j])] = j
        <3>1. InSettle(j) /\ jobs'[j] = jobs[j]
            BY <2>1, <2>2, <2>4
        <3>2. /\ jobs[j].status = "COMPLETED" /\ now >= jobs[j].settleAfter
              /\ TokenIdOf(jobs[j]) \in exists /\ metadata[TokenIdOf(jobs[j])] = j
            BY <3>1 DEF IInv, WaitingWellFormed
        <3>3. now' = now /\ exists' = exists /\ metadata' = metadata
            BY <1>1
        <3> QED
            BY <3>1, <3>2, <3>3
    <2> QED
        BY <2>3, <2>4 DEF WaitingWellFormed
<1>14. LockedWithinBond'
    BY <1>9 DEF LockedWithinBond
<1> QED
    BY <1>7, <1>12, <1>13, <1>14 DEF IInv

LEMMA DisputeIInv ==
    ASSUME IInv, Dispute
    PROVE  IInv'
<1>1. PICK u \in Users, k \in JobIds : OpenDispute(u, k) /\ UNCHANGED stakes
    BY DEF Dispute
<1> DEFINE new == [jobs[k] EXCEPT !.status = "DISPUTED"]
<1>2. /\ Exists(k) /\ jobs[k].status = "COMPLETED" /\ now < jobs[k].settleAfter
      /\ jobs' = [jobs EXCEPT ![k] = new]
      /\ disputes' = [disputes EXCEPT ![k] = [challenger |-> u, verdict |-> "PENDING"]]
      /\ UNCHANGED <<now, callStack, balance, controller, bonded, locked, exists, metadata,
                     supply, reputation, vrwx, jobCount, stakes>>
    BY <1>1 DEF OpenDispute, WindowOpen, chainVars, bondVars, receiptVars
<1>3. /\ jobs \in [JobIds -> JobType] /\ jobs[k] \in JobType
      /\ controller[jobs[k].robotId] \in Users
    BY <1>2, CompletedJob DEF IInv, TypeOK
<1>4. new \in JobType
    BY <1>3 DEF JobType, Statuses
<1>5. jobs' \in [JobIds -> JobType] /\ JobsWellFormed'
    <2>1. /\ new.buyer = jobs[k].buyer /\ new.robotId = jobs[k].robotId
          /\ new.jobSpecHash = jobs[k].jobSpecHash /\ new.tokenId = jobs[k].tokenId
          /\ new.completionHash = jobs[k].completionHash /\ new.status = "DISPUTED"
        BY <1>3 DEF JobType
    <2>2. jobs[k].tokenId = NoToken /\ jobs[k].completionHash \in Completions
        BY <1>2 DEF IInv, JobsWellFormed, Exists
    <2> HIDE DEF new
    <2> QED
        BY <1>2, <1>3, <1>4, <2>1, <2>2, JobChange DEF IInv
<1>6. disputes' \in [JobIds -> [challenger : Users \cup {NoAddress}, verdict : Verdicts]]
    BY <1>2 DEF Verdicts, IInv, TypeOK
<1>7. TypeOK'
    BY <1>2, <1>5, <1>6 DEF IInv, TypeOK
<1>8. WaitingWellFormed'
    <2>1. ~InSettle(k)
        BY <1>2, <1>3 DEF IInv, TypeOK, WaitingWellFormed, JobType
    <2>2. ASSUME NEW j \in JobIds, InSettle(j)'
          PROVE  /\ jobs'[j].status = "COMPLETED"
                 /\ now' >= jobs'[j].settleAfter
                 /\ TokenIdOf(jobs'[j]) \in exists'
                 /\ metadata'[TokenIdOf(jobs'[j])] = j
        <3>1. InSettle(j)
            BY <1>2, <2>2 DEF InSettle
        <3>2. jobs'[j] = jobs[j]
            BY <1>2, <1>3, <2>1, <3>1
        <3>3. /\ jobs[j].status = "COMPLETED" /\ now >= jobs[j].settleAfter
              /\ TokenIdOf(jobs[j]) \in exists /\ metadata[TokenIdOf(jobs[j])] = j
            BY <3>1 DEF IInv, WaitingWellFormed
        <3>4. now' = now /\ exists' = exists /\ metadata' = metadata
            BY <1>2
        <3> QED
            BY <3>2, <3>3, <3>4
    <2>3. \A i, m \in 1..Len(callStack') : callStack'[i] = callStack'[m] => i = m
        BY <1>2 DEF IInv, WaitingWellFormed
    <2> QED
        BY <2>2, <2>3 DEF WaitingWellFormed
<1>9. LockedWithinBond'
    BY <1>2, BondFrame DEF IInv
<1> QED
    BY <1>5, <1>7, <1>8, <1>9 DEF IInv

\* What a slash of a stake leaves is a stake.
LEMMA SlashStakeType ==
    ASSUME NEW u \in Users, NEW c \in Accounts,
           stakes \in [Users -> StakeType], vrwx \in [Accounts -> Nat],
           SlashStakeVRWX(u, c)
    PROVE  stakes' \in [Users -> StakeType] /\ vrwx' \in [Accounts -> Nat]
<1>1. PICK a \in Nat : a = SlashShare(u) /\ a <= stakes[u].staked
    BY SlashShareType
<1>2. CASE a = 0
    BY <1>1, <1>2 DEF SlashStakeVRWX
<1>3. CASE a # 0
    <2>1. /\ stakes' = [stakes EXCEPT ![u] = SlashedStake(stakes[u], a)]
          /\ vrwx[Gate] >= a /\ vrwx' = Moved(vrwx, Gate, c, a)
        BY <1>1, <1>3 DEF SlashStakeVRWX
    <2>2. stakes[u] \in StakeType
        OBVIOUS
    <2>3. [stakes[u] EXCEPT !.staked = @ - a] \in StakeType
        BY <1>1, <2>2 DEF StakeType
    <2>4. SlashedStake(stakes[u], a) \in StakeType
        BY <2>3 DEF SlashedStake, WithoutUnlock, StakeType
    <2>5. vrwx' \in [Accounts -> Nat]
        BY <1>1, <2>1, MovedType DEF Accounts
    <2> QED
        BY <2>1, <2>4, <2>5
<1> QED
    BY <1>2, <1>3

LEMMA ResolveValidIInv ==
    ASSUME IInv, NEW k \in JobIds, ResolveValid(k), UNCHANGED stakes
    PROVE  IInv'
<1>1. /\ disputes' = [disputes EXCEPT ![k].verdict = "VALID"]
      /\ UNCHANGED <<now, callStack, balance, controller, bonded, locked, exists, metadata,
                     supply, reputation, vrwx, jobCount, jobs, stakes>>
    BY DEF ResolveValid, chainVars, bondVars, receiptVars, jobVars
<1>2. TypeOK'
    <2>1. disputes' \in [JobIds -> [challenger : Users \cup {NoAddress}, verdict : Verdicts]]
        BY <1>1 DEF Verdicts, IInv, TypeOK
    <2> QED
        BY <1>1, <2>1 DEF IInv, TypeOK
<1>3. JobsWellFormed'
    BY <1>1, JobsFrame DEF IInv
<1>4. WaitingWellFormed'
    BY <1>1, WaitingFrame DEF IInv
<1>5. LockedWithinBond'
    BY <1>1, BondFrame DEF IInv
<1> QED
    BY <1>2, <1>3, <1>4, <1>5 DEF IInv

LEMMA ResolveFaultIInv ==
    ASSUME IInv, NEW k \in JobIds, NEW v \in Verdicts, ResolveFault(k, v)
    PROVE  IInv'
<1> DEFINE job == jobs[k]
           r == job.robotId
           c == disputes[k].challenger
           bond == MinBond(job.price)
           slashed == Slashable(r, bond)
           new == [job EXCEPT !.status = "REFUNDED"]
<1>1. /\ callStack = <<>>
      /\ c # NoAddress
      /\ job.status = "DISPUTED"
      /\ disputes' = [disputes EXCEPT ![k].verdict = v]
      /\ jobs' = [jobs EXCEPT ![k].status = "REFUNDED"]
      /\ balance[Escrow] >= job.price
      /\ balance[BondPool] >= slashed
      /\ balance' = Moved(Moved(balance, Escrow, job.buyer, job.price), BondPool, c, slashed)
      /\ Slash(r, bond)
      /\ BurnReceipt(job)
      /\ reputation' = ReputationAfterFault(r)
      /\ \/ UNCHANGED <<stakes, vrwx>>
         \/ controller[r] # NoAddress /\ SlashStakeVRWX(controller[r], c)
      /\ UNCHANGED <<now, callStack, controller, jobCount>>
    BY DEF ResolveFault, HasDispute, chainVars
<1>2. /\ job \in JobType /\ Exists(k) /\ r \in Robots /\ controller[r] \in Users
    BY <1>1, CompletedJob
<1>3. jobs \in [JobIds -> JobType] /\ c \in Users /\ job.buyer \in Users
    BY <1>1, <1>2 DEF IInv, TypeOK, Exists, JobType
<1>4. new \in JobType
    BY <1>2 DEF JobType, Statuses
<1>5. jobs' \in [JobIds -> JobType] /\ JobsWellFormed'
    <2>1. jobs' = [jobs EXCEPT ![k] = new]
        BY <1>1, <1>3
    <2>2. /\ new.buyer = job.buyer /\ new.robotId = r /\ new.jobSpecHash = job.jobSpecHash
          /\ new.completionHash = job.completionHash /\ new.status = "REFUNDED"
          /\ new.tokenId = job.tokenId
        BY <1>2 DEF JobType
    <2>3. job.completionHash \in Completions /\ job.tokenId = NoToken
        BY <1>1 DEF IInv, JobsWellFormed
    <2> HIDE DEF new
    <2> QED
        BY <1>1, <1>2, <1>3, <1>4, <2>1, <2>2, <2>3, JobChange DEF IInv
<1>6. /\ bond \in Nat /\ locked[r] \in Nat /\ bonded[r] \in Nat /\ locked[r] <= bonded[r]
      /\ job.price \in Nat
    BY <1>2, MinBondType DEF JobType, IInv, TypeOK, LockedWithinBond
<1>7. slashed \in Nat /\ slashed <= locked[r]
    BY <1>6 DEF Slashable
<1>8. balance' \in [Accounts -> Nat]
    <2>1. /\ balance \in [Accounts -> Nat] /\ Escrow \in Accounts /\ BondPool \in Accounts
          /\ Escrow # BondPool /\ c \in Accounts /\ job.buyer \in Accounts
          /\ job.buyer # BondPool
        BY <1>3, AddressesAssumption DEF IInv, TypeOK, Accounts, Escrow, BondPool
    <2>2. PICK p \in Nat : p = job.price
        BY <1>6
    <2>3. PICK s \in Nat : s = slashed
        BY <1>7
    <2> DEFINE b == Moved(balance, Escrow, job.buyer, p)
    <2>4. b \in [Accounts -> Nat]
        BY <1>1, <2>1, <2>2, MovedType
    <2>5. b[BondPool] = balance[BondPool]
        BY <2>1, <2>2 DEF Moved
    <2> HIDE DEF b, slashed
    <2>6. Moved(b, BondPool, c, s) \in [Accounts -> Nat]
        BY <1>1, <2>1, <2>3, <2>4, <2>5, MovedType
    <2> QED
        BY <1>1, <2>2, <2>3, <2>6 DEF b
<1>9. /\ bonded' \in [Robots -> Nat] /\ locked' \in [Robots -> Nat]
      /\ \A q \in Robots : locked'[q] <= bonded'[q]
    <2>1. PICK s \in Nat : s = slashed /\ s <= locked[r]
        BY <1>7
    <2>2. /\ locked' = [locked EXCEPT ![r] = locked[r] - s]
          /\ bonded' = [bonded EXCEPT ![r] = bonded[r] - s]
        BY <1>1, <2>1 DEF Slash
    <2> HIDE DEF slashed
    <2> QED
        BY <1>2, <1>6, <2>1, <2>2 DEF IInv, TypeOK, LockedWithinBond
<1>10. UNCHANGED <<exists, metadata, supply>>
    <2>1. job.tokenId = NoToken
        BY <1>1 DEF IInv, JobsWellFormed
    <2> QED
        BY <1>1, <2>1 DEF BurnReceipt, receiptVars
<1>11. reputation' \in [Robots -> ReputationType]
    <2>1. reputation \in [Robots -> ReputationType]
        BY DEF IInv, TypeOK
    <2>2. RecordSlash(RecordDispute(reputation[r])) \in ReputationType
        BY <1>2, <2>1, RecordsType
    <2> QED
        BY <1>1, <2>1, <2>2 DEF ReputationAfterFault
<1>12. stakes' \in [Users -> StakeType] /\ vrwx' \in [Accounts -> Nat]
    <2>1. stakes \in [Users -> StakeType] /\ vrwx \in [Accounts -> Nat] /\ c \in Accounts
        BY <1>3 DEF IInv, TypeOK, Accounts
    <2>2. CASE UNCHANGED <<stakes, vrwx>>
        BY <2>1, <2>2
    <2>3. CASE SlashStakeVRWX(controller[r], c)
        BY <1>2, <2>1, <2>3, SlashStakeType
    <2> QED
        BY <1>1, <2>2, <2>3
<1>13. disputes' \in [JobIds -> [challenger : Users \cup {NoAddress}, verdict : Verdicts]]
    BY <1>1 DEF IInv, TypeOK
<1>14. TypeOK'
    BY <1>1, <1>5, <1>8, <1>9, <1>10, <1>11, <1>12, <1>13 DEF IInv, TypeOK
<1>15. WaitingWellFormed'
    BY <1>1 DEF WaitingWellFormed, InSettle
<1>16. LockedWithinBond'
    BY <1>9 DEF LockedWithinBond
<1> QED
    BY <1>5, <1>14, <1>15, <1>16 DEF IInv

LEMMA ResolveIInv ==
    ASSUME IInv, Resolve
    PROVE  IInv'
<1>1. PICK k \in JobIds : \/ \E v \in Verdicts : ResolveFault(k, v)
                          \/ ResolveValid(k) /\ UNCHANGED stakes
    BY DEF Resolve
<1> QED
    BY <1>1, ResolveFaultIInv, ResolveValidIInv

LEMMA StakingIInv ==
    ASSUME IInv, StakingStep
    PROVE  IInv'
<1>1. PICK u \in Operators :
        \/ \E a \in StakeAmounts : Stake(u, a) \/ RequestUnlock(u, a)
        \/ CancelUnlock(u)
        \/ Unstake(u)
    BY DEF StakingStep
<1>2. /\ u \in Users /\ u \in Accounts /\ Gate \in Accounts
      /\ vrwx \in [Accounts -> Nat] /\ stakes \in [Users -> StakeType]
      /\ stakes[u] \in StakeType
    BY AmountsAssumption DEF IInv, TypeOK, Accounts
<1>3. /\ UNCHANGED <<now, callStack, balance, controller, reputation>>
      /\ UNCHANGED <<bonded, locked, exists, metadata, supply, jobCount, jobs, disputes>>
    <2>1. UNCHANGED <<bonded, locked, exists, metadata, supply, jobCount, jobs, disputes>>
        BY DEF StakingStep, bondVars, receiptVars, jobVars
    <2> QED
        BY <1>1, <2>1 DEF Stake, RequestUnlock, CancelUnlock, Unstake, chainVars
<1>4. stakes' \in [Users -> StakeType] /\ vrwx' \in [Accounts -> Nat]
    <2>1. CASE \E a \in StakeAmounts : Stake(u, a)
        <3>1. PICK a \in Nat : Stake(u, a)
            BY <2>1, AmountsAssumption
        <3>2. [stakes[u] EXCEPT !.staked = @ + a] \in StakeType
            BY <1>2 DEF StakeType
        <3>3. stakes' = [stakes EXCEPT ![u] = [stakes[u] EXCEPT !.staked = @ + a]]
            BY <1>2, <3>1 DEF Stake
        <3>4. vrwx' \in [Accounts -> Nat]
            BY <1>2, <3>1, MovedType DEF Stake
        <3> QED
            BY <1>2, <3>2, <3>3, <3>4
    <2>2. CASE \E a \in StakeAmounts : RequestUnlock(u, a)
        <3>1. PICK a \in Nat : RequestUnlock(u, a)
            BY <2>2, AmountsAssumption
        <3> DEFINE s == [stakes[u] EXCEPT !.unlockRequestedAt = now, !.unlockAmount = a]
        <3>2. s \in StakeType
            BY <1>2 DEF StakeType, IInv, TypeOK
        <3>3. stakes' = [stakes EXCEPT ![u] = s] /\ vrwx' = vrwx
            BY <1>2, <3>1 DEF RequestUnlock
        <3> HIDE DEF s
        <3> QED
            BY <1>2, <3>2, <3>3
    <2>3. CASE CancelUnlock(u)
        <3>1. WithoutUnlock(stakes[u]) \in StakeType
            BY <1>2 DEF WithoutUnlock, StakeType
        <3> QED
            BY <1>2, <2>3, <3>1 DEF CancelUnlock
    <2>4. CASE Unstake(u)
        <3>1. PICK a \in Nat : a = stakes[u].unlockAmount
            BY <1>2 DEF StakeType
        <3>2. a <= stakes[u].staked /\ vrwx[Gate] >= a /\ vrwx' = Moved(vrwx, Gate, u, a)
            BY <2>4, <3>1 DEF Unstake
        <3>3. [stakes[u] EXCEPT !.staked = @ - stakes[u].unlockAmount] \in StakeType
            BY <1>2, <3>1, <3>2 DEF StakeType
        <3>4. Unstaked(stakes[u]) \in StakeType
            BY <3>3 DEF Unstaked, WithoutUnlock, StakeType
        <3>5. stakes' = [stakes EXCEPT ![u] = Unstaked(stakes[u])]
            BY <2>4 DEF Unstake
        <3> QED
            BY <1>2, <3>2, <3>4, <3>5, MovedType
    <2> QED
        BY <1>1, <2>1, <2>2, <2>3, <2>4
<1>5. TypeOK'
    BY <1>3, <1>4 DEF IInv, TypeOK
<1>6. JobsWellFormed'
    BY <1>3, JobsFrame DEF IInv
<1>7. WaitingWellFormed'
    BY <1>3, WaitingFrame DEF IInv
<1>8. LockedWithinBond'
    BY <1>3, BondFrame DEF IInv
<1> QED
    BY <1>5, <1>6, <1>7, <1>8 DEF IInv

LEMMA NextIInv == IInv /\ [Next]_vars => IInv'
<1> SUFFICES ASSUME IInv, [Next]_vars
             PROVE  IInv'
    OBVIOUS
<1>1. CASE Next
    BY <1>1, TickIInv, IdentityIInv, BondIInv, CreateIInv, FundIInv, CompleteIInv,
       BeginSettleIInv, FinishSettleIInv, DisputeIInv, ResolveIInv, StakingIInv DEF Next
<1>2. CASE UNCHANGED vars
    <2> USE <1>2 DEF vars, chainVars, bondVars, receiptVars, jobVars
    <2>1. TypeOK'
        BY DEF IInv, TypeOK
    <2>2. JobsWellFormed'
        BY JobsFrame DEF IInv
    <2>3. WaitingWellFormed'
        BY WaitingFrame DEF IInv
    <2>4. LockedWithinBond'
        BY BondFrame DEF IInv
    <2> QED
        BY <2>1, <2>2, <2>3, <2>4 DEF IInv
<1> QED
    BY <1>1, <1>2

\* The inductive invariant holds in every reachable state.
THEOREM Inductive == Spec => []IInv
BY InitIInv, NextIInv, PTL DEF Spec

\* No transaction takes a balance, a bond, a locked bond or a stake below zero, and every
\* record stays one the contracts can hold, whatever runs while a settlement waits for
\* its receipt (JobEscrow, BondManager, StakingGate: every subtraction of theirs).
THEOREM TypeCorrect == Spec => []TypeOK
<1>1. IInv => TypeOK
    BY DEF IInv
<1> QED
    BY Inductive, <1>1, PTL

-------------------------------------------------------------------------------
(* Disputes and statuses *)

\* A transaction that moves one undisputed job between undisputed statuses.
LEMMA UndisputedChange ==
    ASSUME DisputesMatchJobs, disputes' = disputes, NEW k \in JobIds,
           jobs[k].status \notin {"DISPUTED", "REFUNDED"},
           jobs'[k].status \notin {"DISPUTED", "REFUNDED"},
           \A j \in JobIds \ {k} : jobs'[j] = jobs[j]
    PROVE  DisputesMatchJobs'
<1> SUFFICES ASSUME NEW j \in JobIds
             PROVE  (LET verdict == disputes[j].verdict
                         status == jobs[j].status
                     IN  /\ HasDispute(j) <=> status \in {"DISPUTED", "REFUNDED"}
                         /\ HasDispute(j) =>
                                (verdict \in {"PENDING", "VALID"} <=> status = "DISPUTED")
                         /\ HasDispute(j) => disputes[j].challenger = jobs[j].buyer)'
    BY DEF DisputesMatchJobs
<1>1. CASE j = k
    BY <1>1 DEF DisputesMatchJobs, HasDispute
<1>2. CASE j # k
    BY <1>2 DEF DisputesMatchJobs, HasDispute
<1> QED
    BY <1>1, <1>2

LEMMA DisputesFrame ==
    ASSUME DisputesMatchJobs, UNCHANGED <<disputes, jobs>>
    PROVE  DisputesMatchJobs'
BY DEF DisputesMatchJobs, HasDispute

\* What each kind of transaction does to the record of one job.
LEMMA CreateChange ==
    ASSUME IInv, Create
    PROVE  \E k \in JobIds :
             /\ ~Exists(k)
             /\ jobs[k].status = "CREATED"
             /\ jobs'[k].status \in {"CREATED", "FUNDED"}
             /\ jobs'[k].buyer # NoAddress /\ jobs'[k].price \in Prices
             /\ jobs'[k].settleAfter = jobs[k].settleAfter
             /\ \A j \in JobIds \ {k} : jobs'[j] = jobs[j]
             /\ UNCHANGED <<now, callStack, exists, metadata, supply, disputes>>
<1>1. PICK u \in Buyers, s \in JobSpecs, r \in Robots, p \in Prices, d \in Deadlines :
        /\ \/ CreateJob(u, s, r, p, d)
           \/ \E caller \in Users : CreateAndFundJobFor(caller, u, s, r, p, d)
        /\ UNCHANGED <<disputes, stakes>>
    BY DEF Create
<1>2. PICK st \in {"CREATED", "FUNDED"} : OpenJob(u, s, r, p, d, st)
    <2>1. OpenJob(u, s, r, p, d, "CREATED") \/ OpenJob(u, s, r, p, d, "FUNDED")
        BY <1>1, Zenon DEF CreateJob, CreateAndFundJobFor
    <2> QED
        BY <2>1, Zenon
<1> DEFINE k == jobCount + 1
           new == [NoJob EXCEPT !.buyer = u, !.robotId = r, !.jobSpecHash = s,
                                !.price = p, !.deadline = d, !.status = st]
<1>3. k \in JobIds /\ jobCount \in Nat /\ jobs \in [JobIds -> JobType]
    BY <1>2, MaxJobsAssumption DEF OpenJob, IInv, TypeOK, JobIds
<1>4. /\ jobs' = [jobs EXCEPT ![k] = new] /\ new.status = st
      /\ new.buyer = u /\ new.price = p /\ new.settleAfter = NoJob.settleAfter
    <2>1. NoJob \in JobType
        BY NoJobType
    <2>2. /\ new.status = st
          /\ new.buyer = u /\ new.price = p /\ new.settleAfter = NoJob.settleAfter
        BY <2>1 DEF JobType
    <2> QED
        BY <1>2, <2>2 DEF OpenJob
<1>5. ~Exists(k) /\ jobs[k] = NoJob
    BY <1>3 DEF IInv, JobsWellFormed, Exists
<1>6. NoJob.status = "CREATED"
    BY DEF NoJob
<1>7. jobs'[k] = new /\ \A j \in JobIds \ {k} : jobs'[j] = jobs[j]
    BY <1>3, <1>4
<1>8. UNCHANGED <<now, callStack, exists, metadata, supply, disputes>>
    BY <1>1, <1>2 DEF OpenJob, chainVars, receiptVars
<1>9. u # NoAddress
    BY AmountsAssumption, AddressesAssumption
<1> HIDE DEF new, k
<1> QED
    BY <1>3, <1>4, <1>5, <1>6, <1>7, <1>8, <1>9

LEMMA FundChange ==
    ASSUME IInv, FundStep
    PROVE  \E k \in JobIds :
             /\ Exists(k)
             /\ jobs[k].status = "CREATED" /\ jobs'[k].status = "FUNDED"
             /\ jobs'[k].buyer = jobs[k].buyer /\ jobs'[k].price = jobs[k].price
             /\ jobs'[k].settleAfter = jobs[k].settleAfter
             /\ \A j \in JobIds \ {k} : jobs'[j] = jobs[j]
             /\ UNCHANGED <<now, callStack, exists, metadata, supply, disputes>>
<1>1. PICK u \in Users, k \in JobIds : Fund(u, k)
    BY DEF FundStep
<1>2. jobs \in [JobIds -> JobType] /\ jobs[k] \in JobType
    BY DEF IInv, TypeOK
<1>3. /\ jobs'[k].status = "FUNDED" /\ \A j \in JobIds \ {k} : jobs'[j] = jobs[j]
      /\ jobs'[k].buyer = jobs[k].buyer /\ jobs'[k].price = jobs[k].price
      /\ jobs'[k].settleAfter = jobs[k].settleAfter
    BY <1>1, <1>2 DEF Fund, JobType
<1>4. /\ Exists(k) /\ jobs[k].status = "CREATED"
      /\ UNCHANGED <<now, callStack, exists, metadata, supply, disputes>>
    BY <1>1 DEF Fund, FundStep, chainVars, receiptVars
<1> QED
    BY <1>3, <1>4

LEMMA CompleteChange ==
    ASSUME IInv, Complete
    PROVE  \E k \in JobIds :
             /\ jobs[k].status = "FUNDED" /\ jobs'[k].status = "COMPLETED"
             /\ jobs'[k].buyer = jobs[k].buyer /\ jobs'[k].price = jobs[k].price
             /\ jobs'[k].settleAfter = now + ChallengeWindow
             /\ \A j \in JobIds \ {k} : jobs'[j] = jobs[j]
             /\ UNCHANGED <<now, callStack, exists, metadata, supply, disputes>>
<1>1. PICK u \in Users, k \in JobIds, c \in Completions :
        /\ \/ SubmitCompletion(u, k, c)
           \/ \E m \in Metrics : SubmitCompletionV2(u, k, c, m[1], m[2])
        /\ UNCHANGED <<disputes, stakes>>
    BY DEF Complete
<1>2. \E claim, q, w : AcceptClaim(u, k, claim, c, q, w)
    BY <1>1, Zenon DEF SubmitCompletion, SubmitCompletionV2
<1>3. jobs \in [JobIds -> JobType] /\ jobs[k] \in JobType
    BY DEF IInv, TypeOK
<1>4. /\ jobs'[k].status = "COMPLETED" /\ \A j \in JobIds \ {k} : jobs'[j] = jobs[j]
      /\ jobs'[k].buyer = jobs[k].buyer /\ jobs'[k].price = jobs[k].price
      /\ jobs'[k].settleAfter = now + ChallengeWindow
    BY <1>2, <1>3 DEF AcceptClaim, SettleAfter, JobType
<1>5. /\ jobs[k].status = "FUNDED"
      /\ UNCHANGED <<now, callStack, exists, metadata, supply, disputes>>
    BY <1>1, <1>2 DEF AcceptClaim, chainVars, receiptVars
<1> QED
    BY <1>4, <1>5

LEMMA FinishSettleChange ==
    ASSUME IInv, NEW k \in JobIds, FinishSettle(k)
    PROVE  /\ InSettle(k)
           /\ jobs[k].status = "COMPLETED" /\ jobs'[k].status = "SETTLED"
           /\ TokenIdOf(jobs'[k]) = TokenIdOf(jobs[k])
           /\ jobs'[k].buyer = jobs[k].buyer /\ jobs'[k].price = jobs[k].price
           /\ jobs'[k].settleAfter = jobs[k].settleAfter
           /\ \A j \in JobIds : InSettle(j)' <=> InSettle(j) /\ j # k
           /\ \A j \in JobIds \ {k} : jobs'[j] = jobs[j]
           /\ UNCHANGED <<now, exists, metadata, supply, disputes>>
<1>1. jobs \in [JobIds -> JobType] /\ jobs[k] \in JobType
    BY DEF IInv, TypeOK
<1>2. InSettle(k) /\ jobs[k].status = "COMPLETED"
  <2>1. callStack \in Seq(JobIds) /\ callStack # <<>> /\ k = callStack[Len(callStack)]
    BY DEF FinishSettle, SettleFinish, IInv, TypeOK
  <2>2. Len(callStack) \in 1..Len(callStack)
    BY <2>1
  <2>3. InSettle(k)
    BY <2>1, <2>2 DEF InSettle
  <2> QED
    BY <2>3 DEF IInv, WaitingWellFormed
<1>3. /\ jobs'[k].status = "SETTLED"
      /\ jobs'[k].buyer = jobs[k].buyer /\ jobs'[k].price = jobs[k].price
      /\ jobs'[k].settleAfter = jobs[k].settleAfter
      /\ jobs'[k].jobSpecHash = jobs[k].jobSpecHash
      /\ jobs'[k].completionHash = jobs[k].completionHash
      /\ \A j \in JobIds \ {k} : jobs'[j] = jobs[j]
    BY <1>1 DEF FinishSettle, SettleFinish, JobType
<1>4. UNCHANGED <<now, exists, metadata, supply, disputes>>
    BY DEF FinishSettle, SettleFinish, receiptVars
<1>5. TokenIdOf(jobs'[k]) = TokenIdOf(jobs[k])
    BY <1>3 DEF TokenIdOf
<1>6. \A j \in JobIds : InSettle(j)' <=> InSettle(j) /\ j # k
    <2> DEFINE n == Len(callStack)
    <2>1. /\ callStack \in Seq(JobIds) /\ callStack # <<>> /\ callStack[n] = k
          /\ \A i, m \in 1..n : callStack[i] = callStack[m] => i = m
        BY DEF FinishSettle, SettleFinish, IInv, TypeOK, WaitingWellFormed
    <2>2. PICK m \in Nat : m = n - 1
        BY <2>1
    <2>3. callStack' = SubSeq(callStack, 1, m)
        BY <2>2 DEF FinishSettle, SettleFinish
    <2>4. \A i \in 1..m : callStack[i] \in JobIds
        BY <2>1, <2>2
    <2>5. /\ Len(callStack') = IF 1 <= m THEN m - 1 + 1 ELSE 0
          /\ \A i \in 1..(m - 1 + 1) : callStack'[i] = callStack[1 + i - 1]
        BY <2>3, <2>4, SubSeqProperties
    <2> HIDE DEF n
    <2>6. n \in Nat /\ n = m + 1
        BY <2>1, <2>2 DEF n
    <2>7. Len(callStack') = m /\ \A i \in 1..m : callStack'[i] = callStack[i]
        BY <2>5
    <2>8. \A j \in JobIds : InSettle(j) <=> \E i \in 1..n : callStack[i] = j
        BY DEF InSettle, n
    <2>9. \A j \in JobIds : InSettle(j)' <=> \E i \in 1..m : callStack[i] = j
        BY <2>7 DEF InSettle
    <2>10. \A i \in 1..n : i \in 1..m \/ i = n
        BY <2>6
    <2>11. 1..m \subseteq 1..n /\ n \in 1..n /\ n \notin 1..m
        BY <2>6
    <2> QED
        BY <2>1, <2>8, <2>9, <2>10, <2>11
<1> QED
    BY <1>2, <1>3, <1>4, <1>5, <1>6

LEMMA DisputeChange ==
    ASSUME IInv, Dispute
    PROVE  \E k \in JobIds :
             /\ jobs[k].status = "COMPLETED" /\ now < jobs[k].settleAfter /\ ~HasDispute(k)
             /\ jobs'[k].status = "DISPUTED"
             /\ jobs'[k].buyer = jobs[k].buyer /\ jobs'[k].price = jobs[k].price
             /\ jobs'[k].settleAfter = jobs[k].settleAfter
             /\ disputes'[k] = [challenger |-> jobs[k].buyer, verdict |-> "PENDING"]
             /\ jobs[k].buyer # NoAddress
             /\ \A j \in JobIds \ {k} : jobs'[j] = jobs[j] /\ disputes'[j] = disputes[j]
             /\ UNCHANGED <<now, callStack, exists, metadata, supply>>
<1>1. PICK u \in Users, k \in JobIds : OpenDispute(u, k)
    BY DEF Dispute
<1>2. /\ jobs \in [JobIds -> JobType] /\ jobs[k] \in JobType
      /\ disputes \in [JobIds -> [challenger : Users \cup {NoAddress}, verdict : Verdicts]]
    BY DEF IInv, TypeOK
<1>3. /\ jobs'[k].status = "DISPUTED"
      /\ jobs'[k].buyer = jobs[k].buyer /\ jobs'[k].price = jobs[k].price
      /\ jobs'[k].settleAfter = jobs[k].settleAfter
      /\ \A j \in JobIds \ {k} : jobs'[j] = jobs[j]
    BY <1>1, <1>2 DEF OpenDispute, JobType
<1>4. /\ disputes'[k] = [challenger |-> jobs[k].buyer, verdict |-> "PENDING"]
      /\ \A j \in JobIds \ {k} : disputes'[j] = disputes[j]
    BY <1>1, <1>2 DEF OpenDispute
<1>5. /\ jobs[k].status = "COMPLETED" /\ now < jobs[k].settleAfter /\ ~HasDispute(k)
      /\ jobs[k].buyer # NoAddress
      /\ UNCHANGED <<now, callStack, exists, metadata, supply>>
    BY <1>1 DEF OpenDispute, WindowOpen, Exists, chainVars, receiptVars
<1> QED
    BY <1>3, <1>4, <1>5

LEMMA FaultChange ==
    ASSUME IInv, NEW k \in JobIds, NEW v \in Verdicts, ResolveFault(k, v)
    PROVE  /\ callStack = <<>>
           /\ jobs[k].status = "DISPUTED" /\ HasDispute(k)
           /\ jobs'[k].status = "REFUNDED"
           /\ jobs'[k].buyer = jobs[k].buyer /\ jobs'[k].price = jobs[k].price
           /\ jobs'[k].settleAfter = jobs[k].settleAfter
           /\ disputes'[k].verdict \in {"FRAUD", "NON_DELIVERY"}
           /\ disputes'[k].challenger = disputes[k].challenger
           /\ \A j \in JobIds \ {k} : jobs'[j] = jobs[j] /\ disputes'[j] = disputes[j]
           /\ UNCHANGED <<now, callStack, exists, metadata, supply>>
<1>1. /\ jobs \in [JobIds -> JobType] /\ jobs[k] \in JobType
      /\ disputes \in [JobIds -> [challenger : Users \cup {NoAddress}, verdict : Verdicts]]
    BY DEF IInv, TypeOK
<1>2. /\ jobs' = [jobs EXCEPT ![k].status = "REFUNDED"]
      /\ disputes' = [disputes EXCEPT ![k].verdict = v]
      /\ v \in {"FRAUD", "NON_DELIVERY"}
    BY DEF ResolveFault
<1>3. /\ jobs'[k].status = "REFUNDED"
      /\ jobs'[k].buyer = jobs[k].buyer /\ jobs'[k].price = jobs[k].price
      /\ jobs'[k].settleAfter = jobs[k].settleAfter
      /\ \A j \in JobIds \ {k} : jobs'[j] = jobs[j]
    BY <1>1, <1>2 DEF JobType
<1>4. /\ disputes'[k].verdict = v /\ disputes'[k].challenger = disputes[k].challenger
      /\ \A j \in JobIds \ {k} : disputes'[j] = disputes[j]
    BY <1>1, <1>2
<1>5. jobs[k].tokenId = NoToken
    BY DEF ResolveFault, IInv, JobsWellFormed
<1>6. UNCHANGED <<now, callStack, exists, metadata, supply>>
    BY <1>5 DEF ResolveFault, BurnReceipt, chainVars, receiptVars
<1>7. callStack = <<>> /\ jobs[k].status = "DISPUTED" /\ HasDispute(k)
    BY DEF ResolveFault
<1> QED
    BY <1>2, <1>3, <1>4, <1>6, <1>7

LEMMA ValidChange ==
    ASSUME IInv, NEW k \in JobIds, ResolveValid(k)
    PROVE  /\ HasDispute(k) /\ disputes[k].verdict = "PENDING"
           /\ disputes'[k].verdict = "VALID"
           /\ disputes'[k].challenger = disputes[k].challenger
           /\ \A j \in JobIds \ {k} : disputes'[j] = disputes[j]
           /\ UNCHANGED <<now, callStack, exists, metadata, supply, jobs>>
<1>1. disputes \in [JobIds -> [challenger : Users \cup {NoAddress}, verdict : Verdicts]]
    BY DEF IInv, TypeOK
<1> QED
    BY <1>1 DEF ResolveValid, chainVars, receiptVars, jobVars

\* The other transactions leave jobs, receipts and disputes alone.
LEMMA OtherChange ==
    ASSUME IInv, Tick \/ IdentityStep \/ BondStep \/ StakingStep \/ UNCHANGED vars
    PROVE  /\ UNCHANGED <<callStack, jobs, disputes, exists, metadata, supply>>
           /\ now' >= now
<1>1. now \in Nat
    BY DEF IInv, TypeOK
<1>2. CASE Tick
    BY <1>1, <1>2 DEF Tick, NextBlock, receiptVars, jobVars
<1>3. CASE IdentityStep
    BY <1>1, <1>3 DEF IdentityStep, RegisterRobot, chainVars, receiptVars, jobVars
<1>4. CASE BondStep
    <2>1. PICK u \in Users, r \in Robots, a \in BondAmounts : Deposit(u, r, a) \/ Withdraw(u, r, a)
        BY <1>4 DEF BondStep
    <2> QED
        BY <1>1, <1>4, <2>1 DEF BondStep, Deposit, Withdraw, chainVars, receiptVars, jobVars
<1>5. CASE StakingStep
    BY <1>1, <1>5
    DEF StakingStep, Stake, RequestUnlock, CancelUnlock, Unstake, chainVars, receiptVars, jobVars
<1>6. CASE UNCHANGED vars
    BY <1>1, <1>6 DEF vars, chainVars, receiptVars, jobVars
<1> QED
    BY <1>2, <1>3, <1>4, <1>5, <1>6

LEMMA BeginSettleChange ==
    ASSUME IInv, NEW k \in JobIds, BeginSettle(k)
    PROVE  /\ jobs[k].status = "COMPLETED" /\ now >= jobs[k].settleAfter
           /\ ~InSettle(k)
           /\ TokenIdOf(jobs[k]) \in TokenIds
           /\ Mint(TokenIdOf(jobs[k]), k)
           /\ callStack' = Append(callStack, k)
           /\ UNCHANGED <<now, jobs, disputes>>
<1>1. /\ jobs[k].status = "COMPLETED" /\ now >= jobs[k].settleAfter
      /\ Mint(TokenIdOf(jobs[k]), k)
      /\ callStack' = Append(callStack, k)
      /\ UNCHANGED <<now, jobs, disputes>>
    BY DEF BeginSettle, SettleBegin, SettleGuard, WindowOver, jobVars
<1>2. TokenIdOf(jobs[k]) \notin exists
    BY <1>1 DEF Mint
<1>3. ~InSettle(k)
    BY <1>2 DEF IInv, WaitingWellFormed
<1> QED
    BY <1>1, <1>3, CompletedJob

\* The steps of the system, as the rest of this module tells them apart.
LEMMA StepCases ==
    ASSUME [Next]_vars
    PROVE  \/ Tick \/ IdentityStep \/ BondStep \/ StakingStep \/ UNCHANGED vars
           \/ Create
           \/ FundStep
           \/ Complete
           \/ \E k \in JobIds : BeginSettle(k)
           \/ \E k \in JobIds : FinishSettle(k)
           \/ Dispute
           \/ \E k \in JobIds, v \in Verdicts : ResolveFault(k, v)
           \/ \E k \in JobIds : ResolveValid(k)
BY DEF Next, Resolve

LEMMA DisputesStep ==
    ASSUME IInv, DisputesMatchJobs, [Next]_vars
    PROVE  DisputesMatchJobs'
<1>1. CASE Tick \/ IdentityStep \/ BondStep \/ StakingStep \/ UNCHANGED vars
    BY <1>1, OtherChange, DisputesFrame
<1>2. CASE Create
    BY <1>2, CreateChange, UndisputedChange
<1>3. CASE FundStep
    BY <1>3, FundChange, UndisputedChange
<1>4. CASE Complete
    BY <1>4, CompleteChange, UndisputedChange
<1>5. CASE \E k \in JobIds : BeginSettle(k)
    BY <1>5, BeginSettleChange, DisputesFrame
<1>6. CASE \E k \in JobIds : FinishSettle(k)
    BY <1>6, FinishSettleChange, UndisputedChange
<1>7. CASE Dispute
    <2>1. PICK k \in JobIds :
             /\ jobs'[k].status = "DISPUTED" /\ jobs'[k].buyer = jobs[k].buyer
             /\ disputes'[k] = [challenger |-> jobs[k].buyer, verdict |-> "PENDING"]
             /\ jobs[k].buyer # NoAddress
             /\ \A j \in JobIds \ {k} : jobs'[j] = jobs[j] /\ disputes'[j] = disputes[j]
        BY <1>7, DisputeChange
    <2>2. disputes'[k].challenger = jobs[k].buyer /\ disputes'[k].verdict = "PENDING"
        BY <2>1
    <2> QED
        BY <2>1, <2>2 DEF DisputesMatchJobs, HasDispute
<1>8. CASE \E k \in JobIds, v \in Verdicts : ResolveFault(k, v)
    BY <1>8, FaultChange DEF DisputesMatchJobs, HasDispute
<1>9. CASE \E k \in JobIds : ResolveValid(k)
    BY <1>9, ValidChange DEF DisputesMatchJobs, HasDispute
<1> QED
    BY <1>1, <1>2, <1>3, <1>4, <1>5, <1>6, <1>7, <1>8, <1>9, StepCases

LEMMA DisputesInit == Init => DisputesMatchJobs
BY DEF Init, DisputeInit, JobInit, NoDispute, NoJob, DisputesMatchJobs, HasDispute

\* A job is DISPUTED or REFUNDED exactly when its dispute says so, for any number of
\* jobs and whatever is called from inside a receipt callback (DisputeManager 82-149).
THEOREM DisputesAgree == Spec => []DisputesMatchJobs
BY DisputesInit, DisputesStep, Inductive, PTL DEF Spec

\* What settle wrote down before it called the buyer still holds when the call returns
\* (JobEscrow 442-486): its last writes close the job they opened.
THEOREM WaitingIntact == Spec => []WaitingSettlementsIntact
<1>1. IInv /\ DisputesMatchJobs => WaitingSettlementsIntact
    BY DEF IInv, WaitingWellFormed, DisputesMatchJobs, WaitingSettlementsIntact
<1> QED
    BY <1>1, Inductive, DisputesAgree, PTL

-------------------------------------------------------------------------------
(* Receipts and settlements *)

\* A token that does not exist was never minted: a settled job is never refunded, so the
\* burn in resolve never finds a receipt of its own job.
NeverBurned == \A t \in TokenIds : t \notin exists => supply[t] = 0

LEMMA ReceiptsFrame ==
    ASSUME ReceiptsMatchJobs, NeverBurned, UNCHANGED <<exists, metadata, supply>>,
           \A j \in JobIds : Paid(j)' <=> Paid(j),
           \A j \in JobIds : Paid(j) => TokenIdOf(jobs'[j]) = TokenIdOf(jobs[j])
    PROVE  ReceiptsMatchJobs' /\ NeverBurned'
<1>1. NeverBurned'
    BY DEF NeverBurned
<1>2. \A j \in JobIds : Paid(j)' => /\ TokenIdOf(jobs'[j]) \in exists'
                                    /\ metadata'[TokenIdOf(jobs'[j])] = j
    BY DEF ReceiptsMatchJobs
<1>3. \A t \in exists' : supply'[t] = 1 /\ metadata'[t] \in JobIds
    BY DEF ReceiptsMatchJobs
<1>4. \A t \in exists' : Paid(metadata[t])'
    <2> TAKE t \in exists'
    <2>1. t \in exists /\ metadata'[t] = metadata[t]
        OBVIOUS
    <2> DEFINE k == metadata[t]
    <2>2. k \in JobIds /\ Paid(k)
        BY <2>1 DEF ReceiptsMatchJobs
    <2>3. k' = k
        OBVIOUS
    <2> QED
        BY <2>2, <2>3 DEF Paid, InSettle
<1> QED
    BY <1>1, <1>2, <1>3, <1>4 DEF ReceiptsMatchJobs

\* A transaction that rewrites one unpaid job, which stays unpaid.
LEMMA UnpaidChange ==
    ASSUME ReceiptsMatchJobs, NeverBurned, UNCHANGED <<callStack, exists, metadata, supply>>,
           NEW k \in JobIds, ~Paid(k), jobs'[k].status # "SETTLED",
           \A j \in JobIds \ {k} : jobs'[j] = jobs[j]
    PROVE  ReceiptsMatchJobs' /\ NeverBurned'
<1>1. \A j \in JobIds : InSettle(j)' <=> InSettle(j)
    BY DEF InSettle
<1>2. \A j \in JobIds : Paid(j)' <=> Paid(j)
    BY <1>1 DEF Paid
<1>3. \A j \in JobIds : Paid(j) => jobs'[j] = jobs[j]
    OBVIOUS
<1> QED
    BY <1>2, <1>3, ReceiptsFrame

LEMMA ReceiptsStep ==
    ASSUME IInv, ReceiptsMatchJobs, NeverBurned, [Next]_vars
    PROVE  ReceiptsMatchJobs' /\ NeverBurned'
<1>1. ASSUME NEW j \in JobIds, InSettle(j)
      PROVE  jobs[j].status = "COMPLETED" /\ now >= jobs[j].settleAfter
    BY <1>1 DEF IInv, WaitingWellFormed
<1>2. CASE Tick \/ IdentityStep \/ BondStep \/ StakingStep \/ UNCHANGED vars
    <2>1. UNCHANGED <<callStack, jobs, exists, metadata, supply>>
        BY <1>2, OtherChange
    <2>2. \A j \in JobIds : Paid(j)' <=> Paid(j)
        BY <2>1 DEF Paid, InSettle
    <2> QED
        BY <2>1, <2>2, ReceiptsFrame
<1>3. CASE Create
    <2>1. PICK k \in JobIds :
             /\ jobs[k].status = "CREATED" /\ jobs'[k].status \in {"CREATED", "FUNDED"}
             /\ \A j \in JobIds \ {k} : jobs'[j] = jobs[j]
             /\ UNCHANGED <<callStack, exists, metadata, supply>>
        BY <1>3, CreateChange
    <2>2. ~Paid(k)
        BY <1>1, <2>1 DEF Paid
    <2> QED
        BY <2>1, <2>2, UnpaidChange
<1>4. CASE FundStep
    <2>1. PICK k \in JobIds :
             /\ jobs[k].status = "CREATED" /\ jobs'[k].status = "FUNDED"
             /\ \A j \in JobIds \ {k} : jobs'[j] = jobs[j]
             /\ UNCHANGED <<callStack, exists, metadata, supply>>
        BY <1>4, FundChange
    <2>2. ~Paid(k)
        BY <1>1, <2>1 DEF Paid
    <2> QED
        BY <2>1, <2>2, UnpaidChange
<1>5. CASE Complete
    <2>1. PICK k \in JobIds :
             /\ jobs[k].status = "FUNDED" /\ jobs'[k].status = "COMPLETED"
             /\ \A j \in JobIds \ {k} : jobs'[j] = jobs[j]
             /\ UNCHANGED <<callStack, exists, metadata, supply>>
        BY <1>5, CompleteChange
    <2>2. ~Paid(k)
        BY <1>1, <2>1 DEF Paid
    <2> QED
        BY <2>1, <2>2, UnpaidChange
<1>6. CASE \E k \in JobIds : BeginSettle(k)
    <2>1. PICK k \in JobIds : BeginSettle(k)
        BY <1>6
    <2> DEFINE t == TokenIdOf(jobs[k])
    <2>2. /\ Mint(t, k) /\ t \in TokenIds /\ ~Paid(k)
          /\ callStack' = Append(callStack, k) /\ jobs' = jobs
        BY <2>1, BeginSettleChange DEF Paid
    <2>3. /\ t \notin exists /\ exists' = exists \cup {t}
          /\ metadata' = [metadata EXCEPT ![t] = k]
          /\ supply' = [supply EXCEPT ![t] = supply[t] + 1]
        BY <2>2 DEF Mint
    <2>4. supply[t] = 0
        BY <2>2, <2>3 DEF NeverBurned
    <2>5. /\ exists \in SUBSET TokenIds /\ callStack \in Seq(JobIds)
          /\ metadata \in [TokenIds -> JobIds \cup {0}] /\ supply \in [TokenIds -> Nat]
        BY DEF IInv, TypeOK
    <2>6. \A j \in JobIds : InSettle(j)' <=> InSettle(j) \/ j = k
        BY <2>2, <2>5 DEF InSettle
    <2>7. \A j \in JobIds : Paid(j)' <=> Paid(j) \/ j = k
        BY <2>2, <2>6 DEF Paid
    <2> HIDE DEF t
    <2>8. NeverBurned'
        BY <2>2, <2>3, <2>5 DEF NeverBurned
    <2>9. \A j \in JobIds : Paid(j)' => /\ TokenIdOf(jobs'[j]) \in exists'
                                        /\ metadata'[TokenIdOf(jobs'[j])] = j
        <3> TAKE j \in JobIds
        <3>1. CASE j = k
            BY <2>2, <2>3, <2>5, <3>1 DEF t
        <3>2. CASE Paid(j)
            <4>1. TokenIdOf(jobs[j]) \in exists /\ metadata[TokenIdOf(jobs[j])] = j
                BY <3>2 DEF ReceiptsMatchJobs
            <4>2. metadata'[TokenIdOf(jobs[j])] = j
                BY <2>3, <2>5, <4>1
            <4>3. TokenIdOf(jobs[j]) \in exists'
                BY <2>3, <4>1
            <4> QED
                BY <2>2, <4>2, <4>3
        <3> QED
            BY <2>7, <3>1, <3>2
    <2>10. ASSUME NEW u \in exists'
           PROVE  supply'[u] = 1 /\ metadata'[u] \in JobIds /\ Paid(metadata[u])'
        <3>1. CASE u = t
            <4>1. supply'[u] = 1 /\ metadata'[u] = k
                BY <2>2, <2>3, <2>4, <2>5, <3>1
            <4>2. Paid(k)'
                BY <2>7
            <4> QED
                BY <4>1, <4>2 DEF Paid, InSettle
        <3>2. CASE u # t
            <4>1. u \in exists /\ supply'[u] = supply[u] /\ metadata'[u] = metadata[u]
                BY <2>3, <2>5, <3>2
            <4>2. supply[u] = 1 /\ metadata[u] \in JobIds /\ Paid(metadata[u])
                BY <4>1 DEF ReceiptsMatchJobs
            <4>3. PICK j \in JobIds : j = metadata[u]
                BY <4>2
            <4>4. Paid(j)'
                BY <2>7, <4>2, <4>3
            <4> QED
                BY <4>1, <4>2, <4>3, <4>4 DEF Paid, InSettle
        <3> QED
            BY <3>1, <3>2
    <2> QED
        BY <2>8, <2>9, <2>10 DEF ReceiptsMatchJobs
<1>7. CASE \E k \in JobIds : FinishSettle(k)
    <2>1. PICK k \in JobIds :
           /\ InSettle(k) /\ jobs'[k].status = "SETTLED"
           /\ TokenIdOf(jobs'[k]) = TokenIdOf(jobs[k])
           /\ \A j \in JobIds : InSettle(j)' <=> InSettle(j) /\ j # k
           /\ \A j \in JobIds \ {k} : jobs'[j] = jobs[j]
           /\ UNCHANGED <<exists, metadata, supply>>
        BY <1>7, FinishSettleChange
    <2>2. \A j \in JobIds : Paid(j)' <=> Paid(j)
        BY <2>1 DEF Paid
    <2>3. \A j \in JobIds : TokenIdOf(jobs'[j]) = TokenIdOf(jobs[j])
        BY <2>1
    <2> QED
        BY <2>1, <2>2, <2>3, ReceiptsFrame
<1>8. CASE Dispute
    <2>1. PICK k \in JobIds :
             /\ jobs[k].status = "COMPLETED" /\ now < jobs[k].settleAfter
             /\ jobs'[k].status = "DISPUTED"
             /\ \A j \in JobIds \ {k} : jobs'[j] = jobs[j]
             /\ UNCHANGED <<callStack, exists, metadata, supply>>
        BY <1>8, DisputeChange
    <2>2. now \in Nat /\ jobs[k].settleAfter \in Nat
        BY DEF IInv, TypeOK, JobType
    <2>3. ~Paid(k)
        BY <1>1, <2>1, <2>2 DEF Paid
    <2> QED
        BY <2>1, <2>3, UnpaidChange
<1>9. CASE \E k \in JobIds, v \in Verdicts : ResolveFault(k, v)
    <2>1. PICK k \in JobIds :
             /\ jobs[k].status = "DISPUTED" /\ jobs'[k].status = "REFUNDED"
             /\ \A j \in JobIds \ {k} : jobs'[j] = jobs[j]
             /\ UNCHANGED <<callStack, exists, metadata, supply>>
        BY <1>9, FaultChange
    <2>2. ~Paid(k)
        BY <1>1, <2>1 DEF Paid
    <2> QED
        BY <2>1, <2>2, UnpaidChange
<1>10. CASE \E k \in JobIds : ResolveValid(k)
    <2>1. UNCHANGED <<callStack, jobs, exists, metadata, supply>>
        BY <1>10, ValidChange
    <2>2. \A j \in JobIds : Paid(j)' <=> Paid(j)
        BY <2>1 DEF Paid, InSettle
    <2> QED
        BY <2>1, <2>2, ReceiptsFrame
<1> QED
    BY <1>2, <1>3, <1>4, <1>5, <1>6, <1>7, <1>8, <1>9, <1>10, StepCases

LEMMA ReceiptsInit == Init => ReceiptsMatchJobs /\ NeverBurned
BY DEF Init, ChainInit, ReceiptInit, JobInit, NoJob, ReceiptsMatchJobs, NeverBurned, Paid, InSettle

\* Every paid job has its own receipt, minted once and carrying its id, and no receipt
\* exists without a paid job (JobEscrow.settle, Receipt1155.mint): the token id leaves
\* the job id out, yet no two jobs ever share one.
THEOREM ReceiptsCorrect == Spec => []ReceiptsMatchJobs
<1>1. Init => ReceiptsMatchJobs /\ NeverBurned
    BY ReceiptsInit
<1>2. IInv /\ (ReceiptsMatchJobs /\ NeverBurned) /\ [Next]_vars
        => (ReceiptsMatchJobs /\ NeverBurned)'
    BY ReceiptsStep
<1> QED
    BY <1>1, <1>2, Inductive, PTL DEF Spec

================================================================================
