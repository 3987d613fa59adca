-------------------------- MODULE SettlementMoneyProofs --------------------------
(***************************************************************************)
(* The accounts of Settlement: for every number of users, robots and jobs  *)
(* the balances of the escrow, the bond manager and the treasury are what  *)
(* their records say, and so is every locked bond; the ledger's counts are *)
(* the robots' histories; quotes agree with the contracts; and the         *)
(* composition implements the abstract escrow.                             *)
(*                                                                         *)
(* The records are sums over all jobs, robots or users (SumTheorems).      *)
(* Each transaction moves one job, one bond or one stake, and moves the    *)
(* money by as much.                                                       *)
(***************************************************************************)
EXTENDS SettlementProofs, Quotes, SumTheorems

-------------------------------------------------------------------------------
(* What one job, and no job, does to the sums *)

LEMMA JobIdsFinite == IsFiniteSet(JobIds)
BY FS_Interval, MaxJobsAssumption DEF JobIds

LEMMA FeeType == \A p \in Nat : Fee(p) \in Nat
BY PayoutType

LEMMA DueTypes ==
    ASSUME TypeOK
    PROVE  /\ EscrowOwes \in [JobIds -> Nat]
           /\ FeesEarned \in [JobIds -> Nat]
           /\ \A r \in Robots : BondBehind(r) \in [JobIds -> Nat]
<1>1. \A j \in JobIds : jobs[j].price \in Nat
    BY DEF TypeOK, JobType
<1>2. \A j \in JobIds : Fee(jobs[j].price) \in Nat /\ MinBond(jobs[j].price) \in Nat
    BY <1>1, FeeType, MinBondType
<1> QED
    BY <1>1, <1>2 DEF EscrowOwes, FeesEarned, BondBehind

LEMMA OneJobMoves ==
    ASSUME TypeOK, TypeOK', NEW k \in JobIds,
           \A j \in JobIds \ {k} : jobs'[j] = jobs[j] /\ (InSettle(j)' <=> InSettle(j))
    PROVE  /\ SumFunction(EscrowOwes') = SumFunction(EscrowOwes) - EscrowOwes[k] + EscrowOwes'[k]
           /\ SumFunction(FeesEarned') = SumFunction(FeesEarned) - FeesEarned[k] + FeesEarned'[k]
           /\ \A r \in Robots : SumFunction(BondBehind(r)') =
                    SumFunction(BondBehind(r)) - BondBehind(r)[k] + BondBehind(r)'[k]
<1>1. \A j \in JobIds \ {k} : /\ EscrowOwes'[j] = EscrowOwes[j]
                              /\ FeesEarned'[j] = FeesEarned[j]
                              /\ \A r \in Robots : BondBehind(r)'[j] = BondBehind(r)[j]
    BY DEF EscrowOwes, FeesEarned, BondBehind, Owed, Paid, BondHeld
<1>2. /\ EscrowOwes' \in [JobIds -> Nat]
      /\ FeesEarned' \in [JobIds -> Nat]
      /\ \A r \in Robots : BondBehind(r)' \in [JobIds -> Nat]
    <2>1. \A j \in JobIds : jobs'[j].price \in Nat
        BY DEF TypeOK, JobType
    <2>2. \A j \in JobIds : Fee(jobs'[j].price) \in Nat /\ MinBond(jobs'[j].price) \in Nat
        BY <2>1, FeeType, MinBondType
    <2> QED
        BY <2>1, <2>2 DEF EscrowOwes, FeesEarned, BondBehind
<1>3. SumFunction(EscrowOwes') = SumFunction(EscrowOwes) - EscrowOwes[k] + EscrowOwes'[k]
    BY <1>1, <1>2, DueTypes, JobIdsFinite, SumFollows
<1>4. SumFunction(FeesEarned') = SumFunction(FeesEarned) - FeesEarned[k] + FeesEarned'[k]
    BY <1>1, <1>2, DueTypes, JobIdsFinite, SumFollows
<1>5. \A r \in Robots : SumFunction(BondBehind(r)') =
            SumFunction(BondBehind(r)) - BondBehind(r)[k] + BondBehind(r)'[k]
    BY <1>1, <1>2, DueTypes, JobIdsFinite, SumFollows
<1> QED
    BY <1>3, <1>4, <1>5

\* An ERC-20 transfer between two accounts.
LEMMA TransferMoves ==
    ASSUME NEW b \in [Accounts -> Nat], NEW f \in Accounts, NEW t \in Accounts, f # t,
           NEW a \in Nat
    PROVE  /\ Moved(b, f, t, a)[f] = b[f] - a
           /\ Moved(b, f, t, a)[t] = b[t] + a
           /\ \A c \in Accounts \ {f, t} : Moved(b, f, t, a)[c] = b[c]
BY DEF Moved

LEMMA AccountsApart ==
    /\ Users \subseteq Accounts
    /\ {Treasury, Escrow, BondPool, Gate} \subseteq Accounts
    /\ Users \cap {Treasury, Escrow, BondPool, Gate} = {}
    /\ Escrow # Treasury /\ Escrow # BondPool /\ BondPool # Treasury
    /\ Gate # Escrow /\ Gate # BondPool
    /\ NoHash \notin Robots
BY AddressesAssumption, RobotsAssumption DEF Accounts, Escrow, BondPool, Gate

-------------------------------------------------------------------------------
(* The money in every contract, after every transaction *)

MoneyInv == MoneyAccounted /\ BondAccounted

LEMMA MoneyFrame ==
    ASSUME MoneyInv, UNCHANGED <<balance, bonded, locked, jobs, callStack>>
    PROVE  MoneyInv'
<1>1. UNCHANGED <<EscrowOwes, FeesEarned>> /\ \A r \in Robots : BondBehind(r)' = BondBehind(r)
    BY DEF EscrowOwes, FeesEarned, BondBehind, Owed, Paid, BondHeld, InSettle
<1> QED
    BY <1>1 DEF MoneyInv, MoneyAccounted, BondAccounted

LEMMA NoMoneyYet ==
    ASSUME ChainInit, BondInit, JobInit,
           balance[Escrow] = 0, balance[BondPool] = 0, balance[Treasury] = 0
    PROVE  MoneyInv
<1> USE DEF ChainInit, BondInit, JobInit
<1>1. \A j \in JobIds : jobs[j] = NoJob /\ ~InSettle(j) /\ jobs[j].status = "CREATED"
    BY DEF InSettle, NoJob
<1>2. EscrowOwes \in [JobIds -> {0}] /\ FeesEarned \in [JobIds -> {0}]
    BY <1>1 DEF EscrowOwes, FeesEarned, Owed, Paid
<1>3. \A r \in Robots : BondBehind(r) \in [JobIds -> {0}]
    BY <1>1, AccountsApart DEF BondBehind, NoJob
<1>4. bonded \in [Robots -> {0}]
    OBVIOUS
<1>5. /\ SumFunction(EscrowOwes) = 0 /\ SumFunction(FeesEarned) = 0
      /\ SumFunction(bonded) = 0 /\ \A r \in Robots : SumFunction(BondBehind(r)) = 0
    BY <1>2, <1>3, <1>4, JobIdsFinite, FiniteAssumption, SumOfZeros
<1> QED
    BY <1>5 DEF MoneyInv, MoneyAccounted, BondAccounted

LEMMA MoneyInit == Init => MoneyInv
BY NoMoneyYet, AccountsApart DEF Init, StableTokenInit

\* A deposit or a withdrawal: one bond and the bond manager's balance move together.
LEMMA BondMoney ==
    ASSUME IInv, IInv', MoneyInv, BondStep
    PROVE  MoneyInv'
<1>1. PICK u \in Users, r \in Robots, a \in BondAmounts :
            Deposit(u, r, a) \/ Withdraw(u, r, a)
    BY DEF BondStep
<1>2. /\ a \in Nat /\ balance \in [Accounts -> Nat]
      /\ bonded \in [Robots -> Nat] /\ bonded' \in [Robots -> Nat]
      /\ u \in Accounts /\ BondPool \in Accounts /\ u # BondPool
      /\ Escrow \in Accounts \ {u, BondPool} /\ Treasury \in Accounts \ {u, BondPool}
      /\ bonded[r] \in Nat /\ balance[u] \in Nat /\ balance[BondPool] \in Nat
    BY AmountsAssumption, AccountsApart DEF IInv, TypeOK
<1>3. /\ UNCHANGED <<locked, jobs, callStack>>
      /\ \A q \in Robots \ {r} : bonded'[q] = bonded[q]
    BY <1>1, <1>2 DEF BondStep, Deposit, Withdraw, jobVars, chainVars
<1>4. balance'[BondPool] - balance[BondPool] = bonded'[r] - bonded[r]
    <2>1. CASE Deposit(u, r, a)
        <3>1. balance'[BondPool] = balance[BondPool] + a
            BY <1>2, <2>1, TransferMoves DEF Deposit
        <3>2. bonded'[r] = bonded[r] + a
            BY <1>2, <2>1 DEF Deposit
        <3> QED
            BY <1>2, <3>1, <3>2
    <2>2. CASE Withdraw(u, r, a)
        <3>1. balance'[BondPool] = balance[BondPool] - a
            BY <1>2, <2>2, TransferMoves DEF Withdraw
        <3>2. bonded'[r] = bonded[r] - a
            BY <1>2, <2>2 DEF Withdraw
        <3> QED
            BY <1>2, <3>1, <3>2
    <2> QED
        BY <1>1, <2>1, <2>2
<1>5. balance'[Escrow] = balance[Escrow] /\ balance'[Treasury] = balance[Treasury]
    <2>1. balance' = Moved(balance, u, BondPool, a) \/ balance' = Moved(balance, BondPool, u, a)
        BY <1>1 DEF Deposit, Withdraw
    <2> QED
        BY <1>2, <2>1, TransferMoves
<1>6. SumFunction(bonded') = SumFunction(bonded) - bonded[r] + bonded'[r]
    BY <1>2, <1>3, FiniteAssumption, SumFollows
<1>7. UNCHANGED <<EscrowOwes, FeesEarned>> /\ \A q \in Robots : BondBehind(q)' = BondBehind(q)
    BY <1>3 DEF EscrowOwes, FeesEarned, BondBehind, Owed, Paid, BondHeld, InSettle
<1>8. BondAccounted'
    BY <1>3, <1>7 DEF MoneyInv, BondAccounted
<1>9. balance'[BondPool] \in Nat /\ balance[BondPool] \in Nat
    BY AccountsApart DEF IInv, TypeOK
<1>10. balance'[BondPool] = SumFunction(bonded')
    BY <1>2, <1>4, <1>6, <1>9 DEF MoneyInv, MoneyAccounted
<1> QED
    BY <1>5, <1>7, <1>8, <1>10 DEF MoneyInv, MoneyAccounted

\* A new job, whichever contract opens it, once the escrow got what it is owed.
LEMMA OpenJobMoney ==
    ASSUME IInv, IInv', MoneyInv, NEW u \in Users, NEW s, NEW r \in Robots,
           NEW p \in Nat, NEW d, NEW st \in {"CREATED", "FUNDED"}, OpenJob(u, s, r, p, d, st),
           balance'[Escrow] = balance[Escrow] + (IF st = "FUNDED" THEN p ELSE 0),
           balance'[BondPool] = balance[BondPool], balance'[Treasury] = balance[Treasury]
    PROVE  MoneyInv'
<1>0. jobCount + 1 \in JobIds /\ jobCount \in Nat
    BY MaxJobsAssumption DEF OpenJob, IInv, TypeOK, JobIds
<1>1. PICK k \in JobIds : k = jobCount + 1
    BY <1>0
<1>1a. jobs \in [JobIds -> JobType] /\ locked \in [Robots -> Nat]
    BY DEF IInv, TypeOK
<1>2. jobs[k] = NoJob /\ ~InSettle(k) /\ ~InSettle(k)'
    <2>1. jobs[k] = NoJob
        BY <1>0, <1>1 DEF IInv, JobsWellFormed
    <2>2. NoJob.status = "CREATED"
        BY DEF NoJob
    <2>3. ~InSettle(k)
        BY <1>1, <2>1, <2>2 DEF IInv, WaitingWellFormed
    <2> QED
        BY <2>1, <2>3 DEF OpenJob, chainVars, InSettle
<1>3. jobs'[k].status = st /\ jobs'[k].price = p /\ jobs'[k].robotId = r
    BY <1>1, <1>1a, NoJobType DEF OpenJob, JobType
<1>4. /\ \A j \in JobIds \ {k} : jobs'[j] = jobs[j] /\ (InSettle(j)' <=> InSettle(j))
      /\ locked' = [locked EXCEPT ![r] = @ + MinBond(p)]
      /\ bonded' = bonded
    BY <1>1, <1>1a DEF OpenJob, Lock, chainVars, InSettle
<1>5. /\ EscrowOwes[k] = 0 /\ EscrowOwes'[k] = IF st = "FUNDED" THEN p ELSE 0
      /\ FeesEarned[k] = 0 /\ FeesEarned'[k] = 0
    BY <1>1, <1>2, <1>3 DEF NoJob, EscrowOwes, FeesEarned, Owed, Paid
<1>6. /\ MinBond(p) \in Nat
      /\ \A q \in Robots : /\ BondBehind(q)[k] = 0
                           /\ BondBehind(q)'[k] = IF q = r THEN MinBond(p) ELSE 0
    BY <1>1, <1>2, <1>3, MinBondType, AccountsApart DEF NoJob, BondBehind, BondHeld
<1>7. /\ SumFunction(EscrowOwes') = SumFunction(EscrowOwes) - EscrowOwes[k] + EscrowOwes'[k]
      /\ SumFunction(FeesEarned') = SumFunction(FeesEarned) - FeesEarned[k] + FeesEarned'[k]
      /\ \A q \in Robots : SumFunction(BondBehind(q)') =
                SumFunction(BondBehind(q)) - BondBehind(q)[k] + BondBehind(q)'[k]
    BY <1>1, <1>4, OneJobMoves DEF IInv
<1>8. balance[Escrow] \in Nat /\ balance[Treasury] \in Nat
    BY AccountsApart DEF IInv, TypeOK
<1>9. MoneyAccounted'
    BY <1>4, <1>5, <1>7, <1>8 DEF MoneyInv, MoneyAccounted
<1>10. BondAccounted'
    BY <1>1a, <1>4, <1>6, <1>7 DEF MoneyInv, BondAccounted
<1> QED
    BY <1>9, <1>10 DEF MoneyInv

LEMMA CreateMoney ==
    ASSUME IInv, IInv', MoneyInv, Create
    PROVE  MoneyInv'
<1>1. PICK u \in Buyers, s \in JobSpecs, r \in Robots, p \in Prices, d \in Deadlines :
        \/ CreateJob(u, s, r, p, d)
        \/ \E caller \in Users : CreateAndFundJobFor(caller, u, s, r, p, d)
    BY DEF Create
<1>2. /\ u \in Users /\ p \in Nat /\ balance \in [Accounts -> Nat]
      /\ balance[Escrow] \in Nat
    BY JobAssumption, AmountsAssumption, AccountsApart DEF IInv, TypeOK
<1>3. CASE CreateJob(u, s, r, p, d)
    <2>1. OpenJob(u, s, r, p, d, "CREATED") /\ balance' = balance
        BY <1>3 DEF CreateJob
    <2>2. balance'[Escrow] = balance[Escrow] + (IF "CREATED" = "FUNDED" THEN p ELSE 0)
        BY <1>2, <2>1, AccountsApart
    <2> QED
        BY <1>2, <2>1, <2>2, OpenJobMoney
<1>4. CASE \E caller \in Users : CreateAndFundJobFor(caller, u, s, r, p, d)
    <2>1. PICK caller \in Users : /\ OpenJob(u, s, r, p, d, "FUNDED")
                                  /\ balance' = Moved(balance, caller, Escrow, p)
        BY <1>4 DEF CreateAndFundJobFor
    <2>2. /\ balance'[Escrow] = balance[Escrow] + p
          /\ balance'[BondPool] = balance[BondPool]
          /\ balance'[Treasury] = balance[Treasury]
        <3>1. /\ caller \in Accounts /\ Escrow \in Accounts /\ caller # Escrow
              /\ BondPool \in Accounts \ {caller, Escrow}
              /\ Treasury \in Accounts \ {caller, Escrow}
            BY AccountsApart
        <3> QED
            BY <1>2, <2>1, <3>1, TransferMoves
    <2> QED
        BY <1>2, <2>1, <2>2, OpenJobMoney
<1> QED
    BY <1>1, <1>3, <1>4

\* A transaction that moves one job of one robot, and every account by what that changes.
LEMMA MoneyFollows ==
    ASSUME IInv, IInv', MoneyInv, NEW k \in JobIds, NEW r \in Robots,
           jobs[k].robotId = r, jobs'[k].robotId = r,
           \A j \in JobIds \ {k} : jobs'[j] = jobs[j] /\ (InSettle(j)' <=> InSettle(j)),
           \A q \in Robots \ {r} : bonded'[q] = bonded[q] /\ locked'[q] = locked[q],
           balance'[Escrow] = balance[Escrow] - EscrowOwes[k] + EscrowOwes'[k],
           balance'[Treasury] = balance[Treasury] - FeesEarned[k] + FeesEarned'[k],
           balance'[BondPool] = balance[BondPool] - bonded[r] + bonded'[r],
           locked'[r] = locked[r] - BondBehind(r)[k] + BondBehind(r)'[k]
    PROVE  MoneyInv'
<1>1. /\ SumFunction(EscrowOwes') = SumFunction(EscrowOwes) - EscrowOwes[k] + EscrowOwes'[k]
      /\ SumFunction(FeesEarned') = SumFunction(FeesEarned) - FeesEarned[k] + FeesEarned'[k]
      /\ \A q \in Robots : SumFunction(BondBehind(q)') =
                SumFunction(BondBehind(q)) - BondBehind(q)[k] + BondBehind(q)'[k]
    BY OneJobMoves DEF IInv
<1>2. SumFunction(bonded') = SumFunction(bonded) - bonded[r] + bonded'[r]
    <2>1. bonded \in [Robots -> Nat] /\ bonded' \in [Robots -> Nat]
        BY DEF IInv, TypeOK
    <2> QED
        BY <2>1, FiniteAssumption, SumFollows
<1>3. \A q \in Robots \ {r} : BondBehind(q)[k] = 0 /\ BondBehind(q)'[k] = 0
    BY DEF BondBehind
<1>4. \A q \in Robots : locked[q] \in Nat /\ locked'[q] \in Nat
    BY DEF IInv, TypeOK
<1>5. MoneyAccounted'
    BY <1>1, <1>2 DEF MoneyInv, MoneyAccounted
<1>6. BondAccounted'
    <2>1. SumFunction(BondBehind(r)') = locked'[r]
        BY <1>1 DEF MoneyInv, BondAccounted
    <2>2. \A q \in Robots \ {r} : SumFunction(BondBehind(q)') = locked'[q]
        BY <1>1, <1>3, <1>4 DEF MoneyInv, BondAccounted
    <2> QED
        BY <2>1, <2>2 DEF BondAccounted
<1> QED
    BY <1>5, <1>6 DEF MoneyInv

\* What one job's record says of the money.
LEMMA DuesOf ==
    ASSUME TypeOK, NEW k \in JobIds, NEW r \in Robots, jobs[k].robotId = r
    PROVE  /\ EscrowOwes[k] = IF Owed(k) THEN jobs[k].price ELSE 0
           /\ FeesEarned[k] = IF Paid(k) THEN Fee(jobs[k].price) ELSE 0
           /\ BondBehind(r)[k] = IF BondHeld(k) THEN MinBond(jobs[k].price) ELSE 0
           /\ jobs[k].price \in Nat /\ Fee(jobs[k].price) \in Nat
           /\ MinBond(jobs[k].price) \in Nat
           /\ balance[Escrow] \in Nat /\ balance[Treasury] \in Nat
           /\ balance[BondPool] \in Nat
           /\ bonded[r] \in Nat /\ locked[r] \in Nat
BY FeeType, MinBondType, AccountsApart
DEF EscrowOwes, FeesEarned, BondBehind, TypeOK, JobType

LEMMA FundMoney ==
    ASSUME IInv, IInv', MoneyInv, FundStep
    PROVE  MoneyInv'
<1>1. PICK u \in Users, k \in JobIds : Fund(u, k)
    BY DEF FundStep
<1>2. jobs \in [JobIds -> JobType] /\ jobs[k] \in JobType /\ jobs[k].robotId \in Robots
    BY <1>1 DEF Fund, Exists, IInv, TypeOK, JobsWellFormed
<1>3. PICK r \in Robots : r = jobs[k].robotId
    BY <1>2
<1>4. PICK p \in Nat : p = jobs[k].price
    BY <1>2 DEF JobType
<1>5. /\ jobs[k].status = "CREATED" /\ jobs'[k].status = "FUNDED"
      /\ jobs'[k].price = p /\ jobs'[k].robotId = r
      /\ \A j \in JobIds \ {k} : jobs'[j] = jobs[j]
      /\ \A j \in JobIds : InSettle(j)' <=> InSettle(j)
      /\ UNCHANGED <<bonded, locked>>
    BY <1>1, <1>2, <1>3, <1>4 DEF Fund, JobType, InSettle, chainVars, bondVars
<1>6. ~InSettle(k) /\ ~InSettle(k)'
    BY <1>5 DEF IInv, WaitingWellFormed
<1>7. /\ EscrowOwes[k] = 0 /\ EscrowOwes'[k] = p
      /\ FeesEarned[k] = 0 /\ FeesEarned'[k] = 0
      /\ BondBehind(r)[k] = MinBond(p) /\ BondBehind(r)'[k] = MinBond(p)
    BY <1>3, <1>4, <1>5, <1>6 DEF EscrowOwes, FeesEarned, BondBehind, Owed, Paid, BondHeld
<1>8. /\ balance'[Escrow] = balance[Escrow] + p
      /\ balance'[BondPool] = balance[BondPool]
      /\ balance'[Treasury] = balance[Treasury]
    <2>1. /\ u \in Accounts /\ Escrow \in Accounts /\ u # Escrow
          /\ BondPool \in Accounts \ {u, Escrow}
          /\ Treasury \in Accounts \ {u, Escrow}
          /\ balance \in [Accounts -> Nat]
        BY AccountsApart DEF IInv, TypeOK
    <2>2. balance' = Moved(balance, u, Escrow, p)
        BY <1>1, <1>4 DEF Fund
    <2> QED
        BY <2>1, <2>2, TransferMoves
<1>9. /\ balance[Escrow] \in Nat /\ balance[Treasury] \in Nat /\ balance[BondPool] \in Nat
      /\ bonded[r] \in Nat /\ locked[r] \in Nat /\ MinBond(p) \in Nat
    BY <1>3, <1>4, DuesOf DEF IInv
<1> QED
    BY <1>3, <1>5, <1>7, <1>8, <1>9, MoneyFollows

LEMMA CompleteMoney ==
    ASSUME IInv, IInv', MoneyInv, Complete
    PROVE  MoneyInv'
<1>1. PICK u \in Users, k \in JobIds, c \in Completions :
        \/ SubmitCompletion(u, k, c)
        \/ \E m \in Metrics : SubmitCompletionV2(u, k, c, m[1], m[2])
    BY DEF Complete
<1>2. \E claim, q, w : AcceptClaim(u, k, claim, c, q, w)
    BY <1>1, Zenon DEF SubmitCompletion, SubmitCompletionV2
<1>3. jobs \in [JobIds -> JobType] /\ jobs[k] \in JobType /\ jobs[k].robotId \in Robots
    BY <1>2 DEF AcceptClaim, Exists, IInv, TypeOK, JobsWellFormed
<1>4. PICK r \in Robots : r = jobs[k].robotId
    BY <1>3
<1>5. PICK p \in Nat : p = jobs[k].price
    BY <1>3 DEF JobType
<1>6. /\ jobs[k].status = "FUNDED" /\ jobs'[k].status = "COMPLETED"
      /\ jobs'[k].price = p /\ jobs'[k].robotId = r
      /\ \A j \in JobIds \ {k} : jobs'[j] = jobs[j]
      /\ \A j \in JobIds : InSettle(j)' <=> InSettle(j)
      /\ UNCHANGED <<balance, bonded, locked>>
    BY <1>2, <1>3, <1>4, <1>5 DEF AcceptClaim, JobType, InSettle, chainVars, bondVars
<1>7. ~InSettle(k) /\ ~InSettle(k)'
    BY <1>6 DEF IInv, WaitingWellFormed
<1>8. /\ EscrowOwes[k] = p /\ EscrowOwes'[k] = p
      /\ FeesEarned[k] = 0 /\ FeesEarned'[k] = 0
      /\ BondBehind(r)[k] = MinBond(p) /\ BondBehind(r)'[k] = MinBond(p)
    BY <1>4, <1>5, <1>6, <1>7 DEF EscrowOwes, FeesEarned, BondBehind, Owed, Paid, BondHeld
<1>9. /\ balance[Escrow] \in Nat /\ balance[Treasury] \in Nat /\ balance[BondPool] \in Nat
      /\ bonded[r] \in Nat /\ locked[r] \in Nat /\ MinBond(p) \in Nat
    BY <1>4, <1>5, DuesOf DEF IInv
<1> QED
    BY <1>4, <1>6, <1>8, <1>9, MoneyFollows

LEMMA DisputeMoney ==
    ASSUME IInv, IInv', MoneyInv, Dispute
    PROVE  MoneyInv'
<1>1. PICK u \in Users, k \in JobIds : OpenDispute(u, k)
    BY DEF Dispute
<1>2. jobs \in [JobIds -> JobType] /\ jobs[k] \in JobType /\ jobs[k].robotId \in Robots
    BY <1>1 DEF OpenDispute, Exists, IInv, TypeOK, JobsWellFormed
<1>3. PICK r \in Robots : r = jobs[k].robotId
    BY <1>2
<1>4. PICK p \in Nat : p = jobs[k].price
    BY <1>2 DEF JobType
<1>5. /\ jobs[k].status = "COMPLETED" /\ jobs'[k].status = "DISPUTED"
      /\ jobs'[k].price = p /\ jobs'[k].robotId = r
      /\ \A j \in JobIds \ {k} : jobs'[j] = jobs[j]
      /\ \A j \in JobIds : InSettle(j)' <=> InSettle(j)
      /\ UNCHANGED <<balance, bonded, locked>>
    BY <1>1, <1>2, <1>3, <1>4 DEF OpenDispute, JobType, InSettle, chainVars, bondVars
<1>6. ~InSettle(k) /\ ~InSettle(k)'
    BY <1>5 DEF IInv, WaitingWellFormed
<1>7. /\ EscrowOwes[k] = p /\ EscrowOwes'[k] = p
      /\ FeesEarned[k] = 0 /\ FeesEarned'[k] = 0
      /\ BondBehind(r)[k] = MinBond(p) /\ BondBehind(r)'[k] = MinBond(p)
    BY <1>3, <1>4, <1>5, <1>6 DEF EscrowOwes, FeesEarned, BondBehind, Owed, Paid, BondHeld
<1>8. /\ balance[Escrow] \in Nat /\ balance[Treasury] \in Nat /\ balance[BondPool] \in Nat
      /\ bonded[r] \in Nat /\ locked[r] \in Nat /\ MinBond(p) \in Nat
    BY <1>3, <1>4, DuesOf DEF IInv
<1> QED
    BY <1>3, <1>5, <1>7, <1>8, MoneyFollows

\* Who waits after a settle has begun.
LEMMA PushedWaits ==
    ASSUME callStack \in Seq(JobIds), NEW k \in JobIds, callStack' = Append(callStack, k)
    PROVE  /\ \A j \in JobIds \ {k} : InSettle(j)' <=> InSettle(j)
           /\ InSettle(k)'
<1>1. PICK n \in Nat : n = Len(callStack)
    OBVIOUS
<1>2. /\ Len(callStack') = n + 1 /\ callStack'[n + 1] = k
      /\ \A i \in 1..n : callStack'[i] = callStack[i]
    BY <1>1
<1>3. n + 1 \in 1..(n + 1) /\ \A i \in 1..(n + 1) : i \in 1..n \/ i = n + 1
    OBVIOUS
<1>4. 1..n \subseteq 1..(n + 1)
    OBVIOUS
<1> QED
    BY <1>1, <1>2, <1>3, <1>4 DEF InSettle

\* The first half of settle: the price leaves the escrow, the fee of it to the treasury.
LEMMA BeginSettleMoney ==
    ASSUME IInv, IInv', MoneyInv, NEW k \in JobIds, BeginSettle(k)
    PROVE  MoneyInv'
<1>1. /\ jobs[k].status = "COMPLETED" /\ ~InSettle(k)
      /\ callStack' = Append(callStack, k) /\ jobs' = jobs
    BY BeginSettleChange
<1>2. /\ jobs[k] \in JobType /\ jobs[k].robotId \in Robots
      /\ controller[jobs[k].robotId] \in Users
    BY <1>1, CompletedJob
<1>3. PICK r \in Robots : r = jobs[k].robotId
    BY <1>2
<1>4. PICK p \in Nat : p = jobs[k].price
    BY <1>2 DEF JobType
<1>5. PICK fee \in Nat, rest \in Nat : fee = Fee(p) /\ rest = Payout(p) /\ fee + rest = p
    BY PayoutType
<1>6. /\ \A j \in JobIds \ {k} : InSettle(j)' <=> InSettle(j)
      /\ InSettle(k)'
    BY <1>1, PushedWaits DEF IInv, TypeOK
<1>7. /\ EscrowOwes[k] = p /\ EscrowOwes'[k] = 0
      /\ FeesEarned[k] = 0 /\ FeesEarned'[k] = fee
      /\ BondBehind(r)[k] = MinBond(p) /\ BondBehind(r)'[k] = MinBond(p)
    BY <1>1, <1>3, <1>4, <1>5, <1>6
    DEF EscrowOwes, FeesEarned, BondBehind, Owed, Paid, BondHeld
<1>8. /\ balance'[Escrow] = balance[Escrow] - fee - rest
      /\ balance'[BondPool] = balance[BondPool]
      /\ balance'[Treasury] = balance[Treasury] + fee
    <2>1. PICK payee \in Users : payee = controller[jobs[k].robotId]
        BY <1>2
    <2>2. /\ payee \in Accounts /\ payee # Escrow /\ Escrow \in Accounts
          /\ BondPool \in Accounts \ {Escrow, Treasury}
          /\ BondPool \in Accounts \ {Escrow, payee}
          /\ Treasury \in Accounts \ {Escrow, payee} /\ Escrow # Treasury
          /\ balance \in [Accounts -> Nat] /\ balance[Escrow] \in Nat
        BY AccountsApart DEF IInv, TypeOK
    <2> DEFINE b == Moved(balance, Escrow, Treasury, fee)
    <2>3. balance' = Moved(b, Escrow, payee, rest) /\ p <= balance[Escrow]
        BY <1>4, <1>5, <2>1 DEF BeginSettle, SettleBegin, SettleGuard
    <2>4. b \in [Accounts -> Nat]
        BY <1>5, <2>2, <2>3, MovedType
    <2>5. /\ b[Escrow] = balance[Escrow] - fee
          /\ b[Treasury] = balance[Treasury] + fee
          /\ b[BondPool] = balance[BondPool]
        BY <2>2, TransferMoves
    <2> HIDE DEF b
    <2>6. /\ balance'[Escrow] = b[Escrow] - rest
          /\ balance'[Treasury] = b[Treasury]
          /\ balance'[BondPool] = b[BondPool]
        <3>1. /\ Moved(b, Escrow, payee, rest)[Escrow] = b[Escrow] - rest
              /\ \A c \in Accounts \ {Escrow, payee} : Moved(b, Escrow, payee, rest)[c] = b[c]
            <4>1. payee \in Accounts /\ Escrow \in Accounts /\ Escrow # payee
                BY <2>2
            <4> QED
                BY <2>4, <4>1 DEF Moved
        <3> QED
            BY <2>2, <2>3, <3>1
    <2> QED
        BY <2>5, <2>6
<1>9. UNCHANGED <<bonded, locked>>
    BY DEF BeginSettle, SettleBegin, SettleGuard, bondVars
<1>10. /\ balance[Escrow] \in Nat /\ balance[Treasury] \in Nat /\ balance[BondPool] \in Nat
       /\ bonded[r] \in Nat /\ locked[r] \in Nat /\ MinBond(p) \in Nat
    BY <1>3, <1>4, DuesOf DEF IInv
<1>11. balance'[Escrow] = balance[Escrow] - EscrowOwes[k] + EscrowOwes'[k]
    BY <1>5, <1>7, <1>8, <1>10
<1>12. balance'[Treasury] = balance[Treasury] - FeesEarned[k] + FeesEarned'[k]
    BY <1>7, <1>8, <1>10
<1> QED
    <2>1. jobs[k].robotId = r /\ jobs'[k].robotId = r
        BY <1>1, <1>3
    <2>2. \A j \in JobIds \ {k} : jobs'[j] = jobs[j] /\ (InSettle(j)' <=> InSettle(j))
        BY <1>1, <1>6
    <2>3. balance'[BondPool] = balance[BondPool] - bonded[r] + bonded'[r]
        BY <1>8, <1>9, <1>10
    <2>4. locked'[r] = locked[r] - BondBehind(r)[k] + BondBehind(r)'[k]
        BY <1>7, <1>9, <1>10
    <2> QED
        BY <1>9, <1>11, <1>12, <2>1, <2>2, <2>3, <2>4, MoneyFollows

\* The second half frees the bond that the first had left locked.
LEMMA FinishSettleMoney ==
    ASSUME IInv, IInv', MoneyInv, NEW k \in JobIds, FinishSettle(k)
    PROVE  MoneyInv'
<1>1. /\ InSettle(k) /\ ~InSettle(k)'
      /\ jobs[k].status = "COMPLETED" /\ jobs'[k].status = "SETTLED"
      /\ \A j \in JobIds \ {k} : jobs'[j] = jobs[j] /\ (InSettle(j)' <=> InSettle(j))
    BY FinishSettleChange
<1>2. jobs \in [JobIds -> JobType] /\ jobs[k] \in JobType /\ jobs[k].robotId \in Robots
    BY <1>1, CompletedJob DEF IInv, TypeOK
<1>3. PICK r \in Robots : r = jobs[k].robotId
    BY <1>2
<1>4. PICK p \in Nat : p = jobs[k].price
    BY <1>2 DEF JobType
<1>5. jobs'[k].price = p /\ jobs'[k].robotId = r
    BY <1>2, <1>3, <1>4 DEF FinishSettle, SettleFinish, JobType
<1>6. /\ locked' = [locked EXCEPT ![r] = @ - MinBond(p)] /\ bonded' = bonded
      /\ balance' = balance
    BY <1>3, <1>4 DEF FinishSettle, SettleFinish, Unlock
<1>7. /\ EscrowOwes[k] = 0 /\ EscrowOwes'[k] = 0
      /\ FeesEarned[k] = Fee(p) /\ FeesEarned'[k] = Fee(p)
      /\ BondBehind(r)[k] = MinBond(p) /\ BondBehind(r)'[k] = 0
    BY <1>1, <1>3, <1>4, <1>5 DEF EscrowOwes, FeesEarned, BondBehind, Owed, Paid, BondHeld
<1>8. /\ balance[Escrow] \in Nat /\ balance[Treasury] \in Nat /\ balance[BondPool] \in Nat
      /\ bonded[r] \in Nat /\ locked[r] \in Nat /\ MinBond(p) \in Nat /\ Fee(p) \in Nat
    BY <1>3, <1>4, DuesOf DEF IInv
<1>9. /\ locked'[r] = locked[r] - MinBond(p)
      /\ \A q \in Robots \ {r} : locked'[q] = locked[q]
    BY <1>6 DEF IInv, TypeOK
<1> QED
    <2>1. balance'[Escrow] = balance[Escrow] - EscrowOwes[k] + EscrowOwes'[k]
        BY <1>6, <1>7, <1>8
    <2>2. balance'[Treasury] = balance[Treasury] - FeesEarned[k] + FeesEarned'[k]
        BY <1>6, <1>7, <1>8
    <2>3. balance'[BondPool] = balance[BondPool] - bonded[r] + bonded'[r]
        BY <1>6, <1>8
    <2>4. locked'[r] = locked[r] - BondBehind(r)[k] + BondBehind(r)'[k]
        BY <1>7, <1>8, <1>9
    <2> QED
        BY <1>1, <1>3, <1>5, <1>6, <1>9, <2>1, <2>2, <2>3, <2>4, MoneyFollows

\* What is locked of a bond covers the job that it stands behind.
LEMMA BondBehindLocked ==
    ASSUME IInv, MoneyInv, NEW k \in JobIds, NEW r \in Robots, jobs[k].robotId = r, BondHeld(k)
    PROVE  MinBond(jobs[k].price) \in Nat /\ MinBond(jobs[k].price) <= locked[r]
<1>1. BondBehind(r)[k] = MinBond(jobs[k].price) /\ MinBond(jobs[k].price) \in Nat
    BY DuesOf DEF IInv
<1>2. BondBehind(r) \in [JobIds -> Nat]
    BY DueTypes DEF IInv
<1>3. BondBehind(r)[k] <= SumFunction(BondBehind(r))
    BY <1>2, JobIdsFinite, SumFollows
<1> QED
    BY <1>1, <1>3 DEF MoneyInv, BondAccounted

\* A fault verdict: price and bond go to the buyer, and the slash is not cut short.
LEMMA FaultMoney ==
    ASSUME IInv, IInv', MoneyInv, NEW k \in JobIds, NEW v \in Verdicts, ResolveFault(k, v)
    PROVE  MoneyInv'
<1>1. /\ callStack = <<>> /\ UNCHANGED callStack
      /\ jobs[k].status = "DISPUTED" /\ jobs'[k].status = "REFUNDED"
      /\ \A j \in JobIds \ {k} : jobs'[j] = jobs[j]
    BY FaultChange DEF ResolveFault, chainVars
<1>2. \A j \in JobIds : ~InSettle(j) /\ ~InSettle(j)'
    BY <1>1 DEF InSettle
<1>3. jobs \in [JobIds -> JobType] /\ jobs[k] \in JobType /\ jobs[k].robotId \in Robots
    BY <1>1, CompletedJob DEF IInv, TypeOK
<1>4. PICK r \in Robots : r = jobs[k].robotId
    BY <1>3
<1>5. PICK p \in Nat : p = jobs[k].price
    BY <1>3 DEF JobType
<1>6. jobs'[k].price = p /\ jobs'[k].robotId = r
    BY <1>3, <1>4, <1>5 DEF ResolveFault, JobType
<1>7. PICK bond \in Nat : bond = MinBond(p) /\ bond <= locked[r]
    BY <1>1, <1>4, <1>5, BondBehindLocked DEF BondHeld
<1>8. locked[r] \in Nat /\ Slashable(r, bond) = bond
    <2>1. locked[r] \in Nat
        BY DEF IInv, TypeOK
    <2> QED
        BY <1>7, <2>1 DEF Slashable
<1>9. /\ locked' = [locked EXCEPT ![r] = @ - bond]
      /\ bonded' = [bonded EXCEPT ![r] = @ - bond]
      /\ balance' = Moved(Moved(balance, Escrow, jobs[k].buyer, p),
                          BondPool, disputes[k].challenger, bond)
      /\ p <= balance[Escrow]
    BY <1>4, <1>5, <1>7, <1>8 DEF ResolveFault, Slash
<1>10. /\ balance'[Escrow] = balance[Escrow] - p
       /\ balance'[BondPool] = balance[BondPool] - bond
       /\ balance'[Treasury] = balance[Treasury]
    <2>1. PICK u \in Users : u = jobs[k].buyer
        BY <1>1, <1>3, CompletedJob DEF JobType, Exists
    <2>2. PICK c \in Users : c = disputes[k].challenger
        BY DEF ResolveFault, HasDispute, IInv, TypeOK
    <2>3. /\ u \in Accounts /\ u # Escrow /\ Escrow \in Accounts
          /\ BondPool \in Accounts \ {Escrow, u} /\ Treasury \in Accounts \ {Escrow, u}
          /\ c \in Accounts /\ c # BondPool
          /\ Escrow \in Accounts \ {BondPool, c} /\ Treasury \in Accounts \ {BondPool, c}
          /\ balance \in [Accounts -> Nat]
        BY AccountsApart DEF IInv, TypeOK
    <2> DEFINE b == Moved(balance, Escrow, u, p)
    <2>4. b \in [Accounts -> Nat]
        BY <1>9, <2>3, MovedType
    <2>5. /\ b[Escrow] = balance[Escrow] - p
          /\ b[BondPool] = balance[BondPool] /\ b[Treasury] = balance[Treasury]
        BY <2>3 DEF Moved
    <2>6. balance' = Moved(b, BondPool, c, bond)
        BY <1>9, <2>1, <2>2
    <2> HIDE DEF b
    <2>7. /\ Moved(b, BondPool, c, bond)[BondPool] = b[BondPool] - bond
          /\ Moved(b, BondPool, c, bond)[Escrow] = b[Escrow]
          /\ Moved(b, BondPool, c, bond)[Treasury] = b[Treasury]
        BY <2>3, <2>4 DEF Moved
    <2> QED
        BY <2>5, <2>6, <2>7
<1>11. /\ EscrowOwes[k] = p /\ EscrowOwes'[k] = 0
       /\ FeesEarned[k] = 0 /\ FeesEarned'[k] = 0
       /\ BondBehind(r)[k] = bond /\ BondBehind(r)'[k] = 0
    BY <1>1, <1>2, <1>4, <1>5, <1>6, <1>7
    DEF EscrowOwes, FeesEarned, BondBehind, Owed, Paid, BondHeld
<1>12. /\ balance[Escrow] \in Nat /\ balance[Treasury] \in Nat /\ balance[BondPool] \in Nat
       /\ bonded[r] \in Nat
    BY <1>4, <1>5, DuesOf DEF IInv
<1>13. /\ bonded'[r] = bonded[r] - bond /\ locked'[r] = locked[r] - bond
       /\ \A q \in Robots \ {r} : bonded'[q] = bonded[q] /\ locked'[q] = locked[q]
    BY <1>9 DEF IInv, TypeOK
<1>14. /\ balance'[Escrow] = balance[Escrow] - EscrowOwes[k] + EscrowOwes'[k]
       /\ balance'[Treasury] = balance[Treasury] - FeesEarned[k] + FeesEarned'[k]
    BY <1>10, <1>11, <1>12
<1>15. /\ balance'[BondPool] = balance[BondPool] - bonded[r] + bonded'[r]
       /\ locked'[r] = locked[r] - BondBehind(r)[k] + BondBehind(r)'[k]
    BY <1>8, <1>10, <1>11, <1>12, <1>13
<1>16. \A j \in JobIds \ {k} : jobs'[j] = jobs[j] /\ (InSettle(j)' <=> InSettle(j))
    BY <1>1, <1>2
<1> QED
    BY <1>4, <1>6, <1>13, <1>14, <1>15, <1>16, MoneyFollows

LEMMA OtherMoney ==
    ASSUME IInv, MoneyInv, \/ Tick \/ IdentityStep \/ StakingStep \/ UNCHANGED vars
                           \/ \E k \in JobIds : ResolveValid(k)
    PROVE  MoneyInv'
<1>1. UNCHANGED <<balance, bonded, locked, jobs, callStack>>
    <2>1. CASE Tick
        BY <2>1 DEF Tick, NextBlock, bondVars, jobVars
    <2>2. CASE IdentityStep
        BY <2>2 DEF IdentityStep, RegisterRobot, chainVars, bondVars, jobVars
    <2>3. CASE StakingStep
        BY <2>3 DEF StakingStep, Stake, RequestUnlock, CancelUnlock, Unstake, chainVars,
                    bondVars, jobVars
    <2>4. CASE UNCHANGED vars
        BY <2>4 DEF vars, chainVars, bondVars, jobVars
    <2>5. CASE \E k \in JobIds : ResolveValid(k)
        BY <2>5 DEF ResolveValid, chainVars, bondVars, jobVars
    <2> QED
        BY <2>1, <2>2, <2>3, <2>4, <2>5
<1> QED
    BY <1>1, MoneyFrame

LEMMA MoneyStep ==
    ASSUME IInv, IInv', MoneyInv, [Next]_vars
    PROVE  MoneyInv'
<1>1. CASE \/ Tick \/ IdentityStep \/ StakingStep \/ UNCHANGED vars
           \/ \E k \in JobIds : ResolveValid(k)
    BY <1>1, OtherMoney
<1>2. CASE BondStep
    BY <1>2, BondMoney
<1>3. CASE Create
    BY <1>3, CreateMoney
<1>4. CASE FundStep
    BY <1>4, FundMoney
<1>5. CASE Complete
    BY <1>5, CompleteMoney
<1>6. CASE \E k \in JobIds : BeginSettle(k)
    BY <1>6, BeginSettleMoney
<1>7. CASE \E k \in JobIds : FinishSettle(k)
    BY <1>7, FinishSettleMoney
<1>8. CASE Dispute
    BY <1>8, DisputeMoney
<1>9. CASE \E k \in JobIds, v \in Verdicts : ResolveFault(k, v)
    BY <1>9, FaultMoney
<1> QED
    BY <1>1, <1>2, <1>3, <1>4, <1>5, <1>6, <1>7, <1>8, <1>9, StepCases

LEMMA MoneyAlways == Spec => [](IInv /\ MoneyInv)
<1>1. Init => IInv /\ MoneyInv
    BY InitIInv, MoneyInit
<1>2. IInv /\ MoneyInv /\ [Next]_vars => (IInv /\ MoneyInv)'
    BY NextIInv, MoneyStep
<1> QED
    BY <1>1, <1>2, PTL DEF Spec

\* At every point of every settlement the escrow, the bond manager and the treasury hold,
\* to the unit, what their records say: the sums over all jobs and all robots.
THEOREM MoneyCorrect == Spec => []MoneyAccounted
BY MoneyAlways, PTL DEF MoneyInv

\* What is locked of a bond is the sum of the minimum bonds of the robot's open jobs.
THEOREM BondCorrect == Spec => []BondAccounted
BY MoneyAlways, PTL DEF MoneyInv

LEMMA CoveredNow ==
    ASSUME IInv, MoneyInv
    PROVE  BondsCovered
<1>1. \A j \in JobIds : Exists(j) => jobs[j].robotId \in Robots
    BY DEF IInv, JobsWellFormed
<1> QED
    BY <1>1, BondBehindLocked DEF BondsCovered, IInv, LockedWithinBond

\* So every open job finds its whole bond locked: no unlock can revert, no slash is cut.
THEOREM BondsCover == Spec => []BondsCovered
BY MoneyAlways, CoveredNow, PTL

-------------------------------------------------------------------------------
(* What a settlement finds *)

\* Past its window, a completed job meets every requirement of settle, and its whole bond
\* is there for the unlock at the end of it.  Excepted are a receipt id that is taken and
\* a buyer that takes no receipts.
CanBeSettled ==
    \A j \in JobIds :
        /\ jobs[j].status = "COMPLETED"
        /\ now >= jobs[j].settleAfter
        /\ TokenIdOf(jobs[j]) \notin exists
        /\ jobs[j].buyer \notin NonReceivers
        => /\ SettleGuard(j)
           /\ MinBond(jobs[j].price) <= locked[jobs[j].robotId]

LEMMA PriceHeld ==
    ASSUME IInv, MoneyInv, NEW j \in JobIds, Owed(j)
    PROVE  jobs[j].price <= balance[Escrow]
<1>1. EscrowOwes \in [JobIds -> Nat] /\ EscrowOwes[j] = jobs[j].price
    BY DueTypes DEF IInv, EscrowOwes
<1>2. EscrowOwes[j] <= SumFunction(EscrowOwes)
    BY <1>1, JobIdsFinite, SumFollows
<1> QED
    BY <1>1, <1>2 DEF MoneyInv, MoneyAccounted

\* No other job, verdict, bond or callback can keep a completed job past its window from
\* being settled, in a deployment whose hooks are the contracts they should be: the price
\* and the bond are there (JobEscrow 442-495).
THEOREM SettlesAfterWindow ==
    ASSUME EscrowReputation \in {NoAddress, "ReputationLedger"},
           EscrowRewards \in {NoAddress, "RewardsDistributor"},
           RewardsReputation \in {NoAddress, "ReputationLedger"}
    PROVE  Spec => []CanBeSettled
<1>1. IInv /\ MoneyInv => CanBeSettled
    <2> SUFFICES ASSUME IInv, MoneyInv, NEW j \in JobIds,
                        jobs[j].status = "COMPLETED", now >= jobs[j].settleAfter,
                        TokenIdOf(jobs[j]) \notin exists, jobs[j].buyer \notin NonReceivers
                 PROVE  SettleGuard(j) /\ MinBond(jobs[j].price) <= locked[jobs[j].robotId]
        BY DEF CanBeSettled
    <2>1. jobs[j].robotId \in Robots /\ Exists(j) /\ jobs[j] \in JobType
        BY CompletedJob DEF IInv, TypeOK
    <2>2. Owed(j) /\ BondHeld(j)
        BY DEF IInv, WaitingWellFormed, Owed, BondHeld
    <2>3. jobs[j].price <= balance[Escrow]
        BY <2>2, PriceHeld
    <2>4. MinBond(jobs[j].price) <= locked[jobs[j].robotId]
        BY <2>1, <2>2, BondBehindLocked
    <2>5. balance[Escrow] \in Nat /\ jobs[j].price \in Nat
        BY <2>1, AccountsApart DEF IInv, TypeOK, JobType
    <2> QED
        BY <2>1, <2>3, <2>4, <2>5 DEF SettleGuard, HooksCallable, WindowOver
<1> QED
    BY <1>1, MoneyAlways, PTL

-------------------------------------------------------------------------------
(* Who may shrink a bond *)

\* Only a withdrawal and a fault verdict move a bond.
LEMMA BondLossStep ==
    ASSUME IInv, MoneyInv, [Next]_vars
    PROVE  /\ \A j \in JobIds : Refunds(j) =>
                bonded[jobs[j].robotId] - bonded'[jobs[j].robotId] = MinBond(jobs[j].price)
           /\ \A r \in Robots : bonded'[r] < bonded[r] =>
                \/ \E j \in JobIds : Refunds(j) /\ jobs[j].robotId = r
                \/ /\ balance'[controller[r]] = balance[controller[r]] + bonded[r] - bonded'[r]
                   /\ UNCHANGED jobs
<1> DEFINE Justified ==
        /\ \A j \in JobIds : Refunds(j) =>
            bonded[jobs[j].robotId] - bonded'[jobs[j].robotId] = MinBond(jobs[j].price)
        /\ \A r \in Robots : bonded'[r] < bonded[r] =>
            \/ \E j \in JobIds : Refunds(j) /\ jobs[j].robotId = r
            \/ /\ balance'[controller[r]] = balance[controller[r]] + bonded[r] - bonded'[r]
               /\ UNCHANGED jobs
<1>1. ASSUME bonded' = bonded, \A j \in JobIds : ~Refunds(j)
      PROVE  Justified
    <2>1. \A r \in Robots : bonded[r] \in Nat
        BY DEF IInv, TypeOK
    <2> QED
        BY <1>1, <2>1
<1>2. CASE \/ Tick \/ IdentityStep \/ StakingStep \/ UNCHANGED vars
           \/ \E k \in JobIds : ResolveValid(k)
           \/ \E k \in JobIds : BeginSettle(k)
    <2>1. jobs' = jobs /\ bonded' = bonded
        BY <1>2 DEF Tick, IdentityStep, StakingStep, vars, ResolveValid, BeginSettle,
                    SettleBegin, SettleGuard, bondVars, jobVars
    <2> QED
        BY <1>1, <2>1 DEF Refunds
<1>3. CASE Create \/ FundStep \/ Complete \/ Dispute \/ \E k \in JobIds : FinishSettle(k)
    <2>1. bonded' = bonded
        <3>1. CASE Create
            <4>1. \E u, t, r, p, d, st : OpenJob(u, t, r, p, d, st)
                BY <3>1, Zenon DEF Create, CreateJob, CreateAndFundJobFor
            <4> QED
                BY <4>1 DEF OpenJob, Lock
        <3>2. CASE FundStep
            BY <3>2 DEF FundStep, Fund, bondVars
        <3>3. CASE Complete
            <4>1. \E u, j, claim, c, q, w : AcceptClaim(u, j, claim, c, q, w)
                BY <3>3, Zenon DEF Complete, SubmitCompletion, SubmitCompletionV2
            <4> QED
                BY <4>1 DEF AcceptClaim, bondVars
        <3>4. CASE Dispute
            BY <3>4 DEF Dispute, OpenDispute, bondVars
        <3>5. CASE \E k \in JobIds : FinishSettle(k)
            BY <3>5 DEF FinishSettle, SettleFinish, Unlock
        <3> QED
            BY <1>3, <3>1, <3>2, <3>3, <3>4, <3>5
    <2>2. \E k \in JobIds : jobs'[k].status # "REFUNDED"
                            /\ \A j \in JobIds \ {k} : jobs'[j] = jobs[j]
        BY <1>3, CreateChange, FundChange, CompleteChange, DisputeChange, FinishSettleChange
    <2> QED
        BY <1>1, <2>1, <2>2 DEF Refunds
<1>4. CASE BondStep
    <2>1. PICK u \in Users, r \in Robots, a \in BondAmounts :
                Deposit(u, r, a) \/ Withdraw(u, r, a)
        BY <1>4 DEF BondStep
    <2>2. /\ jobs' = jobs /\ bonded \in [Robots -> Nat] /\ a \in Nat
          /\ balance \in [Accounts -> Nat] /\ u \in Accounts /\ BondPool \in Accounts
          /\ u # BondPool /\ balance[u] \in Nat /\ bonded[r] \in Nat
        BY <1>4, AmountsAssumption, AccountsApart DEF BondStep, jobVars, IInv, TypeOK
    <2>3. CASE Deposit(u, r, a)
        <3>1. \A q \in Robots : bonded'[q] >= bonded[q]
            BY <2>2, <2>3 DEF Deposit
        <3>2. \A q \in Robots : bonded[q] \in Nat /\ bonded'[q] \in Nat
            BY <2>2, <2>3 DEF Deposit
        <3> QED
            BY <2>2, <3>1, <3>2 DEF Refunds
    <2>4. CASE Withdraw(u, r, a)
        <3>1. balance'[u] = balance[u] + a
            BY <2>2, <2>4, TransferMoves DEF Withdraw
        <3>2. /\ bonded'[r] = bonded[r] - a
              /\ \A q \in Robots \ {r} : bonded'[q] = bonded[q] /\ bonded[q] \in Nat
              /\ controller[r] = u
            BY <2>2, <2>4 DEF Withdraw
        <3>3. balance[u] + a = balance[u] + bonded[r] - bonded'[r]
            BY <2>2, <3>2
        <3> QED
            BY <2>2, <3>1, <3>2, <3>3 DEF Refunds
    <2> QED
        BY <2>1, <2>3, <2>4
<1>5. CASE \E k \in JobIds, v \in Verdicts : ResolveFault(k, v)
    <2>1. PICK k \in JobIds, v \in Verdicts : ResolveFault(k, v)
        BY <1>5
    <2>2. /\ jobs[k].status = "DISPUTED" /\ jobs'[k].status = "REFUNDED"
          /\ \A j \in JobIds \ {k} : jobs'[j] = jobs[j]
        BY <2>1, FaultChange
    <2>3. PICK r \in Robots : r = jobs[k].robotId
        BY <2>2, CompletedJob
    <2>4. PICK bond \in Nat : bond = MinBond(jobs[k].price) /\ bond <= locked[r]
        BY <2>2, <2>3, BondBehindLocked DEF BondHeld
    <2>5. bonded \in [Robots -> Nat] /\ locked[r] \in Nat
        BY DEF IInv, TypeOK
    <2>6. bonded' = [bonded EXCEPT ![r] = @ - bond]
        <3>1. Slashable(r, bond) = bond
            BY <2>4, <2>5 DEF Slashable
        <3> QED
            BY <2>1, <2>3, <2>4, <3>1 DEF ResolveFault, Slash
    <2>7. /\ bonded[r] - bonded'[r] = bond
          /\ \A q \in Robots \ {r} : bonded'[q] = bonded[q] /\ bonded[q] \in Nat
        BY <2>4, <2>5, <2>6
    <2>8. \A j \in JobIds : Refunds(j) <=> j = k
        BY <2>2 DEF Refunds
    <2> QED
        BY <2>3, <2>4, <2>7, <2>8
<1>6. \/ \/ Tick \/ IdentityStep \/ StakingStep \/ UNCHANGED vars
         \/ \E k \in JobIds : ResolveValid(k)
         \/ \E k \in JobIds : BeginSettle(k)
      \/ Create \/ FundStep \/ Complete \/ Dispute \/ \E k \in JobIds : FinishSettle(k)
      \/ BondStep
      \/ \E k \in JobIds, v \in Verdicts : ResolveFault(k, v)
    BY StepCases
<1> QED
    BY <1>2, <1>3, <1>4, <1>5, <1>6

\* A bond shrinks only by the whole minimum bond of a job refunded in this step, or into
\* the pocket of the robot's own controller.
THEOREM BondLossOnlyJustified == Spec => BondLossJustified
<1>1. IInv /\ MoneyInv /\ [Next]_vars =>
        [/\ \A j \in JobIds : Refunds(j) =>
                bonded[jobs[j].robotId] - bonded'[jobs[j].robotId] = MinBond(jobs[j].price)
         /\ \A r \in Robots : bonded'[r] < bonded[r] =>
                \/ \E j \in JobIds : Refunds(j) /\ jobs[j].robotId = r
                \/ /\ balance'[controller[r]] = balance[controller[r]] + bonded[r] - bonded'[r]
                   /\ UNCHANGED jobs]_vars
    <2> SUFFICES ASSUME IInv, MoneyInv, [Next]_vars
                 PROVE  /\ \A j \in JobIds : Refunds(j) =>
                            bonded[jobs[j].robotId] - bonded'[jobs[j].robotId] = MinBond(jobs[j].price)
                        /\ \A r \in Robots : bonded'[r] < bonded[r] =>
                            \/ \E j \in JobIds : Refunds(j) /\ jobs[j].robotId = r
                            \/ /\ balance'[controller[r]] = balance[controller[r]] + bonded[r] - bonded'[r]
                               /\ UNCHANGED jobs
        OBVIOUS
    <2> QED
        BY BondLossStep
<1> QED
    BY <1>1, MoneyAlways, PTL DEF Spec, BondLossJustified

-------------------------------------------------------------------------------
(* The stakes *)

Staked == [u \in Users |-> stakes[u].staked]

\* A transaction that changes one stake, and the gate's VRWX by as much.
LEMMA StakeFollows ==
    ASSUME IInv, IInv', StakesAccounted, NEW u \in Users,
           \A w \in Users \ {u} : stakes'[w] = stakes[w],
           vrwx'[Gate] = vrwx[Gate] - stakes[u].staked + stakes'[u].staked,
           stakes'[u].unlockAmount <= stakes'[u].staked
    PROVE  StakesAccounted'
<1>1. Staked \in [Users -> Nat] /\ Staked' \in [Users -> Nat]
    BY DEF Staked, IInv, TypeOK, StakeType
<1>2. \A w \in Users \ {u} : Staked'[w] = Staked[w]
    BY DEF Staked
<1>3. SumFunction(Staked') = SumFunction(Staked) - Staked[u] + Staked'[u]
    BY <1>1, <1>2, FiniteAssumption, SumFollows
<1>4. Staked[u] = stakes[u].staked /\ Staked'[u] = stakes'[u].staked
    BY DEF Staked
<1>5. vrwx[Gate] = SumFunction(Staked)
    BY DEF StakesAccounted, Staked
<1>6. vrwx'[Gate] = SumFunction(Staked')
    BY <1>3, <1>4, <1>5
<1>7. \A w \in Users : stakes'[w].unlockAmount <= stakes'[w].staked
    BY DEF StakesAccounted
<1> QED
    BY <1>6, <1>7 DEF StakesAccounted, Staked

LEMMA StakesFrame ==
    ASSUME StakesAccounted, stakes' = stakes, vrwx'[Gate] = vrwx[Gate]
    PROVE  StakesAccounted'
BY DEF StakesAccounted

\* A stake changes only by its owner's own stake, request, cancellation and unstake, and
\* by the slash of a fault verdict against a robot that it controls.
LEMMA StakingChange ==
    ASSUME IInv, StakesAccounted, StakingStep
    PROVE  \E u \in Users :
             /\ \A w \in Users \ {u} : stakes'[w] = stakes[w]
             /\ vrwx'[Gate] = vrwx[Gate] - stakes[u].staked + stakes'[u].staked
             /\ stakes'[u].unlockAmount <= stakes'[u].staked
             /\ stakes'[u].staked < stakes[u].staked =>
                    /\ stakes[u].unlockRequestedAt \in 1..(now - UnlockDelay)
                    /\ stakes[u].staked - stakes'[u].staked = stakes[u].unlockAmount
<1>1. PICK u \in Users :
        \/ \E a \in StakeAmounts : Stake(u, a) \/ RequestUnlock(u, a)
        \/ CancelUnlock(u)
        \/ Unstake(u)
    BY AmountsAssumption DEF StakingStep
<1>2. /\ u \in Accounts /\ Gate \in Accounts /\ u # Gate
      /\ vrwx \in [Accounts -> Nat] /\ vrwx[Gate] \in Nat
      /\ stakes \in [Users -> StakeType] /\ stakes[u] \in StakeType
      /\ stakes[u].staked \in Nat /\ stakes[u].unlockAmount \in Nat
      /\ stakes[u].unlockRequestedAt \in Nat /\ now \in Nat
    BY AccountsApart DEF IInv, TypeOK, StakeType
<1>3. stakes[u].unlockAmount <= stakes[u].staked
    BY DEF StakesAccounted
<1>4. CASE \E a \in StakeAmounts : Stake(u, a)
    <2>1. PICK a \in Nat : Stake(u, a)
        BY <1>4, AmountsAssumption
    <2>2. vrwx'[Gate] = vrwx[Gate] + a
        BY <1>2, <2>1, TransferMoves DEF Stake
    <2>3. /\ stakes'[u].staked = stakes[u].staked + a
          /\ stakes'[u].unlockAmount = stakes[u].unlockAmount
          /\ \A w \in Users \ {u} : stakes'[w] = stakes[w]
        BY <1>2, <2>1 DEF Stake, StakeType
    <2> QED
        BY <1>2, <1>3, <2>2, <2>3
<1>5. CASE \E a \in StakeAmounts : RequestUnlock(u, a)
    <2>1. PICK a \in Nat : RequestUnlock(u, a)
        BY <1>5, AmountsAssumption
    <2>2. /\ stakes'[u].staked = stakes[u].staked
          /\ stakes'[u].unlockAmount = a /\ a <= stakes[u].staked
          /\ \A w \in Users \ {u} : stakes'[w] = stakes[w]
          /\ vrwx' = vrwx
        BY <1>2, <2>1 DEF RequestUnlock, StakeType
    <2> QED
        BY <1>2, <2>2
<1>6. CASE CancelUnlock(u)
    <2>1. /\ stakes'[u].staked = stakes[u].staked
          /\ stakes'[u].unlockAmount = 0
          /\ \A w \in Users \ {u} : stakes'[w] = stakes[w]
          /\ vrwx' = vrwx
        BY <1>2, <1>6 DEF CancelUnlock, WithoutUnlock, StakeType
    <2> QED
        BY <1>2, <2>1
<1>7. CASE Unstake(u)
    <2>1. PICK a \in Nat : a = stakes[u].unlockAmount
        BY <1>2
    <2>2. /\ stakes' = [stakes EXCEPT ![u] = Unstaked(@)]
          /\ vrwx' = Moved(vrwx, Gate, u, a)
          /\ stakes[u].unlockRequestedAt # 0
          /\ now >= stakes[u].unlockRequestedAt + UnlockDelay
        BY <1>7, <2>1 DEF Unstake, UnlockPending, DelayOver
    <2>3. vrwx'[Gate] = vrwx[Gate] - a
        BY <1>2, <2>2, TransferMoves
    <2>4. /\ Unstaked(stakes[u]).staked = stakes[u].staked - a
          /\ Unstaked(stakes[u]).unlockAmount = 0
        <3>1. [stakes[u] EXCEPT !.staked = @ - a] \in
                [staked : Int, unlockAmount : Nat, unlockRequestedAt : Nat]
            BY <1>2 DEF StakeType
        <3> QED
            BY <1>2, <2>1, <3>1 DEF Unstaked, WithoutUnlock, StakeType
    <2>5. /\ stakes'[u].staked = stakes[u].staked - a /\ stakes'[u].unlockAmount = 0
          /\ \A w \in Users \ {u} : stakes'[w] = stakes[w]
        BY <1>2, <2>2, <2>4
    <2>6. stakes[u].unlockRequestedAt \in 1..(now - UnlockDelay)
        BY <1>2, <2>2, StakingAssumption
    <2> QED
        BY <1>2, <1>3, <2>1, <2>3, <2>5, <2>6
<1> QED
    BY <1>1, <1>4, <1>5, <1>6, <1>7

LEMMA SlashChange ==
    ASSUME IInv, StakesAccounted, NEW u \in Users, NEW c \in Users, SlashStakeVRWX(u, c)
    PROVE  /\ \A w \in Users \ {u} : stakes'[w] = stakes[w]
           /\ vrwx'[Gate] = vrwx[Gate] - stakes[u].staked + stakes'[u].staked
           /\ stakes'[u].unlockAmount <= stakes'[u].staked
<1>1. /\ c \in Accounts /\ Gate \in Accounts /\ c # Gate
      /\ vrwx \in [Accounts -> Nat] /\ vrwx[Gate] \in Nat
      /\ stakes \in [Users -> StakeType] /\ stakes[u] \in StakeType
      /\ stakes[u].staked \in Nat /\ stakes[u].unlockAmount \in Nat
    BY AccountsApart DEF IInv, TypeOK, StakeType
<1>2. stakes[u].unlockAmount <= stakes[u].staked
    BY DEF StakesAccounted
<1>3. PICK a \in Nat : a = SlashShare(u) /\ a <= stakes[u].staked
    BY <1>1, SlashShareType
<1>4. CASE a = 0
    BY <1>1, <1>2, <1>3, <1>4 DEF SlashStakeVRWX
<1>5. CASE a # 0
    <2>1. /\ stakes' = [stakes EXCEPT ![u] = SlashedStake(@, a)]
          /\ vrwx' = Moved(vrwx, Gate, c, a)
        BY <1>3, <1>5 DEF SlashStakeVRWX
    <2>2. vrwx'[Gate] = vrwx[Gate] - a
        BY <1>1, <2>1, TransferMoves
    <2> DEFINE left == [stakes[u] EXCEPT !.staked = @ - a]
    <2>3. /\ left \in StakeType /\ left.staked = stakes[u].staked - a
          /\ left.unlockAmount = stakes[u].unlockAmount
        BY <1>1, <1>3 DEF StakeType
    <2>4. SlashedStake(stakes[u], a) =
            IF left.staked < stakes[u].unlockAmount THEN WithoutUnlock(left) ELSE left
        BY DEF SlashedStake
    <2> HIDE DEF left
    <2>5. WithoutUnlock(left).staked = left.staked /\ WithoutUnlock(left).unlockAmount = 0
        BY <2>3 DEF WithoutUnlock, StakeType
    <2>6. /\ SlashedStake(stakes[u], a).staked = stakes[u].staked - a
          /\ SlashedStake(stakes[u], a).unlockAmount <= SlashedStake(stakes[u], a).staked
        BY <1>1, <1>3, <2>3, <2>4, <2>5
    <2>7. /\ stakes'[u] = SlashedStake(stakes[u], a)
          /\ \A w \in Users \ {u} : stakes'[w] = stakes[w]
        BY <1>1, <2>1
    <2> QED
        BY <1>1, <1>3, <2>2, <2>6, <2>7
<1> QED
    BY <1>4, <1>5

LEMMA FaultStakes ==
    ASSUME IInv, StakesAccounted, NEW k \in JobIds, NEW v \in Verdicts, ResolveFault(k, v)
    PROVE  \/ stakes' = stakes /\ vrwx' = vrwx
           \/ \E u \in Users :
                /\ controller[jobs[k].robotId] = u
                /\ \A w \in Users \ {u} : stakes'[w] = stakes[w]
                /\ vrwx'[Gate] = vrwx[Gate] - stakes[u].staked + stakes'[u].staked
                /\ stakes'[u].unlockAmount <= stakes'[u].staked
<1>1. PICK u \in Users : u = controller[jobs[k].robotId]
    BY FaultChange, CompletedJob
<1>2. PICK c \in Users : c = disputes[k].challenger
    BY DEF ResolveFault, HasDispute, IInv, TypeOK
<1>3. UNCHANGED <<stakes, vrwx>> \/ SlashStakeVRWX(u, c)
    BY <1>1, <1>2 DEF ResolveFault
<1> QED
    BY <1>1, <1>3, SlashChange

\* No other transaction touches a stake or the gate's VRWX.
LEMMA OtherStakes ==
    ASSUME IInv, \/ Tick \/ IdentityStep \/ BondStep \/ UNCHANGED vars
                 \/ Create \/ FundStep \/ Complete \/ Dispute
                 \/ \E k \in JobIds : BeginSettle(k)
                 \/ \E k \in JobIds : FinishSettle(k)
                 \/ \E k \in JobIds : ResolveValid(k)
    PROVE  stakes' = stakes /\ vrwx'[Gate] = vrwx[Gate]
<1>1. CASE Tick \/ IdentityStep \/ BondStep \/ UNCHANGED vars
    BY <1>1 DEF Tick, IdentityStep, BondStep, vars
<1>2. CASE Create
    <2>1. /\ \E u, t, r, p, d, st : OpenJob(u, t, r, p, d, st)
          /\ UNCHANGED stakes
        BY <1>2, Zenon DEF Create, CreateJob, CreateAndFundJobFor
    <2> QED
        BY <2>1 DEF OpenJob
<1>3. CASE FundStep
    BY <1>3 DEF FundStep, Fund
<1>4. CASE Complete
    <2>1. /\ \E u, j, claim, c, q, w : AcceptClaim(u, j, claim, c, q, w)
          /\ UNCHANGED stakes
        BY <1>4, Zenon DEF Complete, SubmitCompletion, SubmitCompletionV2
    <2> QED
        BY <2>1 DEF AcceptClaim
<1>5. CASE Dispute
    BY <1>5 DEF Dispute, OpenDispute
<1>6. CASE \E k \in JobIds : BeginSettle(k)
    BY <1>6 DEF BeginSettle, SettleBegin, SettleGuard
<1>7. CASE \E k \in JobIds : FinishSettle(k)
    <2>1. PICK k \in JobIds : FinishSettle(k)
        BY <1>7
    <2>2. PICK u \in Users : u = controller[jobs[k].robotId]
        BY <2>1, FinishSettleChange, CompletedJob
    <2>3. u # Gate
        BY AccountsApart
    <2>4. vrwx' = vrwx \/ \E a : vrwx' = [vrwx EXCEPT ![u] = @ + a]
        BY <2>1, <2>2 DEF FinishSettle, SettleFinish, VRWXAfterSettle, OnJobFinal
    <2> QED
        BY <2>1, <2>3, <2>4, AccountsApart DEF FinishSettle, IInv, TypeOK
<1>8. CASE \E k \in JobIds : ResolveValid(k)
    BY <1>8 DEF ResolveValid
<1> QED
    BY <1>1, <1>2, <1>3, <1>4, <1>5, <1>6, <1>7, <1>8

LEMMA NoStakesYet ==
    ASSUME StakingInit, vrwx[Gate] = 0
    PROVE  StakesAccounted
<1>1. Staked \in [Users -> {0}]
    BY DEF Staked, StakingInit, NoStake
<1>2. SumFunction(Staked) = 0
    BY <1>1, FiniteAssumption, SumOfZeros
<1>3. \A u \in Users : stakes[u].unlockAmount = 0 /\ stakes[u].staked = 0
    BY DEF StakingInit, NoStake
<1> QED
    BY <1>2, <1>3 DEF StakesAccounted, Staked

LEMMA StakesInit == Init => StakesAccounted
BY NoStakesYet, AccountsApart DEF Init, VRWXInit

LEMMA StakesStep ==
    ASSUME IInv, IInv', StakesAccounted, [Next]_vars
    PROVE  StakesAccounted'
<1>1. CASE StakingStep
    BY <1>1, StakingChange, StakeFollows
<1>2. CASE \E k \in JobIds, v \in Verdicts : ResolveFault(k, v)
    BY <1>2, FaultStakes, StakeFollows, StakesFrame
<1>3. CASE \/ Tick \/ IdentityStep \/ BondStep \/ UNCHANGED vars
           \/ Create \/ FundStep \/ Complete \/ Dispute
           \/ \E k \in JobIds : BeginSettle(k)
           \/ \E k \in JobIds : FinishSettle(k)
           \/ \E k \in JobIds : ResolveValid(k)
    BY <1>3, OtherStakes, StakesFrame
<1> QED
    BY <1>1, <1>2, <1>3, StepCases

LEMMA StakesAlways == Spec => [](IInv /\ StakesAccounted)
<1>1. Init => IInv /\ StakesAccounted
    BY InitIInv, StakesInit
<1>2. IInv /\ StakesAccounted /\ [Next]_vars => (IInv /\ StakesAccounted)'
    BY NextIInv, StakesStep
<1> QED
    BY <1>1, <1>2, PTL DEF Spec

\* The gate holds exactly the stakes, and a requested unlock stays payable after slashes.
THEOREM StakesCorrect == Spec => []StakesAccounted
BY StakesAlways, PTL

\* A stake leaves the gate to its owner UnlockDelay after the request, and to anyone else
\* only by a fault verdict against a robot of that owner.
THEOREM StakeLossOnlyJustified == Spec => StakeLossJustified
<1>1. IInv /\ StakesAccounted /\ [Next]_vars =>
        [\A u \in Users : stakes'[u].staked < stakes[u].staked =>
            \/ /\ stakes[u].unlockRequestedAt \in 1..(now - UnlockDelay)
               /\ stakes[u].staked - stakes'[u].staked = stakes[u].unlockAmount
            \/ \E j \in JobIds : Refunds(j) /\ controller[jobs[j].robotId] = u]_vars
    <2> SUFFICES ASSUME IInv, StakesAccounted, [Next]_vars, NEW u \in Users,
                        stakes'[u].staked < stakes[u].staked
                 PROVE  \/ /\ stakes[u].unlockRequestedAt \in 1..(now - UnlockDelay)
                           /\ stakes[u].staked - stakes'[u].staked = stakes[u].unlockAmount
                        \/ \E j \in JobIds : Refunds(j) /\ controller[jobs[j].robotId] = u
        OBVIOUS
    <2>1. stakes[u].staked \in Nat
        BY DEF IInv, TypeOK, StakeType
    <2>2. stakes'[u] # stakes[u]
        BY <2>1
    <2>3. CASE StakingStep
        BY <2>2, <2>3, StakingChange
    <2>4. CASE \E k \in JobIds, v \in Verdicts : ResolveFault(k, v)
        BY <2>2, <2>4, FaultStakes, FaultChange DEF Refunds
    <2>5. CASE \/ Tick \/ IdentityStep \/ BondStep \/ UNCHANGED vars
               \/ Create \/ FundStep \/ Complete \/ Dispute
               \/ \E k \in JobIds : BeginSettle(k)
               \/ \E k \in JobIds : FinishSettle(k)
               \/ \E k \in JobIds : ResolveValid(k)
        BY <2>2, <2>5, OtherStakes
    <2> QED
        BY <2>3, <2>4, <2>5, StepCases
<1> QED
    BY <1>1, StakesAlways, PTL DEF Spec, StakeLossJustified

-------------------------------------------------------------------------------
(* The ledger's counts *)

History(r, status) == {j \in JobIds : jobs[j].robotId = r /\ jobs[j].status = status}

RepInv ==
    {EscrowReputation, DisputeReputation} = {"ReputationLedger"} =>
        \A r \in Robots :
            /\ reputation[r].totalJobs = Cardinality(History(r, "SETTLED"))
            /\ reputation[r].totalDisputes = Cardinality(History(r, "REFUNDED"))
            /\ reputation[r].totalSlashes = Cardinality(History(r, "REFUNDED"))

LEMMA HistoryFinite ==
    \A r, status : IsFiniteSet(History(r, status)) /\ Cardinality(History(r, status)) \in Nat
BY JobIdsFinite, FS_Subset, FS_CardinalityType DEF History

\* A job that enters a status adds one to its robot's history, and to no other.
LEMMA HistoryGrows ==
    ASSUME NEW k \in JobIds, NEW status, jobs[k].status # status, jobs'[k].status = status,
           jobs'[k].robotId = jobs[k].robotId, \A j \in JobIds \ {k} : jobs'[j] = jobs[j]
    PROVE  \A r : Cardinality(History(r, status)') =
                    Cardinality(History(r, status)) + (IF r = jobs[k].robotId THEN 1 ELSE 0)
<1> SUFFICES ASSUME NEW r
             PROVE  Cardinality(History(r, status)') =
                        Cardinality(History(r, status)) + (IF r = jobs[k].robotId THEN 1 ELSE 0)
    OBVIOUS
<1>1. IsFiniteSet(History(r, status)) /\ Cardinality(History(r, status)) \in Nat
    BY HistoryFinite
<1>2. CASE r = jobs[k].robotId
    <2>1. k \notin History(r, status) /\ History(r, status)' = History(r, status) \cup {k}
        BY <1>2 DEF History
    <2> QED
        BY <1>1, <1>2, <2>1, FS_AddElement
<1>3. CASE r # jobs[k].robotId
    <2>1. History(r, status)' = History(r, status)
        BY <1>3 DEF History
    <2> QED
        BY <1>1, <1>3, <2>1
<1> QED
    BY <1>2, <1>3

\* A job that neither enters nor leaves a status changes no history of it.
LEMMA HistoryStays ==
    ASSUME NEW k \in JobIds, NEW status, jobs[k].status # status, jobs'[k].status # status,
           \A j \in JobIds \ {k} : jobs'[j] = jobs[j]
    PROVE  \A r : History(r, status)' = History(r, status)
BY DEF History

LEMMA RecordsCount ==
    ASSUME NEW rep \in ReputationType
    PROVE  /\ RecordJobComplete(rep).totalJobs = rep.totalJobs + 1
           /\ RecordJobComplete(rep).totalDisputes = rep.totalDisputes
           /\ RecordJobComplete(rep).totalSlashes = rep.totalSlashes
           /\ RecordSlash(RecordDispute(rep)).totalJobs = rep.totalJobs
           /\ RecordSlash(RecordDispute(rep)).totalDisputes = rep.totalDisputes + 1
           /\ RecordSlash(RecordDispute(rep)).totalSlashes = rep.totalSlashes + 1
BY DEF RecordJobComplete, RecordDispute, RecordSlash, Rescored, ReputationType

LEMMA RepInit == Init => RepInv
<1> SUFFICES ASSUME Init
             PROVE  RepInv
    OBVIOUS
<1>1. \A r \in Robots : History(r, "SETTLED") = {} /\ History(r, "REFUNDED") = {}
    BY DEF Init, JobInit, NoJob, History
<1>2. \A r \in Robots : /\ reputation[r].totalJobs = 0 /\ reputation[r].totalDisputes = 0
                        /\ reputation[r].totalSlashes = 0
    BY DEF Init, ReputationInit
<1> QED
    BY <1>1, <1>2, FS_EmptySet DEF RepInv

LEMMA RepFrame ==
    ASSUME RepInv, reputation' = reputation,
           \A r : /\ History(r, "SETTLED")' = History(r, "SETTLED")
                  /\ History(r, "REFUNDED")' = History(r, "REFUNDED")
    PROVE  RepInv'
BY DEF RepInv

\* Every transaction but a settle's end and a fault verdict leaves the ledger alone.
LEMMA ReputationKept ==
    ASSUME \/ Tick \/ IdentityStep \/ BondStep \/ StakingStep \/ UNCHANGED vars
           \/ Create \/ FundStep \/ Complete \/ Dispute
           \/ \E k \in JobIds : BeginSettle(k)
           \/ \E k \in JobIds : ResolveValid(k)
    PROVE  reputation' = reputation
<1>1. CASE Tick \/ IdentityStep \/ BondStep \/ UNCHANGED vars \/ Dispute \/ FundStep
    BY <1>1 DEF Tick, IdentityStep, BondStep, vars, Dispute, OpenDispute, FundStep, Fund
<1>2. CASE StakingStep
    BY <1>2 DEF StakingStep, Stake, RequestUnlock, CancelUnlock, Unstake
<1>3. CASE Create
    <2>1. \E u, t, r, p, d, st : OpenJob(u, t, r, p, d, st)
        BY <1>3, Zenon DEF Create, CreateJob, CreateAndFundJobFor
    <2> QED
        BY <2>1 DEF OpenJob
<1>4. CASE Complete
    <2>1. \E u, j, claim, c, q, w : AcceptClaim(u, j, claim, c, q, w)
        BY <1>4, Zenon DEF Complete, SubmitCompletion, SubmitCompletionV2
    <2> QED
        BY <2>1 DEF AcceptClaim
<1>5. CASE \E k \in JobIds : BeginSettle(k)
    BY <1>5 DEF BeginSettle, SettleBegin, SettleGuard
<1>6. CASE \E k \in JobIds : ResolveValid(k)
    BY <1>6 DEF ResolveValid
<1> QED
    BY <1>1, <1>2, <1>3, <1>4, <1>5, <1>6

LEMMA FinishSettleRep ==
    ASSUME IInv, RepInv, NEW k \in JobIds, FinishSettle(k)
    PROVE  RepInv'
<1> SUFFICES ASSUME {EscrowReputation, DisputeReputation} = {"ReputationLedger"},
                    NEW q \in Robots
             PROVE  /\ reputation'[q].totalJobs = Cardinality(History(q, "SETTLED")')
                    /\ reputation'[q].totalDisputes = Cardinality(History(q, "REFUNDED")')
                    /\ reputation'[q].totalSlashes = Cardinality(History(q, "REFUNDED")')
    BY DEF RepInv
<1>1. /\ jobs[k].status = "COMPLETED" /\ jobs'[k].status = "SETTLED"
      /\ \A j \in JobIds \ {k} : jobs'[j] = jobs[j]
    BY FinishSettleChange
<1>2. jobs[k] \in JobType /\ jobs[k].robotId \in Robots /\ jobs \in [JobIds -> JobType]
    BY <1>1, CompletedJob DEF IInv, TypeOK
<1>3. PICK r \in Robots : r = jobs[k].robotId
    BY <1>2
<1>4. jobs'[k].robotId = r
    BY <1>2, <1>3 DEF FinishSettle, SettleFinish, JobType
<1>5. reputation \in [Robots -> ReputationType]
    BY DEF IInv, TypeOK
<1>6. reputation' = [reputation EXCEPT ![r] = RecordJobComplete(@)]
    BY <1>3, AddressesAssumption
    DEF FinishSettle, SettleFinish, ReputationAfterSettle, NoAddress
<1>7. Cardinality(History(q, "SETTLED")') =
        Cardinality(History(q, "SETTLED")) + (IF q = r THEN 1 ELSE 0)
    <2>1. jobs[k].status # "SETTLED" /\ jobs'[k].robotId = jobs[k].robotId
        BY <1>1, <1>3, <1>4
    <2>2. Cardinality(History(q, "SETTLED")') =
            Cardinality(History(q, "SETTLED")) + (IF q = jobs[k].robotId THEN 1 ELSE 0)
        BY <1>1, <2>1, HistoryGrows
    <2> QED
        BY <1>3, <2>2
<1>8. History(q, "REFUNDED")' = History(q, "REFUNDED")
    BY <1>1, HistoryStays
<1>9. Cardinality(History(q, "SETTLED")) \in Nat
    BY HistoryFinite
<1>10. /\ reputation[q].totalJobs = Cardinality(History(q, "SETTLED"))
       /\ reputation[q].totalDisputes = Cardinality(History(q, "REFUNDED"))
       /\ reputation[q].totalSlashes = Cardinality(History(q, "REFUNDED"))
    BY DEF RepInv
<1>11. CASE q = r
    <2>1. reputation'[q] = RecordJobComplete(reputation[q])
        BY <1>5, <1>6, <1>11
    <2>2. /\ reputation'[q].totalJobs = reputation[q].totalJobs + 1
          /\ reputation'[q].totalDisputes = reputation[q].totalDisputes
          /\ reputation'[q].totalSlashes = reputation[q].totalSlashes
        BY <1>5, <2>1, RecordsCount
    <2> QED
        BY <1>7, <1>8, <1>9, <1>10, <1>11, <2>2
<1>12. CASE q # r
    <2>1. reputation'[q] = reputation[q]
        BY <1>5, <1>6, <1>12
    <2> QED
        BY <1>7, <1>8, <1>9, <1>10, <1>12, <2>1
<1> QED
    BY <1>11, <1>12

LEMMA FaultRep ==
    ASSUME IInv, RepInv, NEW k \in JobIds, NEW v \in Verdicts, ResolveFault(k, v)
    PROVE  RepInv'
<1> SUFFICES ASSUME {EscrowReputation, DisputeReputation} = {"ReputationLedger"},
                    NEW q \in Robots
             PROVE  /\ reputation'[q].totalJobs = Cardinality(History(q, "SETTLED")')
                    /\ reputation'[q].totalDisputes = Cardinality(History(q, "REFUNDED")')
                    /\ reputation'[q].totalSlashes = Cardinality(History(q, "REFUNDED")')
    BY DEF RepInv
<1>1. /\ jobs[k].status = "DISPUTED" /\ jobs'[k].status = "REFUNDED"
      /\ \A j \in JobIds \ {k} : jobs'[j] = jobs[j]
    BY FaultChange
<1>2. jobs[k] \in JobType /\ jobs[k].robotId \in Robots /\ jobs \in [JobIds -> JobType]
    BY <1>1, CompletedJob DEF IInv, TypeOK
<1>3. PICK r \in Robots : r = jobs[k].robotId
    BY <1>2
<1>4. jobs'[k].robotId = r
    BY <1>2, <1>3 DEF ResolveFault, JobType
<1>5. reputation \in [Robots -> ReputationType]
    BY DEF IInv, TypeOK
<1>6. reputation' = [reputation EXCEPT ![r] = RecordSlash(RecordDispute(@))]
    BY <1>3 DEF ResolveFault, ReputationAfterFault, NoAddress
<1>7. Cardinality(History(q, "REFUNDED")') =
        Cardinality(History(q, "REFUNDED")) + (IF q = r THEN 1 ELSE 0)
    BY <1>1, <1>3, <1>4, HistoryGrows
<1>8. History(q, "SETTLED")' = History(q, "SETTLED")
    BY <1>1, HistoryStays
<1>9. Cardinality(History(q, "REFUNDED")) \in Nat
    BY HistoryFinite
<1>10. /\ reputation[q].totalJobs = Cardinality(History(q, "SETTLED"))
       /\ reputation[q].totalDisputes = Cardinality(History(q, "REFUNDED"))
       /\ reputation[q].totalSlashes = Cardinality(History(q, "REFUNDED"))
    BY DEF RepInv
<1>11. CASE q = r
    <2>1. reputation'[q] = RecordSlash(RecordDispute(reputation[q]))
        BY <1>5, <1>6, <1>11
    <2>2. /\ reputation'[q].totalJobs = reputation[q].totalJobs
          /\ reputation'[q].totalDisputes = reputation[q].totalDisputes + 1
          /\ reputation'[q].totalSlashes = reputation[q].totalSlashes + 1
        BY <1>5, <2>1, RecordsCount
    <2> QED
        BY <1>7, <1>8, <1>9, <1>10, <1>11, <2>2
<1>12. CASE q # r
    <2>1. reputation'[q] = reputation[q]
        BY <1>5, <1>6, <1>12
    <2> QED
        BY <1>7, <1>8, <1>9, <1>10, <1>12, <2>1
<1> QED
    BY <1>11, <1>12

LEMMA RepStep ==
    ASSUME IInv, RepInv, [Next]_vars
    PROVE  RepInv'
<1>1. CASE \E k \in JobIds : FinishSettle(k)
    BY <1>1, FinishSettleRep
<1>2. CASE \E k \in JobIds, v \in Verdicts : ResolveFault(k, v)
    BY <1>2, FaultRep
<1>3. CASE \/ Tick \/ IdentityStep \/ BondStep \/ StakingStep \/ UNCHANGED vars
           \/ \E k \in JobIds : BeginSettle(k)
           \/ \E k \in JobIds : ResolveValid(k)
    <2>1. jobs' = jobs
        BY <1>3, OtherChange, BeginSettleChange, ValidChange
    <2>2. \A r : /\ History(r, "SETTLED")' = History(r, "SETTLED")
                 /\ History(r, "REFUNDED")' = History(r, "REFUNDED")
        BY <2>1 DEF History
    <2> QED
        BY <1>3, <2>2, ReputationKept, RepFrame
<1>4. CASE Create \/ FundStep \/ Complete \/ Dispute
    <2>1. PICK k \in JobIds :
            /\ jobs[k].status \notin {"SETTLED", "REFUNDED"}
            /\ jobs'[k].status \notin {"SETTLED", "REFUNDED"}
            /\ \A j \in JobIds \ {k} : jobs'[j] = jobs[j]
        BY <1>4, CreateChange, FundChange, CompleteChange, DisputeChange
    <2>2. \A r : /\ History(r, "SETTLED")' = History(r, "SETTLED")
                 /\ History(r, "REFUNDED")' = History(r, "REFUNDED")
        BY <2>1, HistoryStays
    <2> QED
        BY <1>4, <2>2, ReputationKept, RepFrame
<1> QED
    BY <1>1, <1>2, <1>3, <1>4, StepCases

\* With both hooks set, the ledger's counts are the robot's settled and refunded jobs.
THEOREM ReputationCorrect == Spec => []ReputationMatchesHistory
<1>1. RepInv => ReputationMatchesHistory
    BY DEF RepInv, ReputationMatchesHistory, History
<1>2. Spec => []RepInv
    BY RepInit, RepStep, Inductive, PTL DEF Spec
<1> QED
    BY <1>1, <1>2, PTL

-------------------------------------------------------------------------------
(* The escrow's promise: that the pot moves by a job's price, and only when its stage  *)
(* says so, is what the sum of the prices owed already says.                           *)

JobStages == [j \in JobIds |-> Stage(j)]
JobPrices == [j \in JobIds |-> jobs[j].price]
JobWindows == [j \in JobIds |-> jobs[j].settleAfter]

LEMMA StageOf ==
    ASSUME NEW j \in JobIds, Exists(j)
    PROVE  /\ InSettle(j) => Stage(j) = "paid"
           /\ ~InSettle(j) => /\ jobs[j].status = "CREATED" => Stage(j) = "agreed"
                              /\ jobs[j].status = "FUNDED" => Stage(j) = "held"
                              /\ jobs[j].status = "COMPLETED" => Stage(j) = "claimed"
                              /\ jobs[j].status = "DISPUTED" => Stage(j) = "contested"
                              /\ jobs[j].status = "SETTLED" => Stage(j) = "paid"
                              /\ jobs[j].status = "REFUNDED" => Stage(j) = "refunded"
BY DEF Stage

\* The promise sees of a step of one job its stage, price and window; the pot follows.
LEMMA OneJobSeen ==
    ASSUME IInv, IInv', MoneyInv, MoneyInv', NEW k \in JobIds,
           \A j \in JobIds \ {k} : jobs'[j] = jobs[j] /\ (InSettle(j)' <=> InSettle(j))
    PROVE  /\ JobStages' = [JobStages EXCEPT ![k] = Stage(k)']
           /\ JobPrices' = [JobPrices EXCEPT ![k] = jobs'[k].price]
           /\ JobWindows' = [JobWindows EXCEPT ![k] = jobs'[k].settleAfter]
           /\ balance'[Escrow] = balance[Escrow] - EscrowOwes[k] + EscrowOwes'[k]
           /\ balance[Escrow] \in Nat
           /\ EscrowOwes[k] = IF Owed(k) THEN jobs[k].price ELSE 0
           /\ EscrowOwes'[k] = IF Owed(k)' THEN jobs'[k].price ELSE 0
           /\ jobs[k].price \in Nat /\ jobs'[k].price \in Nat
<1>1. \A j \in JobIds \ {k} : Stage(j)' = Stage(j)
    BY DEF Stage, Exists
<1>2. /\ JobStages' = [JobStages EXCEPT ![k] = Stage(k)']
      /\ JobPrices' = [JobPrices EXCEPT ![k] = jobs'[k].price]
      /\ JobWindows' = [JobWindows EXCEPT ![k] = jobs'[k].settleAfter]
    BY <1>1 DEF JobStages, JobPrices, JobWindows
<1>3. SumFunction(EscrowOwes') = SumFunction(EscrowOwes) - EscrowOwes[k] + EscrowOwes'[k]
    BY OneJobMoves DEF IInv
<1>4. balance[Escrow] = SumFunction(EscrowOwes) /\ balance'[Escrow] = SumFunction(EscrowOwes')
    BY DEF MoneyInv, MoneyAccounted
<1>5. /\ balance[Escrow] \in Nat
      /\ jobs[k].price \in Nat /\ jobs'[k].price \in Nat
    BY AccountsApart DEF IInv, TypeOK, JobType
<1>6. /\ EscrowOwes[k] = IF Owed(k) THEN jobs[k].price ELSE 0
      /\ EscrowOwes'[k] = IF Owed(k)' THEN jobs'[k].price ELSE 0
    BY DEF EscrowOwes
<1> QED
    BY <1>2, <1>3, <1>4, <1>5, <1>6

\* One job whose price and window stand, as the promise sees it.
LEMMA SameDealSeen ==
    ASSUME IInv, IInv', MoneyInv, MoneyInv', NEW k \in JobIds,
           \A j \in JobIds \ {k} : jobs'[j] = jobs[j] /\ (InSettle(j)' <=> InSettle(j)),
           jobs'[k].price = jobs[k].price, jobs'[k].settleAfter = jobs[k].settleAfter
    PROVE  UNCHANGED <<JobPrices, JobWindows>>
BY OneJobSeen DEF JobPrices, JobWindows

LEMMA NothingSeen ==
    ASSUME MoneyInv, MoneyInv', UNCHANGED <<jobs, callStack>>
    PROVE  UNCHANGED <<JobStages, JobPrices, JobWindows, balance[Escrow]>>
<1>1. EscrowOwes' = EscrowOwes
    BY DEF EscrowOwes, Owed, InSettle
<1>2. \A j \in JobIds : Stage(j)' = Stage(j)
    BY DEF Stage, Exists, InSettle
<1> QED
    BY <1>1, <1>2 DEF MoneyInv, MoneyAccounted, JobStages, JobPrices, JobWindows

LEMMA InitKeepsPromise == Init => Promise!Init
<1> SUFFICES ASSUME Init
             PROVE  Promise!Init
    OBVIOUS
<1>1. \A j \in JobIds : jobs[j] = NoJob
    BY DEF Init, JobInit
<1>2. NoJob.buyer = NoAddress /\ NoJob.price = 0 /\ NoJob.settleAfter = 0
    BY DEF NoJob
<1>3. \A j \in JobIds : Stage(j) = "none"
    BY <1>1, <1>2 DEF Stage, Exists
<1>4. now = 1 /\ balance[Escrow] = 0
    BY AccountsApart DEF Init, ChainInit, StableTokenInit
<1> QED
    BY <1>1, <1>2, <1>3, <1>4 DEF Promise!Init

LEMMA CreatePromised ==
    ASSUME IInv, IInv', MoneyInv, MoneyInv', Create
    PROVE  \E j \in JobIds, p \in Prices : Promise!Agree(j, p) \/ Promise!AgreeAndPay(j, p)
<1>1. PICK k \in JobIds :
        /\ ~Exists(k) /\ jobs[k].status = "CREATED"
        /\ jobs'[k].status \in {"CREATED", "FUNDED"}
        /\ jobs'[k].buyer # NoAddress /\ jobs'[k].price \in Prices
        /\ jobs'[k].settleAfter = jobs[k].settleAfter
        /\ \A j \in JobIds \ {k} : jobs'[j] = jobs[j]
        /\ UNCHANGED <<now, callStack>>
    BY CreateChange
<1>2. PICK p \in Prices : p = jobs'[k].price
    BY <1>1
<1>3. /\ \A j \in JobIds : InSettle(j)' <=> InSettle(j)
      /\ ~InSettle(k) /\ ~InSettle(k)'
    BY <1>1 DEF InSettle, IInv, WaitingWellFormed
<1>4. /\ JobStages' = [JobStages EXCEPT ![k] = Stage(k)']
      /\ JobPrices' = [JobPrices EXCEPT ![k] = p]
      /\ JobWindows' = [JobWindows EXCEPT ![k] = jobs'[k].settleAfter]
      /\ balance'[Escrow] = balance[Escrow] - EscrowOwes[k] + EscrowOwes'[k]
      /\ balance[Escrow] \in Nat
      /\ EscrowOwes[k] = IF Owed(k) THEN jobs[k].price ELSE 0
      /\ EscrowOwes'[k] = IF Owed(k)' THEN p ELSE 0
      /\ p \in Nat
    BY <1>1, <1>2, <1>3, OneJobSeen
<1>5. JobWindows' = JobWindows
    BY <1>1, <1>4 DEF JobWindows
<1>6. JobStages[k] = "none" /\ Exists(k)'
    BY <1>1 DEF JobStages, Stage, Exists
<1>7. ~Owed(k)
    BY <1>1 DEF Owed
<1>8. CASE jobs'[k].status = "CREATED"
    <2>1. Stage(k)' = "agreed" /\ ~Owed(k)'
        BY <1>3, <1>6, <1>8 DEF Stage, Owed
    <2>2. balance'[Escrow] = balance[Escrow]
        BY <1>4, <1>7, <2>1
    <2>3. Promise!Agree(k, p)
        BY <1>1, <1>4, <1>5, <1>6, <2>1, <2>2
        DEF Promise!Agree, Promise!Become, JobStages, JobPrices, JobWindows
    <2> QED
        BY <2>3
<1>9. CASE jobs'[k].status = "FUNDED"
    <2>1. Stage(k)' = "held" /\ Owed(k)'
        BY <1>3, <1>6, <1>9 DEF Stage, Owed
    <2>2. balance'[Escrow] = balance[Escrow] + p
        BY <1>4, <1>7, <2>1
    <2>3. Promise!AgreeAndPay(k, p)
        BY <1>1, <1>4, <1>5, <1>6, <2>1, <2>2
        DEF Promise!AgreeAndPay, Promise!Become, JobStages, JobPrices, JobWindows
    <2> QED
        BY <2>3
<1> QED
    BY <1>1, <1>8, <1>9

LEMMA FundPromised ==
    ASSUME IInv, IInv', MoneyInv, MoneyInv', FundStep
    PROVE  \E j \in JobIds : Promise!Pay(j)
<1>1. PICK k \in JobIds :
        /\ Exists(k) /\ jobs[k].status = "CREATED" /\ jobs'[k].status = "FUNDED"
        /\ jobs'[k].buyer = jobs[k].buyer /\ jobs'[k].price = jobs[k].price
        /\ jobs'[k].settleAfter = jobs[k].settleAfter
        /\ \A j \in JobIds \ {k} : jobs'[j] = jobs[j]
        /\ UNCHANGED <<now, callStack>>
    BY FundChange
<1>2. /\ \A j \in JobIds : InSettle(j)' <=> InSettle(j)
      /\ ~InSettle(k) /\ ~InSettle(k)'
    BY <1>1 DEF InSettle, IInv, WaitingWellFormed
<1>3. Stage(k) = "agreed" /\ Stage(k)' = "held" /\ ~Owed(k) /\ Owed(k)'
    BY <1>1, <1>2 DEF Stage, Exists, Owed
<1>4. /\ JobStages' = [JobStages EXCEPT ![k] = "held"]
      /\ balance'[Escrow] = balance[Escrow] + jobs[k].price
    BY <1>1, <1>2, <1>3, OneJobSeen
<1>5. UNCHANGED <<JobPrices, JobWindows>>
    BY <1>1, <1>2, SameDealSeen
<1>6. JobStages[k] = "agreed" /\ JobPrices[k] = jobs[k].price
    BY <1>3 DEF JobStages, JobPrices
<1>7. Promise!Pay(k)
    BY <1>1, <1>4, <1>5, <1>6
    DEF Promise!Pay, Promise!Become, JobStages, JobPrices, JobWindows
<1> QED
    BY <1>7

LEMMA CompletePromised ==
    ASSUME IInv, IInv', MoneyInv, MoneyInv', Complete
    PROVE  \E j \in JobIds : Promise!Claim(j)
<1>1. PICK k \in JobIds :
        /\ jobs[k].status = "FUNDED" /\ jobs'[k].status = "COMPLETED"
        /\ jobs'[k].buyer = jobs[k].buyer /\ jobs'[k].price = jobs[k].price
        /\ jobs'[k].settleAfter = now + ChallengeWindow
        /\ \A j \in JobIds \ {k} : jobs'[j] = jobs[j]
        /\ UNCHANGED <<now, callStack>>
    BY CompleteChange
<1>2. Exists(k)
    BY <1>1, StatusExists DEF IInv
<1>3. /\ \A j \in JobIds : InSettle(j)' <=> InSettle(j)
      /\ ~InSettle(k) /\ ~InSettle(k)'
    BY <1>1 DEF InSettle, IInv, WaitingWellFormed
<1>4. Stage(k) = "held" /\ Stage(k)' = "claimed" /\ Owed(k) /\ Owed(k)'
    BY <1>1, <1>2, <1>3 DEF Stage, Exists, Owed
<1>5. /\ JobStages' = [JobStages EXCEPT ![k] = "claimed"] /\ JobStages[k] = "held"
      /\ JobPrices' = [JobPrices EXCEPT ![k] = jobs[k].price]
      /\ JobWindows' = [JobWindows EXCEPT ![k] = now + ChallengeWindow]
      /\ balance'[Escrow] = balance[Escrow]
    BY <1>1, <1>3, <1>4, OneJobSeen DEF JobStages
<1>6. JobPrices' = JobPrices
    BY <1>5 DEF JobPrices
<1>7. Promise!Claim(k)
    BY <1>1, <1>5, <1>6 DEF Promise!Claim, Promise!Become, JobStages, JobPrices, JobWindows
<1> QED
    BY <1>7

LEMMA DisputePromised ==
    ASSUME IInv, IInv', MoneyInv, MoneyInv', Dispute
    PROVE  \E j \in JobIds : Promise!Contest(j)
<1>1. PICK k \in JobIds :
        /\ jobs[k].status = "COMPLETED" /\ now < jobs[k].settleAfter
        /\ jobs'[k].status = "DISPUTED"
        /\ jobs'[k].buyer = jobs[k].buyer /\ jobs'[k].price = jobs[k].price
        /\ jobs'[k].settleAfter = jobs[k].settleAfter
        /\ \A j \in JobIds \ {k} : jobs'[j] = jobs[j]
        /\ UNCHANGED <<now, callStack>>
    BY DisputeChange
<1>2. Exists(k)
    BY <1>1, StatusExists DEF IInv
<1>3. /\ \A j \in JobIds : InSettle(j)' <=> InSettle(j)
      /\ ~InSettle(k)'
    BY <1>1 DEF InSettle, IInv, WaitingWellFormed
<1>4. Stage(k) = "claimed" /\ Stage(k)' = "contested" /\ Owed(k) /\ Owed(k)'
    BY <1>1, <1>2, <1>3 DEF Stage, Exists, Owed
<1>5. /\ JobStages' = [JobStages EXCEPT ![k] = "contested"]
      /\ balance'[Escrow] = balance[Escrow]
    BY <1>1, <1>3, <1>4, OneJobSeen
<1>6. UNCHANGED <<JobPrices, JobWindows>>
    BY <1>1, <1>3, SameDealSeen
<1>7. JobStages[k] = "claimed" /\ now < JobWindows[k]
    BY <1>1, <1>4 DEF JobStages, JobWindows
<1>8. Promise!Contest(k)
    BY <1>1, <1>5, <1>6, <1>7
    DEF Promise!Contest, Promise!Become, JobStages, JobPrices, JobWindows
<1> QED
    BY <1>8

\* The money moves in the first half of a settle.
LEMMA BeginSettlePromised ==
    ASSUME IInv, IInv', MoneyInv, MoneyInv', NEW k \in JobIds, BeginSettle(k)
    PROVE  Promise!PayRobot(k)
<1>1. /\ jobs[k].status = "COMPLETED" /\ now >= jobs[k].settleAfter /\ ~InSettle(k)
      /\ callStack' = Append(callStack, k)
      /\ UNCHANGED <<now, jobs>>
    BY BeginSettleChange
<1>2. Exists(k)
    BY <1>1, StatusExists DEF IInv
<1>3. /\ \A j \in JobIds \ {k} : InSettle(j)' <=> InSettle(j)
      /\ InSettle(k)'
    BY <1>1, PushedWaits DEF IInv, TypeOK
<1>4. Stage(k) = "claimed" /\ Stage(k)' = "paid" /\ Owed(k) /\ ~Owed(k)'
    BY <1>1, <1>2, <1>3 DEF Stage, Exists, Owed
<1>5. /\ JobStages' = [JobStages EXCEPT ![k] = "paid"]
      /\ balance'[Escrow] = balance[Escrow] - jobs[k].price
    BY <1>1, <1>3, <1>4, OneJobSeen
<1>6. UNCHANGED <<JobPrices, JobWindows>>
    BY <1>1, <1>3, SameDealSeen
<1>7. JobStages[k] = "claimed" /\ JobPrices[k] = jobs[k].price /\ now >= JobWindows[k]
    BY <1>1, <1>4 DEF JobStages, JobPrices, JobWindows
<1> QED
    BY <1>1, <1>5, <1>6, <1>7
    DEF Promise!PayRobot, Promise!Become, JobStages, JobPrices, JobWindows

\* The second half is no step of the promise.
LEMMA FinishSettlePromised ==
    ASSUME IInv, IInv', MoneyInv, MoneyInv', NEW k \in JobIds, FinishSettle(k)
    PROVE  UNCHANGED <<now, JobStages, JobPrices, JobWindows, balance[Escrow]>>
<1>1. /\ InSettle(k) /\ jobs[k].status = "COMPLETED" /\ jobs'[k].status = "SETTLED"
      /\ jobs'[k].buyer = jobs[k].buyer /\ jobs'[k].price = jobs[k].price
      /\ jobs'[k].settleAfter = jobs[k].settleAfter
      /\ \A j \in JobIds : InSettle(j)' <=> InSettle(j) /\ j # k
      /\ \A j \in JobIds \ {k} : jobs'[j] = jobs[j]
      /\ UNCHANGED now
    BY FinishSettleChange
<1>2. Exists(k)
    BY <1>1, StatusExists DEF IInv
<1>3. Stage(k) = "paid" /\ Stage(k)' = "paid" /\ ~Owed(k) /\ ~Owed(k)'
    BY <1>1, <1>2 DEF Stage, Exists, Owed
<1>4. /\ JobStages' = [JobStages EXCEPT ![k] = "paid"]
      /\ UNCHANGED <<JobPrices, JobWindows>>
      /\ balance'[Escrow] = balance[Escrow]
    BY <1>1, <1>3, OneJobSeen, SameDealSeen
<1>5. JobStages' = JobStages
    BY <1>3, <1>4 DEF JobStages
<1> QED
    BY <1>1, <1>4, <1>5

LEMMA FaultPromised ==
    ASSUME IInv, IInv', MoneyInv, MoneyInv', NEW k \in JobIds, NEW v \in Verdicts,
           ResolveFault(k, v)
    PROVE  Promise!RefundBuyer(k)
<1>1. /\ callStack = <<>> /\ UNCHANGED <<now, callStack>>
      /\ jobs[k].status = "DISPUTED" /\ jobs'[k].status = "REFUNDED"
      /\ jobs'[k].buyer = jobs[k].buyer /\ jobs'[k].price = jobs[k].price
      /\ jobs'[k].settleAfter = jobs[k].settleAfter
      /\ \A j \in JobIds \ {k} : jobs'[j] = jobs[j]
    BY FaultChange
<1>2. Exists(k)
    BY <1>1, StatusExists DEF IInv
<1>3. \A j \in JobIds : ~InSettle(j) /\ ~InSettle(j)'
    BY <1>1 DEF InSettle
<1>4. Stage(k) = "contested" /\ Stage(k)' = "refunded" /\ Owed(k) /\ ~Owed(k)'
    BY <1>1, <1>2, <1>3 DEF Stage, Exists, Owed
<1>5. /\ JobStages' = [JobStages EXCEPT ![k] = "refunded"]
      /\ balance'[Escrow] = balance[Escrow] - jobs[k].price
    BY <1>1, <1>3, <1>4, OneJobSeen
<1>6. UNCHANGED <<JobPrices, JobWindows>>
    BY <1>1, <1>3, SameDealSeen
<1>7. JobStages[k] = "contested" /\ JobPrices[k] = jobs[k].price
    BY <1>4 DEF JobStages, JobPrices
<1> QED
    BY <1>1, <1>5, <1>6, <1>7
    DEF Promise!RefundBuyer, Promise!Become, JobStages, JobPrices, JobWindows

LEMMA StepKeepsPromise ==
    ASSUME IInv, IInv', MoneyInv, MoneyInv', [Next]_vars
    PROVE  [Promise!Next]_(Promise!vars)
<1>1. CASE Tick
    <2>1. now' > now /\ UNCHANGED <<jobs, callStack>>
        BY <1>1 DEF Tick, NextBlock, jobVars, IInv, TypeOK
    <2>2. Promise!Advance
        BY <2>1, NothingSeen DEF Promise!Advance, JobStages, JobPrices, JobWindows
    <2> QED
        BY <2>2 DEF Promise!Next
<1>2. CASE \/ IdentityStep \/ BondStep \/ StakingStep \/ UNCHANGED vars
           \/ \E k \in JobIds : ResolveValid(k)
    <2>1. UNCHANGED <<jobs, callStack>>
        BY <1>2, OtherChange, ValidChange
    <2>2. now' = now
        <3>1. CASE IdentityStep
            BY <3>1 DEF IdentityStep, RegisterRobot, chainVars
        <3>2. CASE BondStep
            BY <3>2 DEF BondStep, Deposit, Withdraw, chainVars
        <3>3. CASE StakingStep
            BY <3>3 DEF StakingStep, Stake, RequestUnlock, CancelUnlock, Unstake, chainVars
        <3>4. CASE UNCHANGED vars
            BY <3>4 DEF vars, chainVars
        <3>5. CASE \E k \in JobIds : ResolveValid(k)
            BY <3>5 DEF ResolveValid, chainVars
        <3> QED
            BY <1>2, <3>1, <3>2, <3>3, <3>4, <3>5
    <2> QED
        BY <2>1, <2>2, NothingSeen DEF Promise!vars, JobStages, JobPrices, JobWindows
<1>3. CASE Create
    BY <1>3, CreatePromised DEF Promise!Next
<1>4. CASE FundStep
    BY <1>4, FundPromised DEF Promise!Next
<1>5. CASE Complete
    BY <1>5, CompletePromised DEF Promise!Next
<1>6. CASE \E k \in JobIds : BeginSettle(k)
    BY <1>6, BeginSettlePromised DEF Promise!Next
<1>7. CASE \E k \in JobIds : FinishSettle(k)
    BY <1>7, FinishSettlePromised DEF Promise!vars, JobStages, JobPrices, JobWindows
<1>8. CASE Dispute
    BY <1>8, DisputePromised DEF Promise!Next
<1>9. CASE \E k \in JobIds, v \in Verdicts : ResolveFault(k, v)
    BY <1>9, FaultPromised DEF Promise!Next
<1> QED
    BY <1>1, <1>2, <1>3, <1>4, <1>5, <1>6, <1>7, <1>8, <1>9, StepCases

\* The contracts implement EscrowPromise: a price comes out of the pot once, to the robot
\* only after an uncontested window, to the buyer only after a dispute opened inside it.
THEOREM EscrowKeepsPromise == Spec => ImplementsPromise
<1>1. Init => Promise!Init
    BY InitKeepsPromise
<1>2. IInv /\ MoneyInv /\ (IInv /\ MoneyInv)' /\ [Next]_vars => [Promise!Next]_(Promise!vars)
    BY StepKeepsPromise
<1> QED
    BY <1>1, <1>2, MoneyAlways, PTL DEF Spec, ImplementsPromise, Promise!Spec

-------------------------------------------------------------------------------
(* Quotes *)

\* The SDK's penalty for a count is the ledger's, with the cap and the count exchanged.
LEMMA ScoresEqual ==
    \A d, s \in Nat : CalculateReliabilityScore(d, s) = ScoreOf(d, s)
<1> SUFFICES ASSUME NEW d \in Nat, NEW s \in Nat
             PROVE  CalculateReliabilityScore(d, s) = ScoreOf(d, s)
    OBVIOUS
<1>1. CappedPenalty(d, 500) = Penalty(5000, d * 500)
    BY DEF CappedPenalty, Penalty
<1>2. CappedPenalty(s, 1000) = Penalty(5000, s * 1000)
    BY DEF CappedPenalty, Penalty
<1> QED
    BY <1>1, <1>2 DEF CalculateReliabilityScore, ScoreOf

\* What the ledger answers for a robot is what the SDK computes from its counts: the
\* score that is kept is the one of the last record.
ScoreFollowsCounts(rep) ==
    ReliabilityScoreBps(rep) = ScoreOf(rep.totalDisputes, rep.totalSlashes)

ScoresFollow == \A r \in Robots : ScoreFollowsCounts(reputation[r])

LEMMA RecordsRescore ==
    ASSUME NEW rep \in ReputationType
    PROVE  /\ ScoreFollowsCounts(RecordJobComplete(rep))
           /\ ScoreFollowsCounts(RecordSlash(RecordDispute(rep)))
<1>1. ASSUME NEW new \in ReputationType,
             new.totalJobs # 0 \/ new.totalSlashes # 0,
             new.reliabilityScoreBps = ScoreOf(new.totalDisputes, new.totalSlashes)
      PROVE  ScoreFollowsCounts(new)
    BY <1>1 DEF ScoreFollowsCounts, ReliabilityScoreBps
<1>2. /\ RecordJobComplete(rep).totalJobs # 0
      /\ RecordJobComplete(rep).reliabilityScoreBps =
            ScoreOf(RecordJobComplete(rep).totalDisputes, RecordJobComplete(rep).totalSlashes)
    BY DEF RecordJobComplete, Rescored, ReputationType
<1>3. /\ RecordSlash(RecordDispute(rep)).totalSlashes # 0
      /\ RecordSlash(RecordDispute(rep)).reliabilityScoreBps =
            ScoreOf(RecordSlash(RecordDispute(rep)).totalDisputes,
                    RecordSlash(RecordDispute(rep)).totalSlashes)
    BY DEF RecordSlash, RecordDispute, Rescored, ReputationType
<1>4. RecordJobComplete(rep) \in ReputationType
    BY RecordsType
<1>5. RecordDispute(rep) \in ReputationType
    BY RecordsType
<1>6. RecordSlash(RecordDispute(rep)) \in ReputationType
    BY <1>5, RecordsType
<1> QED
    BY <1>1, <1>2, <1>3, <1>4, <1>6

LEMMA ScoresInit == Init => ScoresFollow
<1> SUFFICES ASSUME Init, NEW r \in Robots
             PROVE  ScoreFollowsCounts(reputation[r])
    BY DEF ScoresFollow
<1>1. ScoreOf(0, 0) = 10000
    BY DEF ScoreOf, Penalty
<1> QED
    BY <1>1 DEF Init, ReputationInit, ScoreFollowsCounts, ReliabilityScoreBps

LEMMA ScoresStep ==
    ASSUME IInv, ScoresFollow, [Next]_vars
    PROVE  ScoresFollow'
<1> SUFFICES ASSUME NEW q \in Robots
             PROVE  ScoreFollowsCounts(reputation'[q])
    BY DEF ScoresFollow
<1>1. reputation \in [Robots -> ReputationType]
    BY DEF IInv, TypeOK
<1>2. ScoreFollowsCounts(reputation[q])
    BY DEF ScoresFollow
<1>3. ASSUME NEW k, FinishSettle(k)
      PROVE  reputation'[q] = reputation[q] \/ reputation'[q] = RecordJobComplete(reputation[q])
    <2>1. PICK r : r = jobs[k].robotId
        OBVIOUS
    <2>2. \/ reputation' = reputation
          \/ reputation' = [reputation EXCEPT ![r] = RecordJobComplete(@)]
        BY <1>3, <2>1 DEF FinishSettle, SettleFinish, ReputationAfterSettle
    <2> QED
        BY <1>1, <2>2
<1>4. ASSUME NEW k, NEW v, ResolveFault(k, v)
      PROVE  \/ reputation'[q] = reputation[q]
             \/ reputation'[q] = RecordSlash(RecordDispute(reputation[q]))
    <2>1. PICK r : r = jobs[k].robotId
        OBVIOUS
    <2>2. \/ reputation' = reputation
          \/ reputation' = [reputation EXCEPT ![r] = RecordSlash(RecordDispute(@))]
        BY <1>4, <2>1 DEF ResolveFault, ReputationAfterFault
    <2> QED
        BY <1>1, <2>2
<1>5. CASE \/ \E k \in JobIds : FinishSettle(k)
           \/ \E k \in JobIds, v \in Verdicts : ResolveFault(k, v)
    BY <1>1, <1>2, <1>3, <1>4, <1>5, RecordsRescore
<1>6. CASE \/ Tick \/ IdentityStep \/ BondStep \/ StakingStep \/ UNCHANGED vars
           \/ Create \/ FundStep \/ Complete \/ Dispute
           \/ \E k \in JobIds : BeginSettle(k)
           \/ \E k \in JobIds : ResolveValid(k)
    BY <1>2, <1>6, ReputationKept
<1> QED
    BY <1>5, <1>6, StepCases

\* Whatever price, quality and work a quote or an estimate is made for, it is what the
\* contracts will take, keep and pay; the first three are the same formulas.
LEMMA QuotesAgree ==
    /\ \A price : /\ CalculateMinBond(price) = MinBond(price)
                  /\ CalculateSettlement(price) = [fee |-> Fee(price), payout |-> Payout(price)]
    /\ \A units, score, bps :
        EstimateReward(BaseReward, units, score, bps) =
            Reward(score, units, ReliabilityMultiplier(bps))
<1>1. SdkConstants.maxReliabilityMult - SdkConstants.minReliabilityMult = 10000
      /\ SdkConstants.minReliabilityMult = 5000 /\ 10000 * 10000 = 100000000
    BY DEF SdkConstants
<1>2. ASSUME NEW units, NEW score, NEW bps
      PROVE  EstimateReward(BaseReward, units, score, bps) =
                Reward(score, units, ReliabilityMultiplier(bps))
    <2>1. CalculateQualityMultiplier(score) = QualityMultiplier(score)
        BY DEF CalculateQualityMultiplier, QualityMultiplier, SdkConstants
    <2>2. CalculateReliabilityMultiplier(bps) = ReliabilityMultiplier(bps)
        BY <1>1 DEF CalculateReliabilityMultiplier, ReliabilityMultiplier
    <2> QED
        BY <1>1, <2>1, <2>2 DEF EstimateReward, Reward
<1> QED
    BY <1>2 DEF CalculateMinBond, MinBond, CalculateSettlement, Fee, Payout, SdkConstants

LEMMA QuotedTerms ==
    \A q \in AskedQuotes : /\ q.minBond = CalculateMinBond(q.price)
                           /\ q.fee = CalculateSettlement(q.price).fee
                           /\ q.payout = CalculateSettlement(q.price).payout
BY DEF AskedQuotes, Quote

\* The multipliers stay in their ranges, and a score loses no more than the penalties.
LEMMA QualityInRange ==
    ASSUME NEW score \in ComparedScores
    PROVE  QualityMultiplier(score) \in QualityRange
<1>1. QualityRange = 8000..12000
    BY DEF QualityRange, SdkConstants
<1>2. QualityMultiplier(score) \in 8000..12000
    BY DEF ComparedScores, QualityMultiplier
<1> QED
    BY <1>1, <1>2

LEMMA ReliabilityInRange ==
    \A bps \in BasisPoints :
        /\ ReliabilityMultiplier(bps) \in ReliabilityRange
        /\ CalculateReliabilityMultiplier(bps) = ReliabilityMultiplier(bps)
        /\ 10000 - bps <= MaxPenalties
<1> SUFFICES ASSUME NEW bps \in BasisPoints
             PROVE  /\ ReliabilityMultiplier(bps) \in ReliabilityRange
                    /\ CalculateReliabilityMultiplier(bps) = ReliabilityMultiplier(bps)
                    /\ 10000 - bps <= MaxPenalties
    OBVIOUS
<1> USE DEF BasisPoints
<1>1. /\ ReliabilityRange = 5000..15000 /\ MaxPenalties = 10000
      /\ SdkConstants.maxReliabilityMult - SdkConstants.minReliabilityMult = 10000
      /\ SdkConstants.minReliabilityMult = 5000
    BY DEF ReliabilityRange, MaxPenalties, SdkConstants
<1>2. (bps * 10000) \div 10000 \in 0..10000
    OBVIOUS
<1>3. ReliabilityMultiplier(bps) \in 5000..15000
    BY <1>2 DEF ReliabilityMultiplier
<1>4. CalculateReliabilityMultiplier(bps) = ReliabilityMultiplier(bps)
    BY <1>1 DEF CalculateReliabilityMultiplier, ReliabilityMultiplier
<1>5. 10000 - bps <= 10000
    OBVIOUS
<1> QED
    BY <1>1, <1>3, <1>4, <1>5

\* A quote for a robot is what the contracts would give it now.
LEMMA RewardAsQuoted ==
    ASSUME NEW rep \in ReputationType, ScoreFollowsCounts(rep), NEW score \in ComparedScores
    PROVE  RewardHonoured(rep, score)
<1>1. rep.totalDisputes \in Nat /\ rep.totalSlashes \in Nat
    BY DEF ReputationType
<1>2. PICK bps : bps = ReliabilityScoreBps(rep)
    OBVIOUS
<1>3. bps = ScoreOf(rep.totalDisputes, rep.totalSlashes)
    BY <1>2 DEF ScoreFollowsCounts
<1>4. bps \in BasisPoints
    BY <1>1, <1>3, ScoreType
<1>5. CalculateReliabilityScore(rep.totalDisputes, rep.totalSlashes) = bps
    BY <1>1, <1>3, ScoresEqual
<1>6. PICK q : q = Quote(BaseReward, "inspection", 3, score, rep.totalDisputes, rep.totalSlashes)
    OBVIOUS
<1>7. /\ q.reward = EstimateReward(BaseReward, 3, score, bps)
      /\ q.reliabilityBps = bps
      /\ q.reliabilityMultiplier = CalculateReliabilityMultiplier(bps)
    BY <1>5, <1>6 DEF Quote
<1>8. /\ CalculateReliabilityMultiplier(bps) = ReliabilityMultiplier(bps)
      /\ ReliabilityMultiplier(bps) \in ReliabilityRange
      /\ 10000 - bps <= MaxPenalties
    BY <1>4, ReliabilityInRange
<1>9. EstimateReward(BaseReward, 3, score, bps) = Reward(score, 3, ReliabilityMultiplier(bps))
    BY QuotesAgree
<1>10. QualityMultiplier(score) \in QualityRange
    BY QualityInRange
<1>11. RewardsReputation # NoAddress => RobotMultiplier(rep) = ReliabilityMultiplier(bps)
    BY <1>2 DEF RobotMultiplier
<1>12. RobotMultiplier(rep) \in ReliabilityRange
    <2>1. 10000 \in ReliabilityRange
        BY DEF ReliabilityRange, SdkConstants
    <2> QED
        BY <1>2, <1>8, <2>1 DEF RobotMultiplier
<1> QED
    BY <1>2, <1>6, <1>7, <1>8, <1>9, <1>10, <1>11, <1>12 DEF RewardHonoured

\* Bonds, fees and payouts come out in the SDK and in quotes as in the contracts, for every
\* job; and so do rewards, for every robot at any point of its history, if the distributor
\* has a ledger to ask.
THEOREM QuotesCorrect == Spec => []QuotesMatchContracts
<1>1. IInv /\ ScoresFollow => QuotesMatchContracts
    <2> SUFFICES ASSUME IInv, ScoresFollow
                 PROVE  QuotesMatchContracts
        OBVIOUS
    <2>1. QuotesHonoured
        BY QuotedTerms, QuotesAgree DEF QuotesHonoured
    <2>2. ASSUME NEW r \in Robots, NEW score \in ComparedScores
          PROVE  RewardHonoured(reputation[r], score)
        BY RewardAsQuoted DEF ScoresFollow, IInv, TypeOK
    <2> QED
        BY <2>1, <2>2, QuotesAgree DEF QuotesMatchContracts
<1>2. Spec => []ScoresFollow
    BY ScoresInit, ScoresStep, Inductive, PTL DEF Spec
<1> QED
    BY <1>1, <1>2, Inductive, PTL

================================================================================
