--------------------------------- MODULE Market ---------------------------------
(***************************************************************************)
(* The settlement core with the offer book on top: jobs come from offers   *)
(* as well as from buyers, the listing fee leaves the supply of VRWX that  *)
(* rewards add to, and an operator may stake, list, unstake and be slashed *)
(* in any order while its offers are open.                                 *)
(***************************************************************************)
EXTENDS Settlement, OfferBook

CONSTANTS
    Durations,      \* how long a V1 offer may be open
    Expiries        \* when a V2 offer may end

ASSUME MarketAssumption == Durations \subseteq Nat /\ Expiries \subseteq Nat

\* The book creates jobs for its buyers only, and neither registers robots nor stakes.
ASSUME BookAssumption == Book \notin Buyers \cup Operators

marketVars == <<vars, offerVars>>

\* Settlement!Init, but for the book, which starts with no tokens of its own.
MarketInit ==
    /\ ChainInit /\ IdentityInit /\ BondInit /\ ReceiptInit
    /\ ReputationInit /\ JobInit /\ DisputeInit /\ StakingInit /\ OfferInit
    /\ balance = [a \in Accounts |-> IF a \in Users \ {Book} THEN InitialFunds ELSE 0]
    /\ vrwx = [a \in Accounts |-> IF a \in Users \ {Book} THEN InitialVRWX ELSE 0]

ListStep ==
    \E u \in Operators, r \in Robots, s \in JobSpecs, p \in Prices :
        \/ \E d \in Durations : CreateOffer(u, r, s, p, d)
        \/ \E e \in Expiries : CreateOfferV2(u, r, s, p, e)

CancelStep == \E u \in Operators, o \in OfferIds : CancelOffer(u, o)

BuyStep == \E u \in Buyers, o \in OfferIds : BuyOffer(u, o)

SettlementStep == Next /\ UNCHANGED offerVars

MarketNext == SettlementStep \/ ListStep \/ CancelStep \/ BuyStep

MarketSpec == MarketInit /\ [][MarketNext]_marketVars

-------------------------------------------------------------------------------
(* Safety *)

\* An offer is sold at most once, and what was sold is what was offered: the job of each
\* purchase is funded, belongs to its buyer, has the offer's robot, specification and
\* price, and was bought before the offer ended (OfferBook 142-170, 273-320; JobEscrow
\* 158-254).  No two purchases share an offer or a job.
SalesMatchJobs ==
    /\ \A p \in purchases :
        LET offer == offers[p.offer]
            job == jobs[p.job]
        IN  /\ ~offer.active
            /\ job.buyer = p.buyer
            /\ job.robotId = offer.robotId
            /\ job.jobSpecHash = offer.jobSpecHash
            /\ job.price = offer.price
            /\ job.status # "CREATED"
            /\ job.deadline < offer.expiresAt + JobExtension
    /\ \A p, q \in purchases : p.offer = q.offer \/ p.job = q.job => p = q

\* A sale is paid and covered like any other job, whatever its operator withdrew or unstaked
\* since it made the offer: the price passes through the book without a rest, all money is
\* accounted for, the bond covers every open job, and the stakes are in the gate
\* (OfferBook 142-170; JobEscrow 158-254; StakingGate 42-141).
SalesPaidAndBonded ==
    /\ balance[Book] = 0
    /\ MoneyAccounted
    /\ BondsCovered
    /\ StakesAccounted

TermsOf(offer) ==
    [robotId |-> offer.robotId, jobSpecHash |-> offer.jobSpecHash, price |-> offer.price]

BuyersOf(o) == {p.buyer : p \in {q \in purchases : q.offer = o}}

OfferStage(o) ==
    CASE offers[o].operator = NoAddress -> "none"
      [] offers[o].active               -> "open"
      [] BuyersOf(o) # {}               -> "sold"
      [] OTHER                          -> "withdrawn"

OfferBuyer(o) == IF BuyersOf(o) = {} THEN NoAddress ELSE CHOOSE b \in BuyersOf(o) : TRUE

OfferTerms == [robotId : Robots, jobSpecHash : JobSpecs, price : Prices]

OfferEnds == Expiries \cup {t + d : t \in 0..MaxTime, d \in Durations}

MayList(u) == BookStaking # NoAddress => HasMinStake(u)

MarketPromise == INSTANCE OfferPromise WITH
    Terms <- OfferTerms,
    Ends <- OfferEnds,
    NoParty <- NoAddress,
    NoTerms <- TermsOf(NoOffer),
    clock <- now,
    backed <- {u \in Operators : MayList(u)},
    stage <- [o \in OfferIds |-> OfferStage(o)],
    lister <- [o \in OfferIds |-> offers[o].operator],
    terms <- [o \in OfferIds |-> TermsOf(offers[o])],
    ends <- [o \in OfferIds |-> offers[o].expiresAt],
    buyer <- [o \in OfferIds |-> OfferBuyer(o)]

\* The book keeps the promise of an order book while jobs are bought, disputed, slashed and
\* settled around it: an offer is listed on enough stake, stands unchanged, and is sold to
\* one buyer in time or withdrawn, whatever becomes of its operator (OfferBook 79-320).
MarketImplementsPromise == MarketPromise!Spec

\* All VRWX there is.
VRWXSupply == SumFunction(vrwx)

\* The verdicts against a robot so far that its reputation knows of.
Faults(r) ==
    IF DisputeReputation = NoAddress THEN 0
    ELSE Cardinality({j \in JobIds : jobs[j].robotId = r /\ jobs[j].status = "REFUNDED"})

\* What its faults leave of a robot's multiplier, in basis points: each is a lost dispute
\* and a slash, at 5% and at 10%, and neither kind costs more than 50%.  A distributor
\* that knows no ledger pays everybody the same.
MultiplierLeft(faults) ==
    LET Capped(loss) == IF loss > 5000 THEN 5000 ELSE loss
    IN  IF RewardsReputation = NoAddress
        THEN 10000
        ELSE 15000 - Capped(500 * faults) - Capped(1000 * faults)

\* The supply of VRWX changes in two ways.  Listing an offer burns the fee, once; closing
\* the settlement of a job with work units mints its reward, once, at the reliability that
\* the faults decided against the robot leave it.  Staking, unlocking, slashing and
\* selling only move tokens (FeeRouter 73-78, RewardsDistributor 66-100, StakingGate).
VRWXSupplyJustified ==
    [][\/ VRWXSupply' = VRWXSupply
       \/ /\ offerCount' = offerCount + 1
          /\ VRWXSupply' = VRWXSupply - ListingFee
       \/ \E j \in JobIds :
            /\ jobs[j].status = "COMPLETED"
            /\ jobs'[j].status = "SETTLED"
            /\ jobs[j].workUnits # 0
            /\ VRWXSupply' = VRWXSupply +
                    (BaseReward * jobs[j].workUnits * QualityMultiplier(jobs[j].qualityScore)
                        * MultiplierLeft(Faults(jobs[j].robotId))) \div 100000000
      ]_vrwx

\* A funded job that missed its deadline never changes again, though it was perhaps funded
\* after it: its price is frozen in the escrow, but nobody is paid for late work
\* (JobEscrow 344-377).
ExpiredJobFrozen ==
    [][\A j \in JobIds :
        jobs[j].status = "FUNDED" /\ now > jobs[j].deadline =>
            /\ jobs'[j] = jobs[j]
            /\ balance'[Escrow] >= jobs[j].price]_marketVars
================================================================================
