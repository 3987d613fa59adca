------------------------------ MODULE MarketProofs ------------------------------
(***************************************************************************)
(* What holds of Market for every number of users, robots, jobs and        *)
(* offers, whatever stakes and fees the deployment asks for.               *)
(*                                                                         *)
(* Sales: every sale has the job it paid for, as its offer said, and the   *)
(* sums of SettlementMoneyProofs still hold with the book above the core,  *)
(* for a purchase is a creation and a funding in one.  A funded job that   *)
(* has expired is in nobody's hands.                                       *)
(*                                                                         *)
(* The argument for the promise: the settlement core moves time and stakes *)
(* and never touches the book, so its steps are steps of the clock or of   *)
(* the operators' backing; and of the book it is enough to know that       *)
(* offers past the counter are blank and that an offer of a purchase is    *)
(* not for sale any more.                                                  *)
(*                                                                         *)
(* The supply of VRWX: the ledger knows every verdict that its disputes    *)
(* record, so a robot's multiplier is what its faults leave; and every     *)
(* step moves an amount between two accounts, burns one or mints one.      *)
(***************************************************************************)
EXTENDS Market, SettlementMoneyProofs

OfferType ==
    [operator : Operators \cup {NoAddress}, robotId : Robots \cup {NoHash},
     jobSpecHash : JobSpecs \cup {NoHash}, price : Prices \cup {0},
     expiresAt : Nat, active : BOOLEAN]

\* An offer that was made, on the book or not any more.
ListedType ==
    [operator : Operators, robotId : Robots, jobSpecHash : JobSpecs, price : Prices,
     expiresAt : Nat, active : BOOLEAN]

BookInv ==
    /\ now \in 0..MaxTime
    /\ offerCount \in Nat
    /\ offers \in [OfferIds -> OfferType]
    /\ \A o \in OfferIds : o > offerCount => offers[o] = NoOffer
    /\ \A o \in OfferIds : offers[o].active => offers[o] \in ListedType
    /\ \A p \in purchases :
        /\ p.offer \in OfferIds
        /\ ~offers[p.offer].active
        /\ offers[p.offer].operator # NoAddress

-------------------------------------------------------------------------------
(* The steps of the settlement core *)

LEMMA OperatorsExist == Operators \subseteq Users /\ NoAddress \notin Operators
BY AmountsAssumption, AddressesAssumption

\* Only Tick moves the clock, and it moves nothing else.
LEMMA ClockMovesAlone ==
    ASSUME Next
    PROVE  now' = now \/ Tick
<1>1. CASE IdentityStep
    BY <1>1 DEF IdentityStep, RegisterRobot, chainVars
<1>2. CASE BondStep
    BY <1>2 DEF BondStep, Deposit, Withdraw, chainVars
<1>3. CASE Create
    BY <1>3 DEF Create, CreateJob, CreateAndFundJobFor, OpenJob, chainVars
<1>4. CASE FundStep
    BY <1>4 DEF FundStep, Fund, chainVars
<1>5. CASE Complete
    BY <1>5 DEF Complete, SubmitCompletion, SubmitCompletionV2, AcceptClaim, chainVars
<1>6. ASSUME NEW j \in JobIds, BeginSettle(j) \/ FinishSettle(j)
      PROVE  now' = now
    BY <1>6 DEF BeginSettle, SettleBegin, SettleGuard, FinishSettle, SettleFinish
<1>7. CASE Dispute
    BY <1>7 DEF Dispute, OpenDispute, chainVars
<1>8. CASE Resolve
    BY <1>8 DEF Resolve, ResolveFault, ResolveValid, chainVars
<1>9. CASE StakingStep
    BY <1>9 DEF StakingStep, Stake, RequestUnlock, CancelUnlock, Unstake, chainVars
<1> QED
    BY <1>1, <1>2, <1>3, <1>4, <1>5, <1>6, <1>7, <1>8, <1>9 DEF Next

-------------------------------------------------------------------------------
(* The invariant of the book *)

LEMMA BookInitInv == MarketInit => BookInv
<1> SUFFICES ASSUME MarketInit
    PROVE  BookInv
    OBVIOUS
<1>1. now = 1 /\ offerCount = 0 /\ purchases = {}
    BY DEF MarketInit, ChainInit, OfferInit
<1>2. offers = [o \in OfferIds |-> NoOffer] /\ NoOffer \in OfferType /\ ~NoOffer.active
    BY DEF MarketInit, OfferInit, NoOffer, OfferType
<1>3. 1 \in 0..MaxTime
    BY MaxTimeAssumption
<1> QED
    BY <1>1, <1>2, <1>3 DEF BookInv

\* What the book's own steps change.
LEMMA ListChanges ==
    ASSUME BookInv, NEW u \in Operators, NEW r \in Robots, NEW s \in JobSpecs, NEW p \in Prices,
           NEW e \in OfferEnds, ListOffer(u, r, s, p, e)
    PROVE  /\ offerCount + 1 \in OfferIds
           /\ offerCount' = offerCount + 1
           /\ offers' = [offers EXCEPT ![offerCount + 1] =
                [operator |-> u, robotId |-> r, jobSpecHash |-> s, price |-> p,
                 expiresAt |-> e, active |-> TRUE]]
           /\ UNCHANGED <<now, stakes, purchases>>
           /\ MayList(u)
<1>1. offerCount + 1 \in OfferIds
    BY OfferAssumption DEF ListOffer, BookInv, OfferIds
<1> QED
    BY <1>1 DEF ListOffer, chainVars, MayList

LEMMA EndsAreTimes == OfferEnds \subseteq Nat
<1>1. ASSUME NEW t \in 0..MaxTime, NEW d \in Durations
      PROVE  t + d \in Nat
    <2>1. t \in Nat /\ d \in Nat
        BY MarketAssumption, MaxTimeAssumption
    <2> QED
        BY <2>1
<1>2. ASSUME NEW e \in OfferEnds, e \notin Expiries
      PROVE  e \in Nat
    <2>1. e \in {t + d : t \in 0..MaxTime, d \in Durations}
        BY <1>2 DEF OfferEnds
    <2>2. PICK t \in 0..MaxTime, d \in Durations : e = t + d
        BY <2>1
    <2> QED
        BY <1>1, <2>2
<1> QED
    BY <1>2, MarketAssumption

LEMMA ListStepLists ==
    ASSUME BookInv, ListStep
    PROVE  \E u \in Operators, r \in Robots, s \in JobSpecs, p \in Prices, e \in OfferEnds :
                ListOffer(u, r, s, p, e)
<1>1. PICK u \in Operators, r \in Robots, s \in JobSpecs, p \in Prices :
        \/ \E d \in Durations : CreateOffer(u, r, s, p, d)
        \/ \E e \in Expiries : CreateOfferV2(u, r, s, p, e)
    BY DEF ListStep
<1>2. ASSUME NEW d \in Durations, CreateOffer(u, r, s, p, d)
      PROVE  \E e \in OfferEnds : ListOffer(u, r, s, p, e)
    <2>1. now + d \in OfferEnds
        BY DEF OfferEnds, BookInv
    <2> QED
        BY <1>2, <2>1 DEF CreateOffer
<1>3. ASSUME NEW e \in Expiries, CreateOfferV2(u, r, s, p, e)
      PROVE  \E x \in OfferEnds : ListOffer(u, r, s, p, x)
    BY <1>3 DEF CreateOfferV2, OfferEnds
<1> QED
    BY <1>1, <1>2, <1>3

\* Taking an offer off the book leaves its terms, and the other offers, as they were.
LEMMA UnlistedOffer ==
    ASSUME offers \in [OfferIds -> OfferType], NEW o \in OfferIds
    PROVE  /\ Unlisted(o) \in [OfferIds -> OfferType]
           /\ Unlisted(o)[o] = [offers[o] EXCEPT !.active = FALSE]
           /\ Unlisted(o)[o] \in OfferType
           /\ ~Unlisted(o)[o].active
           /\ Unlisted(o)[o].operator = offers[o].operator
           /\ \A x \in OfferIds : x # o => Unlisted(o)[x] = offers[x]
<1> DEFINE off == [offers[o] EXCEPT !.active = FALSE]
<1>1. Unlisted(o) = [offers EXCEPT ![o] = off]
    BY Zenon DEF Unlisted
<1>2. off \in OfferType /\ ~off.active /\ off.operator = offers[o].operator
    BY DEF OfferType
<1> HIDE DEF off
<1>3. /\ [offers EXCEPT ![o] = off] \in [OfferIds -> OfferType]
      /\ [offers EXCEPT ![o] = off][o] = off
      /\ \A x \in OfferIds : x # o => [offers EXCEPT ![o] = off][x] = offers[x]
    BY <1>2
<1> QED
    BY <1>1, <1>2, <1>3 DEF off

LEMMA BookStepKeeps == BookInv /\ [MarketNext]_marketVars => BookInv'
<1> SUFFICES ASSUME BookInv, [MarketNext]_marketVars
    PROVE  BookInv'
    OBVIOUS
<1> USE DEF BookInv
<1>1. CASE SettlementStep
    <2>1. UNCHANGED offerVars /\ Next
        BY <1>1 DEF SettlementStep
    <2>2. now' \in 0..MaxTime
        BY <2>1, ClockMovesAlone, MaxTimeAssumption DEF Tick, NextBlock
    <2> QED
        BY <2>1, <2>2 DEF offerVars
<1>2. CASE ListStep
    <2>1. PICK u \in Operators, r \in Robots, s \in JobSpecs, p \in Prices, e \in OfferEnds :
            ListOffer(u, r, s, p, e)
        BY <1>2, ListStepLists
    <2> DEFINE n == offerCount + 1
               offer == [operator |-> u, robotId |-> r, jobSpecHash |-> s, price |-> p,
                         expiresAt |-> e, active |-> TRUE]
    <2>2. /\ n \in OfferIds
          /\ offerCount' = n
          /\ offers' = [offers EXCEPT ![n] = offer]
          /\ UNCHANGED <<now, purchases>>
        BY <2>1, ListChanges
    <2>3. offer \in OfferType /\ offer \in ListedType
        BY OperatorsExist, EndsAreTimes DEF OfferType, ListedType
    <2>4. offers[n].operator = NoAddress
        BY <2>2 DEF NoOffer
    <2> HIDE DEF offer, n
    <2>5. \A o \in OfferIds : o # n => offers'[o] = offers[o]
        BY <2>2
    <2>6. offers'[n] = offer /\ offers' \in [OfferIds -> OfferType]
        BY <2>2, <2>3
    <2>7. \A o \in OfferIds : o > n => offers'[o] = NoOffer
        BY <2>2, <2>5 DEF n, OfferIds
    <2>8. n \in Nat
        BY DEF n
    <2> QED
        BY <2>2, <2>3, <2>4, <2>5, <2>6, <2>7, <2>8
<1>3. ASSUME NEW o \in OfferIds, offers[o].active, offers' = Unlisted(o),
             UNCHANGED <<now, offerCount>>,
             purchases' \subseteq purchases \cup {x \in purchases' : x.offer = o}
      PROVE  BookInv'
    <2>1. /\ offers' \in [OfferIds -> OfferType]
          /\ ~offers'[o].active /\ offers'[o].operator = offers[o].operator
          /\ \A x \in OfferIds : x # o => offers'[x] = offers[x]
        BY <1>3, UnlistedOffer
    <2>2. o <= offerCount
        BY <1>3 DEF NoOffer, OfferIds
    <2>3. offers[o].operator # NoAddress
        BY <1>3, OperatorsExist DEF ListedType
    <2> QED
        BY <1>3, <2>1, <2>2, <2>3 DEF OfferIds
<1>4. CASE CancelStep
    <2>1. PICK u \in Operators, o \in OfferIds : CancelOffer(u, o)
        BY <1>4 DEF CancelStep
    <2> QED
        BY <1>3, <2>1 DEF CancelOffer, chainVars
<1>5. CASE BuyStep
    <2>1. PICK u \in Buyers, o \in OfferIds : BuyOffer(u, o)
        BY <1>5 DEF BuyStep
    <2>2. /\ offers[o].active /\ offers' = Unlisted(o) /\ UNCHANGED <<now, offerCount>>
          /\ purchases' = purchases \cup {[offer |-> o, buyer |-> u, job |-> jobCount + 1]}
        BY <2>1 DEF BuyOffer, IsPurchasable, OpenJob, chainVars
    <2> QED
        BY <1>3, <2>2
<1>6. CASE UNCHANGED marketVars
    BY <1>6 DEF marketVars, offerVars, vars, chainVars
<1> QED
    BY <1>1, <1>2, <1>4, <1>5, <1>6 DEF MarketNext

\* Offers past the counter are blank, an offer has an operator from the moment it is made,
\* and one that was bought is not for sale any more (OfferBook 79-320).
THEOREM BookConsistent == MarketSpec => []BookInv
BY BookInitInv, BookStepKeeps, PTL DEF MarketSpec

-------------------------------------------------------------------------------
(* The promise of the order book *)

StageFn == [o \in OfferIds |-> OfferStage(o)]
ListerFn == [o \in OfferIds |-> offers[o].operator]
TermsFn == [o \in OfferIds |-> TermsOf(offers[o])]
EndsFn == [o \in OfferIds |-> offers[o].expiresAt]
BuyerFn == [o \in OfferIds |-> OfferBuyer(o)]
BackedSet == {u \in Operators : MayList(u)}

\* What the promise sees of an offer depends on its record and its purchases alone.
LEMMA SeenOfOffer ==
    ASSUME NEW o \in OfferIds, offers'[o] = offers[o], BuyersOf(o)' = BuyersOf(o)
    PROVE  /\ OfferStage(o)' = OfferStage(o)
           /\ OfferBuyer(o)' = OfferBuyer(o)
BY DEF OfferStage, OfferBuyer

LEMMA BookUnseen ==
    ASSUME UNCHANGED <<offers, purchases>>
    PROVE  UNCHANGED <<StageFn, ListerFn, TermsFn, EndsFn, BuyerFn>>
<1>1. \A o \in OfferIds : OfferStage(o)' = OfferStage(o) /\ OfferBuyer(o)' = OfferBuyer(o)
    BY DEF OfferStage, OfferBuyer, BuyersOf
<1>2. StageFn' = StageFn /\ BuyerFn' = BuyerFn
    BY <1>1 DEF StageFn, BuyerFn
<1> QED
    BY <1>2 DEF ListerFn, TermsFn, EndsFn

\* An offer that is open, or not yet made, was sold to nobody.
LEMMA OpenHasNoBuyer ==
    ASSUME BookInv, NEW o \in OfferIds,
           offers[o].active \/ offers[o].operator = NoAddress
    PROVE  BuyersOf(o) = {} /\ OfferBuyer(o) = NoAddress
BY DEF BookInv, BuyersOf, OfferBuyer

LEMMA InitPromised == MarketInit => MarketPromise!Init
<1> SUFFICES ASSUME MarketInit
    PROVE  MarketPromise!Init
    OBVIOUS
<1>1. BookInv /\ offers = [o \in OfferIds |-> NoOffer]
    BY BookInitInv DEF MarketInit, OfferInit
<1>2. \A o \in OfferIds : offers[o] = NoOffer /\ OfferStage(o) = "none" /\ OfferBuyer(o) = NoAddress
    BY <1>1, OpenHasNoBuyer DEF OfferStage, NoOffer
<1>3. NoOffer.operator = NoAddress /\ NoOffer.expiresAt = 0
    BY DEF NoOffer
<1> QED
    BY <1>2, <1>3 DEF MarketPromise!Init

\* The core moves the clock or the stakes.
LEMMA SettlementStepPromised ==
    ASSUME BookInv, SettlementStep
    PROVE  MarketPromise!Advance \/ MarketPromise!Back
<1>1. UNCHANGED <<StageFn, ListerFn, TermsFn, EndsFn, BuyerFn>>
    BY BookUnseen DEF SettlementStep, offerVars
<1>2. CASE now' = now
    <2>1. BackedSet' \subseteq Operators
        BY DEF BackedSet
    <2> QED
        BY <1>1, <1>2, <2>1 DEF MarketPromise!Back, MarketPromise!listing,
            StageFn, ListerFn, TermsFn, EndsFn, BuyerFn, BackedSet
<1>3. CASE Tick
    <2>1. now' > now
        BY <1>3 DEF Tick, NextBlock, BookInv
    <2>2. BackedSet' = BackedSet
        BY <1>3 DEF Tick, BackedSet, MayList, HasMinStake
    <2> QED
        BY <1>1, <2>1, <2>2 DEF MarketPromise!Advance, MarketPromise!listing,
            StageFn, ListerFn, TermsFn, EndsFn, BuyerFn, BackedSet
<1> QED
    BY <1>2, <1>3, ClockMovesAlone DEF SettlementStep

LEMMA ListStepPromised ==
    ASSUME BookInv, ListStep
    PROVE  \E o \in OfferIds, u \in Operators, t \in OfferTerms, e \in OfferEnds :
                MarketPromise!List(o, u, t, e)
<1>1. PICK u \in Operators, r \in Robots, s \in JobSpecs, p \in Prices, e \in OfferEnds :
        ListOffer(u, r, s, p, e)
    BY ListStepLists
<1> DEFINE offer == [operator |-> u, robotId |-> r, jobSpecHash |-> s, price |-> p,
                     expiresAt |-> e, active |-> TRUE]
           t == [robotId |-> r, jobSpecHash |-> s, price |-> p]
<1>0. PICK n \in OfferIds : n = offerCount + 1
    BY <1>1, ListChanges
<1>2. /\ offers' = [offers EXCEPT ![n] = offer]
      /\ UNCHANGED <<now, stakes, purchases>>
      /\ MayList(u)
    BY <1>0, <1>1, ListChanges
<1>3. /\ offer.operator = u /\ offer.active /\ offer.expiresAt = e /\ TermsOf(offer) = t
      /\ t \in OfferTerms
    BY DEF TermsOf, OfferTerms
<1>4. /\ offers[n].operator = NoAddress /\ ~offers[n].active
      /\ offers \in [OfferIds -> OfferType]
      /\ BuyersOf(n) = {}
    BY <1>0, OpenHasNoBuyer DEF NoOffer, BookInv
<1> HIDE DEF offer, t
<1>5. offers'[n] = offer /\ \A o \in OfferIds : o # n => offers'[o] = offers[o]
    BY <1>2, <1>4
<1>6. \A o \in OfferIds : BuyersOf(o)' = BuyersOf(o)
    BY <1>2 DEF BuyersOf
<1>7. \A o \in OfferIds : o # n =>
        OfferStage(o)' = OfferStage(o) /\ OfferBuyer(o)' = OfferBuyer(o)
    BY <1>5, <1>6, SeenOfOffer
<1>8. OfferStage(n) = "none" /\ OfferStage(n)' = "open"
    <2>1. OfferStage(n) = "none"
        BY <1>4 DEF OfferStage
    <2>2. offers'[n].operator # NoAddress /\ offers'[n].active /\ BuyersOf(n)' = {}
        BY <1>3, <1>4, <1>5, <1>6, OperatorsExist
    <2> QED
        BY <2>1, <2>2 DEF OfferStage
<1>9. OfferBuyer(n)' = OfferBuyer(n)
    <2>1. BuyersOf(n) = {} /\ BuyersOf(n)' = {}
        BY <1>4, <1>6
    <2> QED
        BY <2>1 DEF OfferBuyer
<1>10. /\ StageFn' = [StageFn EXCEPT ![n] = "open"] /\ StageFn[n] = "none"
       /\ BuyerFn' = BuyerFn
    BY <1>2, <1>7, <1>8, <1>9 DEF StageFn, BuyerFn
<1>11. /\ ListerFn' = [ListerFn EXCEPT ![n] = u]
       /\ TermsFn' = [TermsFn EXCEPT ![n] = t]
       /\ EndsFn' = [EndsFn EXCEPT ![n] = e]
    <2>1. \A o \in OfferIds :
            /\ offers'[o].operator = IF o = n THEN u ELSE offers[o].operator
            /\ TermsOf(offers'[o]) = IF o = n THEN t ELSE TermsOf(offers[o])
            /\ offers'[o].expiresAt = IF o = n THEN e ELSE offers[o].expiresAt
        BY <1>3, <1>5
    <2> QED
        BY <2>1 DEF ListerFn, TermsFn, EndsFn
<1>12. BackedSet' = BackedSet /\ u \in BackedSet
    BY <1>2 DEF BackedSet, MayList, HasMinStake
<1>13. MarketPromise!List(n, u, t, e)
    BY <1>2, <1>10, <1>11, <1>12 DEF MarketPromise!List, MarketPromise!Become,
        MarketPromise!listing, StageFn, ListerFn, TermsFn, EndsFn, BuyerFn, BackedSet
<1> QED
    BY <1>2, <1>3, <1>13

\* What is seen when an offer leaves the book.
LEMMA UnlistedSeen ==
    ASSUME BookInv, NEW o \in OfferIds, offers[o].active, offers' = Unlisted(o),
           \A x \in OfferIds : x # o => BuyersOf(x)' = BuyersOf(x)
    PROVE  /\ StageFn[o] = "open"
           /\ StageFn' = [StageFn EXCEPT ![o] = IF BuyersOf(o)' = {} THEN "withdrawn" ELSE "sold"]
           /\ BuyerFn' = [BuyerFn EXCEPT ![o] = OfferBuyer(o)']
           /\ UNCHANGED <<ListerFn, TermsFn, EndsFn>>
<1>1. /\ offers'[o] = [offers[o] EXCEPT !.active = FALSE] /\ offers[o] \in OfferType
      /\ \A x \in OfferIds : x # o => offers'[x] = offers[x]
    BY UnlistedOffer DEF BookInv
<1>2. \A x \in OfferIds : x # o =>
        OfferStage(x)' = OfferStage(x) /\ OfferBuyer(x)' = OfferBuyer(x)
    BY <1>1, SeenOfOffer
<1>3. /\ offers'[o].operator = offers[o].operator
      /\ TermsOf(offers'[o]) = TermsOf(offers[o])
      /\ offers'[o].expiresAt = offers[o].expiresAt
      /\ ~offers'[o].active
    BY <1>1 DEF OfferType, TermsOf
<1>4. offers[o].operator # NoAddress
    BY OperatorsExist DEF BookInv, ListedType
<1>5. /\ OfferStage(o) = "open"
      /\ OfferStage(o)' = IF BuyersOf(o)' = {} THEN "withdrawn" ELSE "sold"
    <2>1. OfferStage(o) = "open"
        BY <1>4, OpenHasNoBuyer DEF OfferStage
    <2>2. offers'[o].operator # NoAddress /\ ~offers'[o].active
        BY <1>3, <1>4
    <2>3. BuyersOf(o)' = {} => OfferStage(o)' = "withdrawn"
        BY <2>2 DEF OfferStage
    <2>4. BuyersOf(o)' # {} => OfferStage(o)' = "sold"
        BY <2>2 DEF OfferStage
    <2> QED
        BY <2>1, <2>3, <2>4
<1>6. UNCHANGED <<ListerFn, TermsFn, EndsFn>>
    BY <1>1, <1>3 DEF ListerFn, TermsFn, EndsFn
<1> QED
    BY <1>2, <1>5, <1>6 DEF StageFn, BuyerFn

LEMMA CancelStepPromised ==
    ASSUME BookInv, CancelStep
    PROVE  \E o \in OfferIds : MarketPromise!Withdraw(o)
<1>1. PICK u \in Operators, o \in OfferIds : CancelOffer(u, o)
    BY DEF CancelStep
<1>2. offers[o].active /\ offers' = Unlisted(o) /\ UNCHANGED <<now, stakes, purchases>>
    BY <1>1 DEF CancelOffer, chainVars
<1>3. \A x \in OfferIds : BuyersOf(x)' = BuyersOf(x)
    BY <1>2 DEF BuyersOf
<1>4. BuyersOf(o) = {} /\ OfferBuyer(o)' = OfferBuyer(o)
    BY <1>2, <1>3, OpenHasNoBuyer DEF OfferBuyer
<1>5. /\ StageFn[o] = "open" /\ StageFn' = [StageFn EXCEPT ![o] = "withdrawn"]
      /\ UNCHANGED <<ListerFn, TermsFn, EndsFn>>
      /\ BuyerFn' = [BuyerFn EXCEPT ![o] = OfferBuyer(o)']
    BY <1>2, <1>3, <1>4, UnlistedSeen
<1>6. BuyerFn' = BuyerFn
    BY <1>4, <1>5 DEF BuyerFn
<1>7. BackedSet' = BackedSet
    BY <1>2 DEF BackedSet, MayList, HasMinStake
<1> QED
    BY <1>2, <1>5, <1>6, <1>7 DEF MarketPromise!Withdraw, MarketPromise!Become,
        MarketPromise!listing, StageFn, ListerFn, TermsFn, EndsFn, BuyerFn, BackedSet

LEMMA BuyStepPromised ==
    ASSUME BookInv, BuyStep
    PROVE  \E o \in OfferIds, b \in Buyers : MarketPromise!Sell(o, b)
<1>1. PICK b \in Buyers, o \in OfferIds : BuyOffer(b, o)
    BY DEF BuyStep
<1>2. /\ offers[o].active /\ now < offers[o].expiresAt /\ offers' = Unlisted(o)
      /\ UNCHANGED <<now, stakes>>
      /\ purchases' = purchases \cup {[offer |-> o, buyer |-> b, job |-> jobCount + 1]}
    BY <1>1 DEF BuyOffer, IsPurchasable, OpenJob, chainVars
<1> DEFINE sale == [offer |-> o, buyer |-> b, job |-> jobCount + 1]
<1>3. sale.offer = o /\ sale.buyer = b /\ purchases' = purchases \cup {sale}
    BY <1>2
<1> HIDE DEF sale
<1>4. \A x \in OfferIds : x # o => BuyersOf(x)' = BuyersOf(x)
    BY <1>3 DEF BuyersOf
<1>5. BuyersOf(o) = {}
    BY <1>2, OpenHasNoBuyer
<1>6. BuyersOf(o)' = {b}
    BY <1>3, <1>5 DEF BuyersOf
<1>7. OfferBuyer(o)' = b
    BY <1>6 DEF OfferBuyer
<1>8. /\ StageFn[o] = "open" /\ StageFn' = [StageFn EXCEPT ![o] = "sold"]
      /\ UNCHANGED <<ListerFn, TermsFn, EndsFn>>
      /\ BuyerFn' = [BuyerFn EXCEPT ![o] = b]
    BY <1>2, <1>4, <1>6, <1>7, UnlistedSeen
<1>9. BackedSet' = BackedSet
    BY <1>2 DEF BackedSet, MayList, HasMinStake
<1>10. now < EndsFn[o]
    BY <1>2 DEF EndsFn
<1> QED
    BY <1>2, <1>8, <1>9, <1>10 DEF MarketPromise!Sell, MarketPromise!Become,
        MarketPromise!listing, StageFn, ListerFn, TermsFn, EndsFn, BuyerFn, BackedSet

LEMMA StutterPromised ==
    ASSUME UNCHANGED marketVars
    PROVE  UNCHANGED MarketPromise!vars
<1>1. UNCHANGED <<now, stakes, offers, purchases>>
    BY DEF marketVars, vars, offerVars, chainVars
<1>2. UNCHANGED <<StageFn, ListerFn, TermsFn, EndsFn, BuyerFn>>
    BY <1>1, BookUnseen
<1>3. BackedSet' = BackedSet
    BY <1>1 DEF BackedSet, MayList, HasMinStake
<1> QED
    BY <1>1, <1>2, <1>3 DEF MarketPromise!vars,
        StageFn, ListerFn, TermsFn, EndsFn, BuyerFn, BackedSet

LEMMA StepPromised ==
    BookInv /\ [MarketNext]_marketVars => [MarketPromise!Next]_(MarketPromise!vars)
<1> SUFFICES ASSUME BookInv, [MarketNext]_marketVars
    PROVE  [MarketPromise!Next]_(MarketPromise!vars)
    OBVIOUS
<1>1. CASE SettlementStep
    BY <1>1, SettlementStepPromised DEF MarketPromise!Next
<1>2. CASE ListStep
    BY <1>2, ListStepPromised DEF MarketPromise!Next
<1>3. CASE CancelStep
    BY <1>3, CancelStepPromised DEF MarketPromise!Next
<1>4. CASE BuyStep
    BY <1>4, BuyStepPromised DEF MarketPromise!Next
<1>5. CASE UNCHANGED marketVars
    BY <1>5, StutterPromised
<1> QED
    BY <1>1, <1>2, <1>3, <1>4, <1>5 DEF MarketNext

\* The order book and the settlement core under it implement OfferPromise, for every number
\* of operators, buyers, robots and offers: an offer is listed on enough stake, stands as it
\* was made, and is sold to one buyer in time or withdrawn (OfferBook 79-320).
THEOREM MarketKeepsPromise == MarketSpec => MarketImplementsPromise
<1>1. MarketInit => MarketPromise!Init
    BY InitPromised
<1>2. BookInv /\ [MarketNext]_marketVars => [MarketPromise!Next]_(MarketPromise!vars)
    BY StepPromised
<1>3. MarketSpec => []BookInv
    BY BookConsistent
<1> QED
    BY <1>1, <1>2, <1>3, PTL DEF MarketSpec, MarketImplementsPromise, MarketPromise!Spec

-------------------------------------------------------------------------------
(* The settlement core under the book *)

\* The book's address: it passes money on, controls no robot and buys for others only.
BookApart ==
    /\ balance[Book] = 0
    /\ \A r \in Robots : controller[r] \in Operators \cup {NoAddress}
    /\ \A j \in JobIds : Exists(j) => jobs[j].buyer \in Buyers

CoreInv == IInv /\ MoneyInv /\ DisputesMatchJobs /\ StakesAccounted /\ BookApart

LEMMA BookIsUser == Book \in Users /\ Book \in Accounts /\ Buyers \subseteq Users
BY OfferAssumption, AmountsAssumption, AccountsApart

LEMMA CoreInit == MarketInit => CoreInv
<1> SUFFICES ASSUME MarketInit
             PROVE  CoreInv
    OBVIOUS
<1>1. /\ ChainInit /\ IdentityInit /\ BondInit /\ ReceiptInit
      /\ ReputationInit /\ JobInit /\ DisputeInit /\ StakingInit
    BY DEF MarketInit
<1>2. balance \in [Accounts -> Nat] /\ vrwx \in [Accounts -> Nat]
    BY InitialFundsAssumption, RewardAssumption DEF MarketInit
<1>3. /\ balance[Escrow] = 0 /\ balance[BondPool] = 0 /\ balance[Treasury] = 0
      /\ vrwx[Gate] = 0 /\ balance[Book] = 0
    BY AccountsApart, BookIsUser DEF MarketInit
<1>4. IInv
    BY <1>1, <1>2, DeployedIInv
<1>5. MoneyInv
    BY <1>1, <1>3, NoMoneyYet
<1>6. DisputesMatchJobs
    BY <1>1 DEF DisputesMatchJobs, DisputeInit, JobInit, HasDispute, NoDispute, NoJob
<1>7. StakesAccounted
    BY <1>1, <1>3, NoStakesYet
<1>8. BookApart
    BY <1>1, <1>3 DEF BookApart, IdentityInit, JobInit, Exists, NoJob
<1> QED
    BY <1>4, <1>5, <1>6, <1>7, <1>8 DEF CoreInv

\* A transfer between others.
LEMMA MovedSpares ==
    ASSUME NEW b, NEW f, NEW t, NEW a, NEW c \in DOMAIN b, c # f, c # t
    PROVE  Moved(b, f, t, a)[c] = b[c] /\ DOMAIN Moved(b, f, t, a) = DOMAIN b
BY DEF Moved

\* No step of the core moves money into the book's address: it holds none to spend, and is
\* never a controller, a buyer or a challenger.
LEMMA BookSpared ==
    ASSUME CoreInv, [Next]_vars
    PROVE  balance'[Book] = 0
<1>0. /\ DOMAIN balance = Accounts /\ balance[Book] = 0
      /\ Book \in DOMAIN balance /\ Book \notin {Escrow, BondPool, Treasury, Gate}
    BY BookIsUser, AccountsApart DEF CoreInv, BookApart, IInv, TypeOK
<1>1. CASE \/ Tick \/ IdentityStep \/ StakingStep \/ UNCHANGED vars \/ Complete \/ Dispute
           \/ (\E k \in JobIds : FinishSettle(k)) \/ (\E k \in JobIds : ResolveValid(k))
    <2>1. balance' = balance
        <3>1. CASE Tick \/ UNCHANGED vars
            BY <3>1 DEF Tick, vars
        <3>2. CASE IdentityStep
            BY <3>2 DEF IdentityStep, RegisterRobot
        <3>3. CASE StakingStep
            BY <3>3 DEF StakingStep, Stake, RequestUnlock, CancelUnlock, Unstake
        <3>4. CASE Complete
            BY <3>4 DEF Complete, SubmitCompletion, SubmitCompletionV2, AcceptClaim
        <3>5. CASE Dispute
            BY <3>5 DEF Dispute, OpenDispute
        <3>6. CASE \E k \in JobIds : FinishSettle(k)
            BY <3>6 DEF FinishSettle, SettleFinish
        <3>7. CASE \E k \in JobIds : ResolveValid(k)
            BY <3>7 DEF ResolveValid
        <3> QED
            BY <1>1, <3>1, <3>2, <3>3, <3>4, <3>5, <3>6, <3>7
    <2> QED
        BY <1>0, <2>1
<1>2. CASE BondStep
    <2>1. PICK u \in Users, r \in Robots, a \in BondAmounts :
            (u \in Operators /\ Deposit(u, r, a)) \/ Withdraw(u, r, a)
        BY <1>2 DEF BondStep
    <2>2. u \in Operators \/ u = NoAddress
        BY <2>1 DEF Withdraw, CoreInv, BookApart
    <2>3. u # Book
        BY <2>2, BookAssumption, BookIsUser, AddressesAssumption
    <2>4. balance' = Moved(balance, u, BondPool, a) \/ balance' = Moved(balance, BondPool, u, a)
        BY <2>1 DEF Deposit, Withdraw
    <2> QED
        BY <1>0, <2>3, <2>4, MovedSpares
<1>3. CASE Create
    <2>1. PICK u \in Buyers, s \in JobSpecs, r \in Robots, p \in Prices, d \in Deadlines :
            \/ CreateJob(u, s, r, p, d)
            \/ \E caller \in Users : CreateAndFundJobFor(caller, u, s, r, p, d)
        BY <1>3 DEF Create
    <2>2. CASE CreateJob(u, s, r, p, d)
        BY <1>0, <2>2 DEF CreateJob
    <2>3. ASSUME NEW caller \in Users, CreateAndFundJobFor(caller, u, s, r, p, d)
          PROVE  balance'[Book] = 0
        <3>1. p # 0 /\ balance[caller] >= p /\ balance' = Moved(balance, caller, Escrow, p)
            BY <2>3 DEF CreateAndFundJobFor, OpenJob
        <3>2. caller # Book
            BY <1>0, <3>1, JobAssumption
        <3> QED
            BY <1>0, <3>1, <3>2, MovedSpares
    <2> QED
        BY <2>1, <2>2, <2>3
<1>4. CASE FundStep
    <2>1. PICK u \in Users, k \in JobIds : Fund(u, k)
        BY <1>4 DEF FundStep
    <2>2. u \in Buyers /\ balance' = Moved(balance, u, Escrow, jobs[k].price)
        BY <2>1 DEF Fund, CoreInv, BookApart
    <2>3. u # Book
        BY <2>2, BookAssumption
    <2> QED
        BY <1>0, <2>2, <2>3, MovedSpares
<1>5. ASSUME NEW k \in JobIds, BeginSettle(k)
      PROVE  balance'[Book] = 0
    <2>1. PICK payee : payee = controller[jobs[k].robotId]
        OBVIOUS
    <2>2. PICK fee, rest :
            balance' = Moved(Moved(balance, Escrow, Treasury, fee), Escrow, payee, rest)
        BY <1>5, <2>1 DEF BeginSettle, SettleBegin, SettleGuard
    <2>3. jobs[k].robotId \in Robots
        BY <1>5, BeginSettleChange, CompletedJob DEF CoreInv
    <2>4. payee # Book
        BY <2>1, <2>3, BookAssumption, BookIsUser, AddressesAssumption DEF CoreInv, BookApart
    <2> QED
        BY <1>0, <2>2, <2>4, MovedSpares
<1>6. ASSUME NEW k \in JobIds, NEW v \in Verdicts, ResolveFault(k, v)
      PROVE  balance'[Book] = 0
    <2>1. PICK b, c, p, a : /\ b = jobs[k].buyer /\ c = disputes[k].challenger
                            /\ balance' = Moved(Moved(balance, Escrow, b, p), BondPool, c, a)
        BY <1>6 DEF ResolveFault
    <2>2. jobs[k].status = "DISPUTED" /\ HasDispute(k)
        BY <1>6, FaultChange DEF CoreInv
    <2>3. b \in Buyers /\ c = b
        BY <2>1, <2>2, StatusExists DEF CoreInv, IInv, BookApart, DisputesMatchJobs
    <2>4. b # Book
        BY <2>3, BookAssumption
    <2> QED
        BY <1>0, <2>1, <2>3, <2>4, MovedSpares
<1> QED
    BY <1>1, <1>2, <1>3, <1>4, <1>5, <1>6, StepCases

\* What a job was opened with never changes, nor does a funded job after its deadline.
LEMMA TermsKept ==
    ASSUME IInv, [Next]_vars, NEW j \in JobIds, Exists(j)
    PROVE  /\ jobs'[j].buyer = jobs[j].buyer
           /\ jobs'[j].robotId = jobs[j].robotId
           /\ jobs'[j].jobSpecHash = jobs[j].jobSpecHash
           /\ jobs'[j].price = jobs[j].price
           /\ jobs'[j].deadline = jobs[j].deadline
           /\ jobs[j].status # "CREATED" => jobs'[j].status # "CREATED"
           /\ jobs[j].status = "FUNDED" /\ now > jobs[j].deadline => jobs'[j] = jobs[j]
<1> DEFINE Kept == /\ jobs'[j].buyer = jobs[j].buyer
                   /\ jobs'[j].robotId = jobs[j].robotId
                   /\ jobs'[j].jobSpecHash = jobs[j].jobSpecHash
                   /\ jobs'[j].price = jobs[j].price
                   /\ jobs'[j].deadline = jobs[j].deadline
                   /\ jobs[j].status # "CREATED" => jobs'[j].status # "CREATED"
                   /\ jobs[j].status = "FUNDED" /\ now > jobs[j].deadline => jobs'[j] = jobs[j]
<1> SUFFICES Kept
    OBVIOUS
<1>0. jobs \in [JobIds -> JobType] /\ jobs[j] \in JobType /\ now \in Nat /\ jobs[j].deadline \in Nat
    BY DEF IInv, TypeOK, JobType
<1>1. jobs'[j] = jobs[j] => Kept
    OBVIOUS
<1>2. CASE \/ Tick \/ IdentityStep \/ BondStep \/ StakingStep \/ UNCHANGED vars
           \/ (\E k \in JobIds : BeginSettle(k)) \/ (\E k \in JobIds : ResolveValid(k))
    BY <1>1, <1>2, OtherChange, BeginSettleChange, ValidChange
<1>3. CASE Create
    <2>1. jobs'[j] = jobs[j]
        BY <1>3, CreateChange
    <2> QED
        BY <1>1, <2>1
<1>4. CASE FundStep
    <2>1. PICK u \in Users, k \in JobIds : Fund(u, k)
        BY <1>4 DEF FundStep
    <2>2. jobs[k].status = "CREATED" /\ jobs' = [jobs EXCEPT ![k].status = "FUNDED"]
        BY <2>1 DEF Fund
    <2> QED
        BY <1>0, <2>2 DEF JobType
<1>5. CASE Complete
    <2>1. PICK u, k, c, claim, q, w :
            k \in JobIds /\ AcceptClaim(u, k, claim, c, q, w)
        BY <1>5, Zenon DEF Complete, SubmitCompletion, SubmitCompletionV2
    <2>2. /\ now <= jobs[k].deadline
          /\ jobs' = [jobs EXCEPT ![k] =
                [@ EXCEPT !.completionHash = c, !.qualityScore = q, !.workUnits = w,
                          !.status = "COMPLETED", !.settleAfter = SettleAfter(k)]]
        BY <2>1 DEF AcceptClaim, InTime
    <2> QED
        BY <1>0, <2>2 DEF JobType
<1>6. ASSUME NEW k \in JobIds, FinishSettle(k)
      PROVE  Kept
    <2>1. /\ jobs[k].status = "COMPLETED"
          /\ jobs' = [jobs EXCEPT ![k].tokenId = TokenIdOf(jobs[k]), ![k].status = "SETTLED"]
        BY <1>6, FinishSettleChange DEF FinishSettle, SettleFinish
    <2> QED
        BY <1>0, <2>1 DEF JobType
<1>7. CASE Dispute
    <2>1. PICK u \in Users, k \in JobIds : OpenDispute(u, k)
        BY <1>7 DEF Dispute
    <2>2. jobs[k].status = "COMPLETED" /\ jobs' = [jobs EXCEPT ![k].status = "DISPUTED"]
        BY <2>1 DEF OpenDispute
    <2> QED
        BY <1>0, <2>2 DEF JobType
<1>8. ASSUME NEW k \in JobIds, NEW v \in Verdicts, ResolveFault(k, v)
      PROVE  Kept
    <2>1. jobs[k].status = "DISPUTED" /\ jobs' = [jobs EXCEPT ![k].status = "REFUNDED"]
        BY <1>8 DEF ResolveFault
    <2> QED
        BY <1>0, <2>1 DEF JobType
<1> HIDE DEF Kept
<1>9. \/ \/ Tick \/ IdentityStep \/ BondStep \/ StakingStep \/ UNCHANGED vars
         \/ (\E k \in JobIds : BeginSettle(k)) \/ (\E k \in JobIds : ResolveValid(k))
      \/ Create \/ FundStep \/ Complete \/ Dispute
      \/ \E k \in JobIds : FinishSettle(k)
      \/ \E k \in JobIds, v \in Verdicts : ResolveFault(k, v)
    BY StepCases
<1> QED
    BY <1>2, <1>3, <1>4, <1>5, <1>6, <1>7, <1>8, <1>9

\* Robots go to operators, and jobs to buyers.
LEMMA PartiesKept ==
    ASSUME CoreInv, IInv', [Next]_vars
    PROVE  /\ \A r \in Robots : controller'[r] \in Operators \cup {NoAddress}
           /\ \A j \in JobIds : Exists(j)' => jobs'[j].buyer \in Buyers
<1>1. controller' = controller \/ IdentityStep
    <2>1. CASE Tick \/ BondStep \/ StakingStep \/ UNCHANGED vars
        BY <2>1 DEF Tick, BondStep, Deposit, Withdraw, StakingStep, Stake, RequestUnlock,
            CancelUnlock, Unstake, vars
    <2>2. CASE Create
        BY <2>2 DEF Create, CreateJob, CreateAndFundJobFor, OpenJob
    <2>3. CASE FundStep \/ Complete \/ Dispute
        BY <2>3 DEF FundStep, Fund, Complete, SubmitCompletion, SubmitCompletionV2,
            AcceptClaim, Dispute, OpenDispute
    <2>4. CASE \E k \in JobIds : BeginSettle(k) \/ FinishSettle(k) \/ ResolveValid(k)
        BY <2>4 DEF BeginSettle, SettleBegin, SettleGuard, FinishSettle, SettleFinish, ResolveValid
    <2>5. CASE \E k \in JobIds, v \in Verdicts : ResolveFault(k, v)
        BY <2>5 DEF ResolveFault
    <2> QED
        BY <2>1, <2>2, <2>3, <2>4, <2>5, StepCases
<1>2. \A r \in Robots : controller'[r] \in Operators \cup {NoAddress}
    BY <1>1 DEF IdentityStep, RegisterRobot, CoreInv, BookApart, IInv, TypeOK
<1>3. \A j \in JobIds : Exists(j)' => jobs'[j].buyer \in Buyers
    <2>1. CASE Create
        <3>1. PICK u \in Buyers, s \in JobSpecs, r \in Robots, p \in Prices, d \in Deadlines :
                \E st : OpenJob(u, s, r, p, d, st)
            BY <2>1, Zenon DEF Create, CreateJob, CreateAndFundJobFor
        <3>2. /\ jobs \in [JobIds -> JobType]
              /\ \A j \in JobIds \ {jobCount + 1} : jobs'[j] = jobs[j]
              /\ jobCount + 1 \in JobIds => jobs'[jobCount + 1].buyer = u
            BY <3>1, NoJobType DEF OpenJob, CoreInv, IInv, TypeOK, JobType
        <3> QED
            BY <3>2 DEF CoreInv, BookApart, Exists
    <2>2. ASSUME NEW j \in JobIds, ~Exists(j), ~Create
          PROVE  ~Exists(j)'
        <3>1. jobs[j].status = "CREATED" /\ ~InSettle(j)
            BY <2>2, StatusExists DEF CoreInv, IInv, WaitingWellFormed
        <3>2. CASE jobs'[j] = jobs[j]
            BY <2>2, <3>2 DEF Exists
        <3>3. CASE jobs'[j] # jobs[j]
            <4>1. /\ ~(Tick \/ IdentityStep \/ BondStep \/ StakingStep \/ UNCHANGED vars)
                  /\ ~(\E k \in JobIds : BeginSettle(k) \/ ResolveValid(k))
                BY <3>3, OtherChange, BeginSettleChange, ValidChange DEF CoreInv
            <4>2. ~FundStep
                BY <2>2, <3>3, FundChange DEF CoreInv
            <4>3. ~Complete /\ ~Dispute
                BY <3>1, <3>3, CompleteChange, DisputeChange DEF CoreInv
            <4>4. ~(\E k \in JobIds : FinishSettle(k))
                BY <3>1, <3>3, FinishSettleChange DEF CoreInv
            <4>5. ~(\E k \in JobIds, v \in Verdicts : ResolveFault(k, v))
                BY <3>1, <3>3, FaultChange DEF CoreInv
            <4> QED
                BY <2>2, <4>1, <4>2, <4>3, <4>4, <4>5, StepCases
        <3> QED
            BY <3>2, <3>3
    <2>3. \A j \in JobIds : Exists(j) => jobs'[j].buyer = jobs[j].buyer
        BY TermsKept DEF CoreInv
    <2> QED
        BY <2>1, <2>2, <2>3 DEF CoreInv, BookApart
<1> QED
    BY <1>2, <1>3

LEMMA CoreStep ==
    ASSUME CoreInv, [Next]_vars
    PROVE  CoreInv'
<1>1. IInv'
    BY NextIInv DEF CoreInv
<1>2. MoneyInv'
    BY <1>1, MoneyStep DEF CoreInv
<1>3. DisputesMatchJobs'
    BY DisputesStep DEF CoreInv
<1>4. StakesAccounted'
    BY <1>1, StakesStep DEF CoreInv
<1>5. BookApart'
    BY <1>1, BookSpared, PartiesKept DEF BookApart
<1> QED
    BY <1>1, <1>2, <1>3, <1>4, <1>5 DEF CoreInv

-------------------------------------------------------------------------------
(* The book's own steps *)

\* Listing burns VRWX of an operator; withdrawing an offer moves nothing.
LEMMA ListedCore ==
    ASSUME CoreInv, BookInv, ListStep \/ CancelStep
    PROVE  /\ CoreInv'
           /\ UNCHANGED <<now, callStack, balance, jobs, purchases, stakes>>
<1>1. \/ \E u, r, s, p, e : u \in Operators /\ ListOffer(u, r, s, p, e)
      \/ \E u \in Operators, o \in OfferIds : CancelOffer(u, o)
    BY ListStepLists DEF CancelStep
<1>2. /\ UNCHANGED <<now, callStack, balance, controller, bonded, locked, exists, metadata,
                     supply, reputation, jobCount, jobs, disputes, stakes, purchases>>
      /\ \/ vrwx' = vrwx
         \/ \E u \in Operators : /\ vrwx[u] >= ListingFee
                                 /\ vrwx' = [vrwx EXCEPT ![u] = @ - ListingFee]
    BY <1>1 DEF ListOffer, BurnListingFee, CancelOffer, chainVars, bondVars, receiptVars, jobVars
<1>3. vrwx' \in [Accounts -> Nat] /\ vrwx'[Gate] = vrwx[Gate]
    <2>1. vrwx \in [Accounts -> Nat] /\ Operators \subseteq Accounts /\ Gate \notin Operators
        BY AmountsAssumption, AccountsApart DEF CoreInv, IInv, TypeOK
    <2>2. ASSUME NEW u \in Operators, vrwx[u] >= ListingFee,
                 vrwx' = [vrwx EXCEPT ![u] = @ - ListingFee]
          PROVE  vrwx' \in [Accounts -> Nat] /\ vrwx'[Gate] = vrwx[Gate]
        <3>1. vrwx[u] - ListingFee \in Nat
            BY <2>1, <2>2, OfferAssumption
        <3> QED
            BY <2>1, <2>2, <3>1
    <2> QED
        BY <1>2, <2>1, <2>2
<1>4. IInv'
    <2>1. TypeOK'
        BY <1>2, <1>3 DEF CoreInv, IInv, TypeOK
    <2> QED
        BY <1>2, <2>1, JobsFrame, WaitingFrame, BondFrame DEF CoreInv, IInv
<1>5. MoneyInv' /\ DisputesMatchJobs' /\ StakesAccounted'
    BY <1>2, <1>3, MoneyFrame, DisputesFrame, StakesFrame DEF CoreInv
<1>6. BookApart'
    BY <1>2 DEF CoreInv, BookApart, Exists
<1> QED
    BY <1>2, <1>4, <1>5, <1>6 DEF CoreInv

\* What is on the book can be sold.
LEMMA ListedTerms ==
    ASSUME BookInv, NEW o \in OfferIds, offers[o].active
    PROVE  /\ offers[o].robotId \in Robots /\ offers[o].jobSpecHash \in JobSpecs
           /\ offers[o].price \in Prices /\ offers[o].price \in Nat
           /\ offers[o].expiresAt \in Nat
BY JobAssumption DEF BookInv, ListedType

\* The price goes through the book into the escrow.
LEMMA PaidThroughBook ==
    ASSUME CoreInv, NEW b \in Buyers, NEW p \in Nat, PayThroughBook(b, p)
    PROVE  /\ balance' \in [Accounts -> Nat]
           /\ balance'[Book] = 0
           /\ balance'[Escrow] = balance[Escrow] + p
           /\ balance'[BondPool] = balance[BondPool]
           /\ balance'[Treasury] = balance[Treasury]
<1> DEFINE there == Moved(balance, b, Book, p)
<1>1. /\ balance \in [Accounts -> Nat] /\ balance[b] >= p /\ balance[Book] = 0
      /\ balance' = Moved(there, Book, Escrow, p)
    BY DEF PayThroughBook, CoreInv, BookApart, IInv, TypeOK
<1>2. /\ b \in Accounts /\ Book \in Accounts /\ b # Book /\ Escrow \in Accounts
      /\ Escrow # Book /\ b # Escrow
      /\ BondPool \in Accounts \ {b, Book, Escrow} /\ Treasury \in Accounts \ {b, Book, Escrow}
    BY BookAssumption, BookIsUser, AccountsApart
<1>3. /\ there \in [Accounts -> Nat] /\ there[Book] = p
      /\ there[Escrow] = balance[Escrow] /\ there[BondPool] = balance[BondPool]
      /\ there[Treasury] = balance[Treasury]
    <2>1. there \in [Accounts -> Nat]
        BY <1>1, <1>2, MovedType
    <2>2. there[Book] = balance[Book] + p
        BY <1>1, <1>2 DEF Moved
    <2>3. \A c \in Accounts : c # b /\ c # Book => there[c] = balance[c]
        BY <1>1, <1>2 DEF Moved
    <2> QED
        BY <1>1, <1>2, <2>1, <2>2, <2>3
<1> HIDE DEF there
<1>4. Moved(there, Book, Escrow, p) \in [Accounts -> Nat]
    BY <1>2, <1>3, MovedType
<1>5. /\ Moved(there, Book, Escrow, p)[Book] = 0
      /\ Moved(there, Book, Escrow, p)[Escrow] = balance[Escrow] + p
      /\ Moved(there, Book, Escrow, p)[BondPool] = balance[BondPool]
      /\ Moved(there, Book, Escrow, p)[Treasury] = balance[Treasury]
    BY <1>2, <1>3, TransferMoves
<1> QED
    BY <1>1, <1>4, <1>5

\* A purchase opens one job, funded, with the terms of the offer.
LEMMA BoughtJob ==
    ASSUME CoreInv, BookInv, NEW b \in Buyers, NEW o \in OfferIds, BuyOffer(b, o)
    PROVE  \E k \in JobIds :
             /\ k = jobCount + 1 /\ ~Exists(k) /\ Exists(k)'
             /\ jobs[k].status = "CREATED" /\ jobs'[k].status = "FUNDED"
             /\ jobs'[k].buyer = b
             /\ jobs'[k].robotId = offers[o].robotId
             /\ jobs'[k].jobSpecHash = offers[o].jobSpecHash
             /\ jobs'[k].price = offers[o].price
             /\ jobs'[k].deadline = now + JobExtension
             /\ \A j \in JobIds \ {k} : jobs'[j] = jobs[j]
             /\ UNCHANGED <<now, callStack, controller, vrwx, disputes, stakes>>
<1>1. /\ OpenJob(b, offers[o].jobSpecHash, offers[o].robotId, offers[o].price,
                 now + JobExtension, "FUNDED")
      /\ UNCHANGED <<disputes, stakes>>
    BY DEF BuyOffer
<1>2. PICK k \in JobIds : k = jobCount + 1
    BY <1>1, MaxJobsAssumption DEF OpenJob, CoreInv, IInv, TypeOK, JobIds
<1> DEFINE new == [NoJob EXCEPT !.buyer = b, !.robotId = offers[o].robotId,
                                !.jobSpecHash = offers[o].jobSpecHash,
                                !.price = offers[o].price,
                                !.deadline = now + JobExtension, !.status = "FUNDED"]
<1>3. jobs' = [jobs EXCEPT ![k] = new] /\ jobs \in [JobIds -> JobType]
    BY <1>1, <1>2 DEF OpenJob, CoreInv, IInv, TypeOK
<1>4. /\ new.status = "FUNDED" /\ new.buyer = b /\ new.robotId = offers[o].robotId
      /\ new.jobSpecHash = offers[o].jobSpecHash /\ new.price = offers[o].price
      /\ new.deadline = now + JobExtension
    BY NoJobType DEF JobType
<1> HIDE DEF new
<1>5. ~Exists(k) /\ jobs[k].status = "CREATED"
    <2>1. jobCount \in Nat
        BY DEF CoreInv, IInv, TypeOK
    <2>2. ~Exists(k)
        BY <1>2, <2>1 DEF CoreInv, IInv, JobsWellFormed
    <2> QED
        BY <2>2, StatusExists DEF CoreInv, IInv
<1>6. b # NoAddress
    BY BookIsUser, AddressesAssumption
<1> QED
    BY <1>1, <1>2, <1>3, <1>4, <1>5, <1>6 DEF OpenJob, chainVars, Exists

LEMMA BoughtCore ==
    ASSUME CoreInv, BookInv, NEW b \in Buyers, NEW o \in OfferIds, BuyOffer(b, o)
    PROVE  CoreInv'
<1>1. /\ PayThroughBook(b, offers[o].price)
      /\ OpenJob(b, offers[o].jobSpecHash, offers[o].robotId, offers[o].price,
                 now + JobExtension, "FUNDED")
      /\ UNCHANGED <<disputes, stakes>>
      /\ offers[o].active
    BY DEF BuyOffer, IsPurchasable
<1>2. /\ b \in Users /\ offers[o].robotId \in Robots /\ offers[o].jobSpecHash \in JobSpecs
      /\ offers[o].price \in Prices /\ offers[o].price \in Nat /\ now + JobExtension \in Nat
    BY <1>1, ListedTerms, BookIsUser, OfferAssumption DEF CoreInv, IInv, TypeOK
<1>3. /\ balance' \in [Accounts -> Nat] /\ balance'[Book] = 0
      /\ balance'[Escrow] = balance[Escrow] + offers[o].price
      /\ balance'[BondPool] = balance[BondPool] /\ balance'[Treasury] = balance[Treasury]
    BY <1>1, <1>2, PaidThroughBook
<1>4. IInv'
    BY <1>1, <1>2, <1>3, OpenJobIInv DEF CoreInv
<1>5. MoneyInv'
    BY <1>1, <1>2, <1>3, <1>4, OpenJobMoney DEF CoreInv
<1>6. DisputesMatchJobs' /\ StakesAccounted' /\ BookApart'
    <2>1. PICK k \in JobIds :
            /\ ~Exists(k) /\ jobs[k].status = "CREATED" /\ jobs'[k].status = "FUNDED"
            /\ jobs'[k].buyer = b
            /\ \A j \in JobIds \ {k} : jobs'[j] = jobs[j]
            /\ UNCHANGED <<controller, vrwx, disputes, stakes>>
        BY BoughtJob
    <2>2. DisputesMatchJobs'
        BY <2>1, UndisputedChange DEF CoreInv
    <2>3. StakesAccounted'
        BY <2>1, StakesFrame DEF CoreInv
    <2>4. BookApart'
        BY <1>3, <2>1 DEF CoreInv, BookApart, Exists
    <2> QED
        BY <2>2, <2>3, <2>4
<1> QED
    BY <1>4, <1>5, <1>6 DEF CoreInv

LEMMA CoreKeeps == CoreInv /\ BookInv /\ [MarketNext]_marketVars => CoreInv'
<1> SUFFICES ASSUME CoreInv, BookInv, [MarketNext]_marketVars
             PROVE  CoreInv'
    OBVIOUS
<1>1. CASE SettlementStep \/ UNCHANGED marketVars
    BY <1>1, CoreStep DEF SettlementStep, marketVars
<1>2. CASE ListStep \/ CancelStep
    BY <1>2, ListedCore
<1>3. CASE BuyStep
    BY <1>3, BoughtCore DEF BuyStep
<1> QED
    BY <1>1, <1>2, <1>3 DEF MarketNext

LEMMA CoreAlways == MarketSpec => [](CoreInv /\ BookInv)
BY CoreInit, CoreKeeps, BookInitInv, BookStepKeeps, PTL DEF MarketSpec

\* With the book on top, every sale is paid and covered: the book keeps nothing, all money
\* is accounted for, every open job finds its bond, and the gate holds the stakes.
THEOREM SalesCovered == MarketSpec => []SalesPaidAndBonded
<1>1. CoreInv => SalesPaidAndBonded
    BY CoveredNow DEF CoreInv, BookApart, MoneyInv, SalesPaidAndBonded
<1> QED
    BY <1>1, CoreAlways, PTL

-------------------------------------------------------------------------------
(* Sales *)

\* One sale, as it was agreed and as it is kept.
SaleKept(p) ==
    /\ ~offers[p.offer].active
    /\ jobs[p.job].buyer = p.buyer
    /\ jobs[p.job].robotId = offers[p.offer].robotId
    /\ jobs[p.job].jobSpecHash = offers[p.offer].jobSpecHash
    /\ jobs[p.job].price = offers[p.offer].price
    /\ jobs[p.job].status # "CREATED"
    /\ jobs[p.job].deadline < offers[p.offer].expiresAt + JobExtension

SalesInv ==
    /\ \A p \in purchases : p.job \in JobIds /\ Exists(p.job) /\ SaleKept(p)
    /\ \A p, q \in purchases : p.offer = q.offer \/ p.job = q.job => p = q

LEMMA SalesInit == MarketInit => SalesInv
BY DEF MarketInit, OfferInit, SalesInv

\* A step that keeps the terms of the jobs and of the offers that were sold.
LEMMA SaleStays ==
    ASSUME BookInv, SalesInv, NEW p \in purchases, offers'[p.offer] = offers[p.offer],
           jobs'[p.job].buyer = jobs[p.job].buyer,
           jobs'[p.job].robotId = jobs[p.job].robotId,
           jobs'[p.job].jobSpecHash = jobs[p.job].jobSpecHash,
           jobs'[p.job].price = jobs[p.job].price,
           jobs'[p.job].deadline = jobs[p.job].deadline,
           jobs'[p.job].status # "CREATED",
           p' = p
    PROVE  p.job \in JobIds /\ Exists(p.job)' /\ SaleKept(p)'
BY DEF SalesInv, SaleKept, Exists

\* Nothing but a sale touches an offer that was sold.
LEMMA SoldOfferStays ==
    ASSUME BookInv, [MarketNext]_marketVars, NEW o \in OfferIds,
           ~offers[o].active, offers[o].operator # NoAddress
    PROVE  offers'[o] = offers[o]
<1>1. CASE SettlementStep \/ UNCHANGED marketVars
    BY <1>1 DEF SettlementStep, marketVars, offerVars
<1>2. CASE ListStep
    <2>1. PICK u \in Operators, r \in Robots, s \in JobSpecs, p \in Prices, e \in OfferEnds :
            ListOffer(u, r, s, p, e)
        BY <1>2, ListStepLists
    <2>2. PICK n \in OfferIds : n = offerCount + 1
        BY <2>1, ListChanges
    <2>3. offers[n] = NoOffer /\ offers' = [offers EXCEPT ![n] =
                [operator |-> u, robotId |-> r, jobSpecHash |-> s, price |-> p,
                 expiresAt |-> e, active |-> TRUE]]
        BY <2>1, <2>2, ListChanges DEF BookInv
    <2>4. o # n
        BY <2>3 DEF NoOffer
    <2> QED
        BY <2>3, <2>4 DEF BookInv
<1>3. ASSUME NEW x \in OfferIds, offers[x].active, offers' = Unlisted(x)
      PROVE  offers'[o] = offers[o]
    BY <1>3, UnlistedOffer DEF BookInv
<1>4. CASE CancelStep
    BY <1>3, <1>4 DEF CancelStep, CancelOffer
<1>5. CASE BuyStep
    BY <1>3, <1>5 DEF BuyStep, BuyOffer, IsPurchasable
<1> QED
    BY <1>1, <1>2, <1>4, <1>5 DEF MarketNext

LEMMA SalesStay ==
    ASSUME CoreInv, BookInv, SalesInv, [MarketNext]_marketVars, ~BuyStep
    PROVE  SalesInv'
<1>1. purchases' = purchases
    <2>1. CASE SettlementStep \/ UNCHANGED marketVars
        BY <2>1 DEF SettlementStep, marketVars, offerVars
    <2>2. CASE ListStep \/ CancelStep
        BY <2>2, ListedCore
    <2> QED
        BY <2>1, <2>2 DEF MarketNext
<1>2. ASSUME NEW j \in JobIds, Exists(j), jobs[j].status # "CREATED"
      PROVE  /\ jobs'[j].buyer = jobs[j].buyer
             /\ jobs'[j].robotId = jobs[j].robotId
             /\ jobs'[j].jobSpecHash = jobs[j].jobSpecHash
             /\ jobs'[j].price = jobs[j].price
             /\ jobs'[j].deadline = jobs[j].deadline
             /\ jobs'[j].status # "CREATED"
    <2>1. CASE SettlementStep \/ UNCHANGED marketVars
        BY <1>2, <2>1, TermsKept DEF SettlementStep, marketVars, CoreInv
    <2>2. CASE ListStep \/ CancelStep
        BY <1>2, <2>2, ListedCore
    <2> QED
        BY <2>1, <2>2 DEF MarketNext
<1>3. ASSUME NEW p \in purchases
      PROVE  p.job \in JobIds /\ Exists(p.job)' /\ SaleKept(p)'
    <2>1. offers'[p.offer] = offers[p.offer]
        BY SoldOfferStays DEF BookInv
    <2>2. p.job \in JobIds /\ Exists(p.job) /\ jobs[p.job].status # "CREATED"
        BY DEF SalesInv, SaleKept
    <2> QED
        BY <1>2, <2>1, <2>2, SaleStays
<1> QED
    BY <1>1, <1>3 DEF SalesInv

LEMMA SaleAdded ==
    ASSUME CoreInv, BookInv, SalesInv, NEW b \in Buyers, NEW o \in OfferIds, BuyOffer(b, o)
    PROVE  SalesInv'
<1>1. PICK k \in JobIds :
        /\ k = jobCount + 1 /\ ~Exists(k) /\ Exists(k)'
        /\ jobs[k].status = "CREATED" /\ jobs'[k].status = "FUNDED"
        /\ jobs'[k].buyer = b
        /\ jobs'[k].robotId = offers[o].robotId
        /\ jobs'[k].jobSpecHash = offers[o].jobSpecHash
        /\ jobs'[k].price = offers[o].price
        /\ jobs'[k].deadline = now + JobExtension
        /\ \A j \in JobIds \ {k} : jobs'[j] = jobs[j]
    BY BoughtJob
<1>2. /\ offers[o].active /\ now < offers[o].expiresAt /\ offers' = Unlisted(o)
      /\ purchases' = purchases \cup {[offer |-> o, buyer |-> b, job |-> jobCount + 1]}
    BY DEF BuyOffer, IsPurchasable
<1>3. PICK sale : sale = [offer |-> o, buyer |-> b, job |-> k]
    OBVIOUS
<1>4. /\ sale.offer = o /\ sale.buyer = b /\ sale.job = k
      /\ purchases' = purchases \cup {sale}
    BY <1>1, <1>2, <1>3
<1>5. /\ offers'[o] = [offers[o] EXCEPT !.active = FALSE] /\ offers[o] \in OfferType
      /\ \A x \in OfferIds : x # o => offers'[x] = offers[x]
    BY <1>2, UnlistedOffer DEF BookInv
<1>6. /\ ~offers'[o].active /\ offers'[o].robotId = offers[o].robotId
      /\ offers'[o].jobSpecHash = offers[o].jobSpecHash /\ offers'[o].price = offers[o].price
      /\ offers'[o].expiresAt = offers[o].expiresAt
    BY <1>5 DEF OfferType
<1>7. now + JobExtension < offers[o].expiresAt + JobExtension
    BY <1>2, ListedTerms, OfferAssumption DEF CoreInv, IInv, TypeOK
<1>8. sale.job \in JobIds /\ Exists(sale.job)' /\ SaleKept(sale)'
    BY <1>1, <1>4, <1>6, <1>7 DEF SaleKept
<1>9. ASSUME NEW p \in purchases
      PROVE  /\ p.job \in JobIds /\ Exists(p.job)' /\ SaleKept(p)'
             /\ p.offer # o /\ p.job # k
    <2>1. p.offer \in OfferIds /\ p.offer # o
        BY <1>2 DEF BookInv
    <2>2. p.job \in JobIds /\ Exists(p.job) /\ jobs[p.job].status # "CREATED"
        BY DEF SalesInv, SaleKept
    <2>3. p.job # k
        BY <1>1, <2>2
    <2>4. offers'[p.offer] = offers[p.offer] /\ jobs'[p.job] = jobs[p.job]
        BY <1>1, <1>5, <2>1, <2>2, <2>3
    <2> QED
        BY <2>1, <2>2, <2>3, <2>4, SaleStays
<1> QED
    BY <1>4, <1>8, <1>9 DEF SalesInv

MarketInv == CoreInv /\ BookInv /\ SalesInv

LEMMA MarketAlways == MarketSpec => []MarketInv
<1>1. MarketInit => MarketInv
    BY CoreInit, BookInitInv, SalesInit DEF MarketInv
<1>2. MarketInv /\ [MarketNext]_marketVars => MarketInv'
    <2> SUFFICES ASSUME MarketInv, [MarketNext]_marketVars
                 PROVE  MarketInv'
        OBVIOUS
    <2>1. CoreInv' /\ BookInv'
        BY CoreKeeps, BookStepKeeps DEF MarketInv
    <2>2. SalesInv'
        BY SalesStay, SaleAdded DEF MarketInv, BuyStep
    <2> QED
        BY <2>1, <2>2 DEF MarketInv
<1> QED
    BY <1>1, <1>2, PTL DEF MarketSpec

\* An offer is sold at most once, and the job of a sale is for ever what was offered, for
\* its buyer, funded from the start and bought in time.
THEOREM SalesCorrect == MarketSpec => []SalesMatchJobs
<1>1. MarketInv => SalesMatchJobs
    BY DEF MarketInv, SalesInv, SaleKept, SalesMatchJobs
<1> QED
    BY <1>1, MarketAlways, PTL

\* A funded job that missed its deadline is frozen with its price in the escrow, whatever
\* is bought, settled and refunded around it.
THEOREM ExpiredJobsFreeze == MarketSpec => ExpiredJobFrozen
<1>1. MarketInv /\ MarketInv' /\ [MarketNext]_marketVars =>
        [\A j \in JobIds :
            jobs[j].status = "FUNDED" /\ now > jobs[j].deadline =>
                /\ jobs'[j] = jobs[j]
                /\ balance'[Escrow] >= jobs[j].price]_marketVars
    <2> SUFFICES ASSUME MarketInv, MarketInv', [MarketNext]_marketVars, NEW j \in JobIds,
                        jobs[j].status = "FUNDED", now > jobs[j].deadline
                 PROVE  jobs'[j] = jobs[j] /\ balance'[Escrow] >= jobs[j].price
        OBVIOUS
    <2>1. Exists(j)
        BY StatusExists DEF MarketInv, CoreInv, IInv
    <2>2. jobs'[j] = jobs[j]
        <3>1. CASE SettlementStep \/ UNCHANGED marketVars
            BY <2>1, <3>1, TermsKept DEF SettlementStep, marketVars, MarketInv, CoreInv
        <3>2. CASE ListStep \/ CancelStep
            BY <3>2, ListedCore DEF MarketInv
        <3>3. CASE BuyStep
            BY <2>1, <3>3, BoughtJob DEF BuyStep, MarketInv
        <3> QED
            BY <3>1, <3>2, <3>3 DEF MarketNext
    <2>3. EscrowOwes'[j] = jobs'[j].price
        <3>1. ~InSettle(j)'
            BY <2>2 DEF MarketInv, CoreInv, IInv, WaitingWellFormed
        <3> QED
            BY <2>2, <3>1 DEF EscrowOwes, Owed
    <2>4. EscrowOwes'[j] <= SumFunction(EscrowOwes')
        <3>1. EscrowOwes' \in [JobIds -> Nat]
            BY DEF EscrowOwes, MarketInv, CoreInv, IInv, TypeOK, JobType
        <3> QED
            BY <3>1, JobIdsFinite, SumFollows
    <2>5. balance'[Escrow] = SumFunction(EscrowOwes')
        BY DEF MarketInv, CoreInv, MoneyInv, MoneyAccounted
    <2> QED
        BY <2>2, <2>3, <2>4, <2>5
<1> QED
    BY <1>1, MarketAlways, PTL DEF MarketSpec, ExpiredJobFrozen

-------------------------------------------------------------------------------
(* The supply of VRWX *)

\* The ledger knows every fault that it was told of, and its scores follow.
LedgerInv ==
    /\ \A r \in Robots : /\ reputation[r].totalDisputes = Faults(r)
                         /\ reputation[r].totalSlashes = Faults(r)
    /\ ScoresFollow

LEMMA FaultsCounted ==
    \A r : /\ Faults(r) = IF DisputeReputation = NoAddress THEN 0
                          ELSE Cardinality(History(r, "REFUNDED"))
           /\ Faults(r)' = IF DisputeReputation = NoAddress THEN 0
                           ELSE Cardinality(History(r, "REFUNDED")')
BY DEF Faults, History

LEMMA FaultsNat == \A r : Faults(r) \in Nat
BY FaultsCounted, HistoryFinite

LEMMA LedgerInit == MarketInit => LedgerInv
<1> SUFFICES ASSUME MarketInit
             PROVE  LedgerInv
    OBVIOUS
<1>1. \A r \in Robots : History(r, "REFUNDED") = {}
    BY DEF MarketInit, JobInit, NoJob, History
<1>2. \A r \in Robots : Faults(r) = 0
    BY <1>1, FaultsCounted, FS_EmptySet
<1>3. \A r \in Robots : reputation[r].totalDisputes = 0 /\ reputation[r].totalSlashes = 0
    BY DEF MarketInit, ReputationInit
<1>4. ScoreOf(0, 0) = 10000
    BY DEF ScoreOf, Penalty
<1>5. ScoresFollow
    BY <1>4 DEF MarketInit, ReputationInit, ScoresFollow, ScoreFollowsCounts,
        ReliabilityScoreBps
<1> QED
    BY <1>2, <1>3, <1>5 DEF LedgerInv

\* A step that decides no dispute for the buyer and records none.
LEMMA LedgerFrame ==
    ASSUME LedgerInv, ScoresFollow',
           \A r \in Robots : /\ reputation'[r].totalDisputes = reputation[r].totalDisputes
                             /\ reputation'[r].totalSlashes = reputation[r].totalSlashes,
           \A r : History(r, "REFUNDED")' = History(r, "REFUNDED")
    PROVE  LedgerInv'
<1>1. \A r : Faults(r)' = Faults(r)
    BY FaultsCounted
<1> QED
    BY <1>1 DEF LedgerInv

LEMMA FinishSettleLedger ==
    ASSUME IInv, LedgerInv, ScoresFollow', NEW k \in JobIds, FinishSettle(k)
    PROVE  LedgerInv'
<1>1. /\ jobs[k].status = "COMPLETED" /\ jobs'[k].status = "SETTLED"
      /\ \A j \in JobIds \ {k} : jobs'[j] = jobs[j]
    BY FinishSettleChange
<1>2. \A r : History(r, "REFUNDED")' = History(r, "REFUNDED")
    BY <1>1, HistoryStays
<1>3. PICK r \in Robots : r = jobs[k].robotId
    BY <1>1, CompletedJob
<1>4. reputation \in [Robots -> ReputationType]
    BY DEF IInv, TypeOK
<1>5. \/ reputation' = reputation
      \/ reputation' = [reputation EXCEPT ![r] = RecordJobComplete(@)]
    BY <1>3 DEF FinishSettle, SettleFinish, ReputationAfterSettle
<1>6. ASSUME NEW q \in Robots
      PROVE  /\ reputation'[q].totalDisputes = reputation[q].totalDisputes
             /\ reputation'[q].totalSlashes = reputation[q].totalSlashes
    <2>1. reputation'[q] = reputation[q] \/ reputation'[q] = RecordJobComplete(reputation[q])
        BY <1>4, <1>5
    <2>2. reputation[q] \in ReputationType
        BY <1>4
    <2> QED
        BY <2>1, <2>2, RecordsCount
<1> QED
    BY <1>2, <1>6, LedgerFrame

LEMMA FaultLedger ==
    ASSUME IInv, LedgerInv, ScoresFollow', NEW k \in JobIds, NEW v \in Verdicts,
           ResolveFault(k, v)
    PROVE  LedgerInv'
<1>1. /\ jobs[k].status = "DISPUTED" /\ jobs'[k].status = "REFUNDED"
      /\ \A j \in JobIds \ {k} : jobs'[j] = jobs[j]
    BY FaultChange
<1>2. PICK r \in Robots : r = jobs[k].robotId
    BY <1>1, CompletedJob
<1>3. jobs'[k].robotId = r
    BY <1>1, <1>2, CompletedJob DEF ResolveFault, JobType, IInv, TypeOK
<1>4. reputation \in [Robots -> ReputationType]
    BY DEF IInv, TypeOK
<1>5. CASE DisputeReputation = NoAddress
    <2>1. reputation' = reputation
        BY <1>5 DEF ResolveFault, ReputationAfterFault
    <2>2. \A q \in Robots : Faults(q) = 0 /\ Faults(q)' = 0
        BY <1>5, FaultsCounted
    <2> QED
        BY <2>1, <2>2 DEF LedgerInv
<1>6. CASE DisputeReputation # NoAddress
    <2>1. reputation' = [reputation EXCEPT ![r] = RecordSlash(RecordDispute(@))]
        BY <1>2, <1>6 DEF ResolveFault, ReputationAfterFault
    <2> SUFFICES ASSUME NEW q \in Robots
                 PROVE  /\ reputation'[q].totalDisputes = Faults(q)'
                        /\ reputation'[q].totalSlashes = Faults(q)'
        BY DEF LedgerInv
    <2>2. Cardinality(History(q, "REFUNDED")') =
            Cardinality(History(q, "REFUNDED")) + (IF q = r THEN 1 ELSE 0)
        <3>1. jobs[k].status # "REFUNDED" /\ jobs'[k].robotId = jobs[k].robotId
            BY <1>1, <1>2, <1>3
        <3>2. Cardinality(History(q, "REFUNDED")') =
                Cardinality(History(q, "REFUNDED")) + (IF q = jobs[k].robotId THEN 1 ELSE 0)
            BY <1>1, <3>1, HistoryGrows
        <3> QED
            BY <1>2, <3>2
    <2>3. Faults(q)' = Faults(q) + (IF q = r THEN 1 ELSE 0) /\ Faults(q) \in Nat
        BY <1>6, <2>2, FaultsCounted, FaultsNat
    <2>4. reputation[q].totalDisputes = Faults(q) /\ reputation[q].totalSlashes = Faults(q)
        BY DEF LedgerInv
    <2>5. CASE q = r
        <3>1. reputation'[q] = RecordSlash(RecordDispute(reputation[q]))
            BY <1>4, <2>1, <2>5
        <3>2. /\ reputation'[q].totalDisputes = reputation[q].totalDisputes + 1
              /\ reputation'[q].totalSlashes = reputation[q].totalSlashes + 1
            BY <1>4, <3>1, RecordsCount
        <3> QED
            BY <2>3, <2>4, <2>5, <3>2
    <2>6. CASE q # r
        <3>1. reputation'[q] = reputation[q]
            BY <1>4, <2>1, <2>6
        <3> QED
            BY <2>3, <2>4, <2>6, <3>1
    <2> QED
        BY <2>5, <2>6
<1> QED
    BY <1>5, <1>6

LEMMA LedgerStep ==
    ASSUME IInv, LedgerInv, [Next]_vars
    PROVE  LedgerInv'
<1>0. ScoresFollow'
    BY ScoresStep DEF LedgerInv
<1>1. CASE \E k \in JobIds : FinishSettle(k)
    BY <1>0, <1>1, FinishSettleLedger
<1>2. CASE \E k \in JobIds, v \in Verdicts : ResolveFault(k, v)
    BY <1>0, <1>2, FaultLedger
<1>3. CASE \/ Tick \/ IdentityStep \/ BondStep \/ StakingStep \/ UNCHANGED vars
           \/ \E k \in JobIds : BeginSettle(k)
           \/ \E k \in JobIds : ResolveValid(k)
    <2>1. jobs' = jobs
        BY <1>3, OtherChange, BeginSettleChange, ValidChange
    <2>2. \A r : History(r, "REFUNDED")' = History(r, "REFUNDED")
        BY <2>1 DEF History
    <2> QED
        BY <1>0, <1>3, <2>2, ReputationKept, LedgerFrame
<1>4. CASE Create \/ FundStep \/ Complete \/ Dispute
    <2>1. PICK k \in JobIds :
            /\ jobs[k].status # "REFUNDED" /\ jobs'[k].status # "REFUNDED"
            /\ \A j \in JobIds \ {k} : jobs'[j] = jobs[j]
        BY <1>4, CreateChange, FundChange, CompleteChange, DisputeChange
    <2>2. \A r : History(r, "REFUNDED")' = History(r, "REFUNDED")
        BY <2>1, HistoryStays
    <2> QED
        BY <1>0, <1>4, <2>2, ReputationKept, LedgerFrame
<1> QED
    BY <1>1, <1>2, <1>3, <1>4, StepCases

LEMMA LedgerKeeps ==
    ASSUME MarketInv, LedgerInv, [MarketNext]_marketVars
    PROVE  LedgerInv'
<1>1. CASE SettlementStep \/ UNCHANGED marketVars
    BY <1>1, LedgerStep DEF SettlementStep, marketVars, MarketInv, CoreInv
<1>2. CASE ListStep \/ CancelStep
    <2>1. UNCHANGED jobs
        BY <1>2, ListedCore DEF MarketInv
    <2>2. \A r : History(r, "REFUNDED")' = History(r, "REFUNDED")
        BY <2>1 DEF History
    <2>3. reputation' = reputation
        BY <1>2, ListStepLists DEF MarketInv, CancelStep, ListOffer, CancelOffer
    <2> QED
        BY <2>2, <2>3, LedgerFrame DEF LedgerInv, ScoresFollow
<1>3. CASE BuyStep
    <2>1. PICK b \in Buyers, o \in OfferIds : BuyOffer(b, o)
        BY <1>3 DEF BuyStep
    <2>2. PICK k \in JobIds :
            /\ jobs[k].status # "REFUNDED" /\ jobs'[k].status # "REFUNDED"
            /\ \A j \in JobIds \ {k} : jobs'[j] = jobs[j]
        BY <2>1, BoughtJob DEF MarketInv
    <2>3. \A r : History(r, "REFUNDED")' = History(r, "REFUNDED")
        BY <2>2, HistoryStays
    <2>4. reputation' = reputation
        BY <2>1 DEF BuyOffer, OpenJob
    <2> QED
        BY <2>3, <2>4, LedgerFrame DEF LedgerInv, ScoresFollow
<1> QED
    BY <1>1, <1>2, <1>3 DEF MarketNext

LEMMA AccountsFinite == IsFiniteSet(Accounts)
<1>1. IsFiniteSet(Users \cup {Treasury})
    BY FiniteAssumption, FS_AddElement
<1>2. IsFiniteSet((Users \cup {Treasury}) \cup {Escrow})
    BY <1>1, FS_AddElement
<1>3. IsFiniteSet(((Users \cup {Treasury}) \cup {Escrow}) \cup {BondPool})
    BY <1>2, FS_AddElement
<1>4. IsFiniteSet((((Users \cup {Treasury}) \cup {Escrow}) \cup {BondPool}) \cup {Gate})
    BY <1>3, FS_AddElement
<1>5. Accounts = (((Users \cup {Treasury}) \cup {Escrow}) \cup {BondPool}) \cup {Gate}
    BY DEF Accounts
<1> QED
    BY <1>4, <1>5

\* One balance changes.
LEMMA SupplyFollows ==
    ASSUME NEW f \in [Accounts -> Nat], NEW g \in [Accounts -> Nat], NEW u \in Accounts,
           \A c \in Accounts \ {u} : g[c] = f[c]
    PROVE  SumFunction(g) = SumFunction(f) - f[u] + g[u] /\ SumFunction(f) \in Nat
BY AccountsFinite, SumFollows

\* A transfer mints and burns nothing.
LEMMA MovedSupply ==
    ASSUME NEW f \in [Accounts -> Nat], NEW u \in Accounts, NEW w \in Accounts, u # w,
           NEW a \in Nat, a <= f[u]
    PROVE  SumFunction(Moved(f, u, w, a)) = SumFunction(f)
<1> DEFINE out == [f EXCEPT ![u] = @ - a]
           in == Moved(f, u, w, a)
<1>1. f[u] \in Nat /\ f[w] \in Nat /\ f[u] - a \in Nat
    OBVIOUS
<1>2. out \in [Accounts -> Nat] /\ out[u] = f[u] - a /\ out[w] = f[w]
      /\ \A c \in Accounts \ {u} : out[c] = f[c]
    BY <1>1
<1>3. in \in [Accounts -> Nat] /\ in[w] = f[w] + a
      /\ \A c \in Accounts \ {w} : in[c] = out[c]
    BY <1>1 DEF Moved
<1> HIDE DEF out, in
<1>4. SumFunction(out) = SumFunction(f) - f[u] + out[u] /\ SumFunction(f) \in Nat
    BY <1>2, SupplyFollows
<1>5. SumFunction(in) = SumFunction(out) - out[w] + in[w] /\ SumFunction(out) \in Nat
    BY <1>2, <1>3, SupplyFollows
<1>6. SumFunction(in) = SumFunction(f)
    BY <1>1, <1>2, <1>3, <1>4, <1>5
<1> QED
    BY <1>6 DEF in

\* No kind of fault costs more than half.
LEMMA LossIsCapped ==
    ASSUME NEW loss \in Nat
    PROVE  (IF loss > 5000 THEN 5000 ELSE loss) \in 0..5000
OBVIOUS

\* At the reliability that the ledger answers, the multiplier is what the faults leave.
LEMMA MultiplierFollows ==
    ASSUME NEW d \in Nat, NEW bps, bps = ScoreOf(d, d)
    PROVE  /\ bps \in BasisPoints
           /\ RewardsReputation # NoAddress => ReliabilityMultiplier(bps) = MultiplierLeft(d)
<1>1. bps \in BasisPoints
    BY ScoreType
<1>2. ReliabilityMultiplier(bps) = 5000 + bps
    BY <1>1 DEF ReliabilityMultiplier, BasisPoints
<1>3. PICK five, ten \in Nat : five = 500 * d /\ ten = 1000 * d
    OBVIOUS
<1> DEFINE lost == IF five > 5000 THEN 5000 ELSE five
           slashed == IF ten > 5000 THEN 5000 ELSE ten
<1>4. lost \in 0..5000 /\ slashed \in 0..5000
    BY LossIsCapped
<1> HIDE DEF lost, slashed
<1>5. Penalty(5000, d * 500) = lost /\ Penalty(5000, d * 1000) = slashed
    BY <1>3 DEF Penalty, lost, slashed
<1>6. bps = 10000 - (lost + slashed)
    BY <1>4, <1>5 DEF ScoreOf
<1>7. RewardsReputation # NoAddress => MultiplierLeft(d) = 15000 - lost - slashed
    BY <1>3 DEF MultiplierLeft, lost, slashed
<1> QED
    BY <1>1, <1>2, <1>4, <1>6, <1>7

\* The end of a settlement mints the reward of its job, or nothing.
LEMMA FinishSettleSupply ==
    ASSUME MarketInv, LedgerInv, NEW k \in JobIds, FinishSettle(k)
    PROVE  \/ VRWXSupply' = VRWXSupply
           \/ /\ jobs[k].status = "COMPLETED"
              /\ jobs'[k].status = "SETTLED"
              /\ jobs[k].workUnits # 0
              /\ VRWXSupply' = VRWXSupply +
                    (BaseReward * jobs[k].workUnits * QualityMultiplier(jobs[k].qualityScore)
                        * MultiplierLeft(Faults(jobs[k].robotId))) \div 100000000
<1>1. jobs[k].status = "COMPLETED" /\ jobs'[k].status = "SETTLED"
    BY FinishSettleChange DEF MarketInv, CoreInv
<1>2. /\ jobs[k] \in JobType /\ jobs[k].robotId \in Robots
      /\ controller[jobs[k].robotId] \in Users
      /\ vrwx \in [Accounts -> Nat] /\ reputation \in [Robots -> ReputationType]
    BY <1>1, CompletedJob DEF MarketInv, CoreInv, IInv, TypeOK
<1>3. PICK r \in Robots : r = jobs[k].robotId
    BY <1>2
<1>4. PICK u \in Accounts : u = controller[r]
    BY <1>2, <1>3, AccountsApart
<1>5. PICK quality \in QualityScores, units \in Nat :
        quality = jobs[k].qualityScore /\ units = jobs[k].workUnits
    BY <1>2 DEF JobType
<1>6. PICK rep : rep = ReputationAfterSettle(r)[r]
    OBVIOUS
<1>7. /\ rep.totalDisputes = Faults(r) /\ rep.totalSlashes = Faults(r)
      /\ ScoreFollowsCounts(rep)
    <2>1. rep = reputation[r] \/ rep = RecordJobComplete(reputation[r])
        BY <1>2, <1>6 DEF ReputationAfterSettle
    <2>2. /\ reputation[r].totalDisputes = Faults(r) /\ reputation[r].totalSlashes = Faults(r)
          /\ ScoreFollowsCounts(reputation[r]) /\ reputation[r] \in ReputationType
        BY <1>2 DEF LedgerInv, ScoresFollow
    <2> QED
        BY <2>1, <2>2, RecordsCount, RecordsRescore
<1>8. PICK bps : bps = ReliabilityScoreBps(rep)
    OBVIOUS
<1>9. RobotMultiplier(rep) \in Nat /\ RobotMultiplier(rep) = MultiplierLeft(Faults(r))
    <2>1. /\ bps \in BasisPoints
          /\ RewardsReputation # NoAddress =>
                ReliabilityMultiplier(bps) = MultiplierLeft(Faults(r))
        BY <1>7, <1>8, FaultsNat, MultiplierFollows DEF ScoreFollowsCounts
    <2>2. RewardsReputation = NoAddress =>
            RobotMultiplier(rep) = 10000 /\ MultiplierLeft(Faults(r)) = 10000
        BY DEF RobotMultiplier, MultiplierLeft
    <2>3. RewardsReputation # NoAddress => RobotMultiplier(rep) = ReliabilityMultiplier(bps)
        BY <1>8 DEF RobotMultiplier
    <2> QED
        BY <1>8, <2>1, <2>2, <2>3, MultiplierType
<1>10. Reward(quality, units, RobotMultiplier(rep)) \in Nat
    BY <1>9, RewardType
<1>11. Reward(quality, units, RobotMultiplier(rep)) =
        (BaseReward * units * QualityMultiplier(quality) * MultiplierLeft(Faults(r)))
            \div 100000000
    BY <1>9 DEF Reward
<1>12. PICK n \in Nat : n = Reward(quality, units, RobotMultiplier(rep))
    BY <1>10
<1>13. vrwx' = vrwx \/ (units # 0 /\ vrwx' = [vrwx EXCEPT ![u] = @ + n])
    BY <1>3, <1>4, <1>5, <1>6, <1>12
    DEF FinishSettle, SettleFinish, VRWXAfterSettle, OnJobFinal
<1>14. CASE vrwx' = vrwx
    BY <1>14 DEF VRWXSupply
<1>15. CASE units # 0 /\ vrwx' = [vrwx EXCEPT ![u] = @ + n]
    <2>1. /\ vrwx' \in [Accounts -> Nat] /\ vrwx'[u] = vrwx[u] + n /\ vrwx[u] \in Nat
          /\ \A c \in Accounts \ {u} : vrwx'[c] = vrwx[c]
        BY <1>2, <1>15
    <2>2. SumFunction(vrwx') = SumFunction(vrwx) - vrwx[u] + vrwx'[u] /\ SumFunction(vrwx) \in Nat
        BY <1>2, <2>1, SupplyFollows
    <2>3. VRWXSupply' = VRWXSupply + n
        BY <2>1, <2>2 DEF VRWXSupply
    <2> QED
        BY <1>1, <1>3, <1>5, <1>11, <1>12, <1>15, <2>3
<1> QED
    BY <1>13, <1>14, <1>15

LEMMA StakingSupply ==
    ASSUME IInv, StakesAccounted, StakingStep
    PROVE  VRWXSupply' = VRWXSupply
<1>1. PICK u \in Users :
        \/ \E a \in StakeAmounts : Stake(u, a) \/ RequestUnlock(u, a)
        \/ CancelUnlock(u)
        \/ Unstake(u)
    BY AmountsAssumption DEF StakingStep
<1>2. /\ u \in Accounts /\ Gate \in Accounts /\ u # Gate /\ vrwx \in [Accounts -> Nat]
      /\ stakes[u].unlockAmount \in Nat
    BY AccountsApart DEF IInv, TypeOK, StakeType
<1>3. \/ vrwx' = vrwx
      \/ \E a \in Nat : a <= vrwx[u] /\ vrwx' = Moved(vrwx, u, Gate, a)
      \/ \E a \in Nat : a <= vrwx[Gate] /\ vrwx' = Moved(vrwx, Gate, u, a)
    <2>1. CASE \E a \in StakeAmounts : Stake(u, a)
        BY <1>2, <2>1, AmountsAssumption DEF Stake
    <2>2. CASE (\E a \in StakeAmounts : RequestUnlock(u, a)) \/ CancelUnlock(u)
        BY <2>2 DEF RequestUnlock, CancelUnlock
    <2>3. CASE Unstake(u)
        BY <1>2, <2>3 DEF Unstake
    <2> QED
        BY <1>1, <2>1, <2>2, <2>3
<1>4. SumFunction(vrwx') = SumFunction(vrwx)
    BY <1>2, <1>3, MovedSupply
<1> QED
    BY <1>4 DEF VRWXSupply

LEMMA FaultSupply ==
    ASSUME IInv, NEW k \in JobIds, NEW v \in Verdicts, ResolveFault(k, v)
    PROVE  VRWXSupply' = VRWXSupply
<1>1. PICK u \in Users : u = controller[jobs[k].robotId]
    BY FaultChange, CompletedJob
<1>2. PICK c \in Users : c = disputes[k].challenger
    BY DEF ResolveFault, HasDispute, IInv, TypeOK
<1>3. vrwx' = vrwx \/ SlashStakeVRWX(u, c)
    BY <1>1, <1>2 DEF ResolveFault
<1>4. c \in Accounts /\ Gate \in Accounts /\ c # Gate /\ vrwx \in [Accounts -> Nat]
    BY AccountsApart DEF IInv, TypeOK
<1>5. PICK a \in Nat : a = SlashShare(u)
    BY SlashShareType DEF IInv, TypeOK
<1>6. vrwx' = vrwx \/ (a <= vrwx[Gate] /\ vrwx' = Moved(vrwx, Gate, c, a))
    BY <1>3, <1>4, <1>5 DEF SlashStakeVRWX
<1>7. SumFunction(vrwx') = SumFunction(vrwx)
    BY <1>4, <1>6, MovedSupply
<1> QED
    BY <1>7 DEF VRWXSupply

\* No other transaction of the core touches VRWX.
LEMMA OtherSupply ==
    ASSUME \/ Tick \/ IdentityStep \/ BondStep \/ UNCHANGED vars
           \/ Create \/ FundStep \/ Complete \/ Dispute
           \/ \E k \in JobIds : BeginSettle(k)
           \/ \E k \in JobIds : ResolveValid(k)
    PROVE  vrwx' = vrwx
<1>1. CASE Tick \/ IdentityStep \/ BondStep \/ UNCHANGED vars \/ Dispute \/ FundStep
    BY <1>1 DEF Tick, IdentityStep, BondStep, vars, Dispute, OpenDispute, FundStep, Fund
<1>2. CASE Create
    <2>1. \E u, t, r, p, d, st : OpenJob(u, t, r, p, d, st)
        BY <1>2, Zenon DEF Create, CreateJob, CreateAndFundJobFor
    <2> QED
        BY <2>1 DEF OpenJob
<1>3. CASE Complete
    <2>1. \E u, j, claim, c, q, w : AcceptClaim(u, j, claim, c, q, w)
        BY <1>3, Zenon DEF Complete, SubmitCompletion, SubmitCompletionV2
    <2> QED
        BY <2>1 DEF AcceptClaim
<1>4. CASE \E k \in JobIds : BeginSettle(k)
    BY <1>4 DEF BeginSettle, SettleBegin, SettleGuard
<1>5. CASE \E k \in JobIds : ResolveValid(k)
    BY <1>5 DEF ResolveValid
<1> QED
    BY <1>1, <1>2, <1>3, <1>4, <1>5

\* The book's part: a listing burns its fee, a sale nothing.
LEMMA BookSupply ==
    ASSUME MarketInv, ListStep \/ CancelStep \/ BuyStep
    PROVE  \/ VRWXSupply' = VRWXSupply
           \/ offerCount' = offerCount + 1 /\ VRWXSupply' = VRWXSupply - ListingFee
<1>1. CASE CancelStep \/ BuyStep
    BY <1>1 DEF CancelStep, CancelOffer, BuyStep, BuyOffer, OpenJob, VRWXSupply
<1>2. CASE ListStep
    <2>1. PICK u \in Operators : \E r, s, p, e : ListOffer(u, r, s, p, e)
        BY <1>2, ListStepLists, Zenon DEF MarketInv
    <2>2. /\ offerCount' = offerCount + 1 /\ vrwx[u] >= ListingFee
          /\ vrwx' = [vrwx EXCEPT ![u] = @ - ListingFee]
        BY <2>1 DEF ListOffer, BurnListingFee
    <2>3. u \in Accounts /\ vrwx \in [Accounts -> Nat] /\ vrwx[u] \in Nat /\ ListingFee \in Nat
        BY AccountsApart, AmountsAssumption, OfferAssumption DEF MarketInv, CoreInv, IInv, TypeOK
    <2>4. vrwx[u] - ListingFee \in Nat
        BY <2>2, <2>3
    <2>5. /\ vrwx' \in [Accounts -> Nat] /\ vrwx'[u] = vrwx[u] - ListingFee
          /\ \A c \in Accounts \ {u} : vrwx'[c] = vrwx[c]
        BY <2>2, <2>3, <2>4
    <2>6. SumFunction(vrwx') = SumFunction(vrwx) - vrwx[u] + vrwx'[u] /\ SumFunction(vrwx) \in Nat
        BY <2>3, <2>5, SupplyFollows
    <2>7. VRWXSupply' = VRWXSupply - ListingFee
        BY <2>3, <2>5, <2>6 DEF VRWXSupply
    <2> QED
        BY <2>2, <2>7
<1> QED
    BY <1>1, <1>2

\* VRWX is burned by listings alone, a fee for each, and minted by settlements alone, to
\* the reward that the robot's history leaves it, for any fee, base reward and hooks.
THEOREM SupplyJustified == MarketSpec => VRWXSupplyJustified
<1>1. MarketInit => LedgerInv
    BY LedgerInit
<1>2. MarketInv /\ LedgerInv /\ [MarketNext]_marketVars => LedgerInv'
    BY LedgerKeeps
<1>3. MarketInv /\ LedgerInv /\ [MarketNext]_marketVars =>
        [\/ VRWXSupply' = VRWXSupply
         \/ /\ offerCount' = offerCount + 1
            /\ VRWXSupply' = VRWXSupply - ListingFee
         \/ \E j \in JobIds :
              /\ jobs[j].status = "COMPLETED"
              /\ jobs'[j].status = "SETTLED"
              /\ jobs[j].workUnits # 0
              /\ VRWXSupply' = VRWXSupply +
                      (BaseReward * jobs[j].workUnits * QualityMultiplier(jobs[j].qualityScore)
                          * MultiplierLeft(Faults(jobs[j].robotId))) \div 100000000
        ]_vrwx
    <2> SUFFICES ASSUME MarketInv, LedgerInv, [MarketNext]_marketVars
                 PROVE  \/ VRWXSupply' = VRWXSupply
                        \/ /\ offerCount' = offerCount + 1
                           /\ VRWXSupply' = VRWXSupply - ListingFee
                        \/ \E j \in JobIds :
                             /\ jobs[j].status = "COMPLETED"
                             /\ jobs'[j].status = "SETTLED"
                             /\ jobs[j].workUnits # 0
                             /\ VRWXSupply' = VRWXSupply +
                                  (BaseReward * jobs[j].workUnits
                                      * QualityMultiplier(jobs[j].qualityScore)
                                      * MultiplierLeft(Faults(jobs[j].robotId))) \div 100000000
        OBVIOUS
    <2>1. CASE ListStep \/ CancelStep \/ BuyStep
        BY <2>1, BookSupply
    <2>2. ASSUME [Next]_vars
          PROVE  \/ VRWXSupply' = VRWXSupply
                 \/ \E j \in JobIds : FinishSettle(j)
        BY <2>2, StepCases, StakingSupply, FaultSupply, OtherSupply
            DEF MarketInv, CoreInv, VRWXSupply
    <2>3. CASE SettlementStep \/ UNCHANGED marketVars
        BY <2>2, <2>3, FinishSettleSupply DEF SettlementStep, marketVars
    <2> QED
        BY <2>1, <2>3 DEF MarketNext
<1> QED
    BY <1>1, <1>2, <1>3, MarketAlways, PTL DEF MarketSpec, VRWXSupplyJustified

================================================================================
