------------------------------- MODULE OfferBook -------------------------------
(***************************************************************************)
(* contracts/src/market/OfferBook.sol with the fee router it charges       *)
(* (depin/FeeRouter.sol): an operator with enough stake burns a listing    *)
(* fee to offer a robot's work at a price; a buyer takes the offer and     *)
(* gets a funded job in the same transaction.                              *)
(***************************************************************************)
EXTENDS DisputeManager

CONSTANTS
    Book,           \* the contract's own address
    BookStaking,    \* stakingGate, as setStakingGate set it
    MinStakeVRWX,   \* StakingGate.minStakeVRWX
    ListingFee,     \* what one listing burns: feeRouter.listingFeeVRWX, 0 without a router
    JobExtension,   \* defaultDeadlineExtension (7 days)
    MaxOffers       \* bound: offers of a behaviour

OfferIds == 1..MaxOffers

ASSUME OfferAssumption ==
    /\ Book \in Users
    /\ MinStakeVRWX \in Nat
    /\ ListingFee \in Nat
    /\ JobExtension \in Nat
    /\ MaxOffers \in Nat

VARIABLES
    offerCount,
    offers,         \* the record of each offer id; the zero record before it is made
    purchases       \* the OfferPurchased events: offer, buyer, job

offerVars == <<offerCount, offers, purchases>>

NoOffer ==
    [operator |-> NoAddress, robotId |-> NoHash, jobSpecHash |-> NoHash, price |-> 0,
     expiresAt |-> 0, active |-> FALSE]

OfferInit ==
    /\ offerCount = 0
    /\ offers = [o \in OfferIds |-> NoOffer]
    /\ purchases = {}

HasMinStake(u) == stakes[u].staked >= MinStakeVRWX

\* A plausible slip: an offer stands until it is withdrawn.
IsListed(o) == offers[o].active

\* isPurchasable, and the filter of both getActiveOffers views.
IsPurchasable(o) == offers[o].active /\ now < offers[o].expiresAt

StillListed(o) == offers

Unlisted(o) == [offers EXCEPT ![o].active = FALSE]

BurnListingFee(operator) ==
    /\ vrwx[operator] >= ListingFee
    /\ vrwx' = [vrwx EXCEPT ![operator] = @ - ListingFee]

\* What the two creating functions share; nobody asks who controls the robot.
ListOffer(operator, r, spec, price, expiresAt) ==
    /\ BookStaking # NoAddress => HasMinStake(operator)
    /\ price # 0
    /\ BurnListingFee(operator)
    /\ offerCount < MaxOffers
    /\ offerCount' = offerCount + 1
    /\ offers' = [offers EXCEPT ![offerCount + 1] =
            [operator |-> operator, robotId |-> r, jobSpecHash |-> spec, price |-> price,
             expiresAt |-> expiresAt, active |-> TRUE]]
    /\ UNCHANGED <<chainVars, balance, controller, bondVars, receiptVars, reputation,
                   jobVars, disputes, stakes, purchases>>

CreateOffer(operator, r, spec, price, duration) ==
    /\ duration # 0
    /\ ListOffer(operator, r, spec, price, now + duration)

\* The service type labels the offer and its job; the bond argument is not used.
CreateOfferV2(operator, r, spec, price, deadline) ==
    /\ deadline > now
    /\ ListOffer(operator, r, spec, price, deadline)

CancelOffer(operator, o) ==
    /\ offers[o].operator = operator
    /\ offers[o].active
    /\ offers' = Unlisted(o)
    /\ UNCHANGED <<chainVars, balance, controller, bondVars, receiptVars, reputation, vrwx,
                   jobVars, disputes, stakes, offerCount, purchases>>

PayFeeToBook(buyer, price) ==
    /\ balance[buyer] >= price
    /\ balance' = Moved(Moved(balance, buyer, Book, price), Book, Escrow, Payout(price))

\* The book lets the job be created from the price it collected.
PayThroughBook(buyer, price) ==
    /\ balance[buyer] >= price
    /\ balance' = Moved(Moved(balance, buyer, Book, price), Book, Escrow, price)

\* buyOffer and buyOfferV2, with createAndFundJobFor or createAndFundJobV2For.
BuyOffer(buyer, o) ==
    LET offer == offers[o]
    IN  /\ offer.operator # NoAddress
        /\ IsPurchasable(o)
        /\ offers' = Unlisted(o)
        /\ PayThroughBook(buyer, offer.price)
        /\ Book \in AuthorizedCallers
        /\ OpenJob(buyer, offer.jobSpecHash, offer.robotId, offer.price,
                   now + JobExtension, "FUNDED")
        /\ purchases' = purchases \cup
                {[offer |-> o, buyer |-> buyer, job |-> jobCount + 1]}
        /\ UNCHANGED <<offerCount, disputes, stakes>>
================================================================================
