------------------------------- MODULE DemoOffers -------------------------------
(***************************************************************************)
(* api/src/routes/offers.ts: the order book in the memory of the API, for  *)
(* demonstrations.  Operators and buyers are whoever a header names, a     *)
(* stake is what was posted, and no job follows a sale; but the offers     *)
(* promise what the contract's do.  Handlers do not await, so each is      *)
(* atomic; a restart forgets everything and is left out.                   *)
(***************************************************************************)
EXTENDS Integers

CONSTANTS
    OfferOperators,
    OfferBuyers,
    NoOfferParty,
    OfferTerms,         \* robot, job specification and price of an offer
    OfferDurations,     \* seconds an offer stands; the body may name any number but 0
    MinStake,           \* DEPIN_CONSTANTS.MIN_STAKE_VRWX
    PostedStakes,       \* the amounts posted as stake, any numbers
    MaxStake,           \* bound: the largest stake, and the largest debt
    MaxDemoOffers,      \* bound: offers of a behaviour
    MaxOfferTime        \* bound: the last second

ASSUME DemoOfferAssumption ==
    /\ NoOfferParty \notin OfferOperators \cup OfferBuyers
    /\ NoOfferParty \notin OfferTerms
    /\ OfferDurations \subseteq Int
    /\ PostedStakes \subseteq Int
    /\ {MinStake, MaxStake, MaxDemoOffers} \subseteq Nat
    /\ MaxOfferTime \in Nat \ {0}

DemoOfferIds == 1..MaxDemoOffers

VARIABLES
    offerClock,
    operatorStakes,
    offerCounter,
    demoOffers      \* the map "offers"

demoOfferVars == <<offerClock, operatorStakes, offerCounter, demoOffers>>

NoDemoOffer ==
    [operator |-> NoOfferParty, terms |-> NoOfferParty, expiresAt |-> 0, active |-> FALSE,
     purchasedBy |-> NoOfferParty]

DemoOfferInit ==
    /\ offerClock = 1
    /\ operatorStakes = [u \in OfferOperators |-> 0]
    /\ offerCounter = 0
    /\ demoOffers = [o \in DemoOfferIds |-> NoDemoOffer]

\* POST /offers/stake adds what was posted; a negative amount takes from the stake, below
\* nothing if it has to.
PostStake(u, amount) ==
    /\ amount # 0
    /\ operatorStakes[u] + amount \in -MaxStake..MaxStake
    /\ operatorStakes' = [operatorStakes EXCEPT ![u] = @ + amount]
    /\ UNCHANGED <<offerClock, offerCounter, demoOffers>>

Staked(u) == operatorStakes[u] >= MinStake

ListDemoOffer(u, terms, duration) ==
    LET o == offerCounter + 1
    IN  /\ duration # 0
        /\ Staked(u)
        /\ o \in DemoOfferIds
        /\ offerCounter' = o
        /\ demoOffers' = [demoOffers EXCEPT ![o] =
                [operator |-> u, terms |-> terms, expiresAt |-> offerClock + duration,
                 active |-> TRUE, purchasedBy |-> NoOfferParty]]
        /\ UNCHANGED <<offerClock, operatorStakes>>

Change(o, offer) ==
    /\ demoOffers' = [demoOffers EXCEPT ![o] = offer]
    /\ UNCHANGED <<offerClock, operatorStakes, offerCounter>>

\* A plausible slip: the last second counts, as it does for links.
BuyDemoOfferLate(b, o) ==
    /\ demoOffers[o].active
    /\ offerClock <= demoOffers[o].expiresAt
    /\ Change(o, [demoOffers[o] EXCEPT !.active = FALSE, !.purchasedBy = b])

BuyDemoOffer(b, o) ==
    /\ demoOffers[o].active
    /\ offerClock < demoOffers[o].expiresAt
    /\ Change(o, [demoOffers[o] EXCEPT !.active = FALSE, !.purchasedBy = b])

CancelDemoOffer(u, o) ==
    /\ demoOffers[o].operator = u
    /\ demoOffers[o].active
    /\ Change(o, [demoOffers[o] EXCEPT !.active = FALSE])

OfferTick ==
    /\ offerClock < MaxOfferTime
    /\ offerClock' = offerClock + 1
    /\ UNCHANGED <<operatorStakes, offerCounter, demoOffers>>

DemoOfferNext ==
    \/ OfferTick
    \/ \E u \in OfferOperators :
        \/ \E amount \in PostedStakes : PostStake(u, amount)
        \/ \E terms \in OfferTerms, d \in OfferDurations : ListDemoOffer(u, terms, d)
        \/ \E o \in DemoOfferIds : CancelDemoOffer(u, o)
    \/ \E b \in OfferBuyers, o \in DemoOfferIds : BuyDemoOffer(b, o)

-------------------------------------------------------------------------------
(* Properties: the promise is kept as GET /offers/:id shows the offers *)

\* Without one, the answer is 404.
IsShown(o) == demoOffers[o].operator # NoOfferParty

ShownOffer(o) == [active |-> demoOffers[o].active, purchasedBy |-> demoOffers[o].purchasedBy]

DemoOfferStage(o) ==
    CASE ~IsShown(o)                                -> "none"
      [] ShownOffer(o).active                       -> "open"
      [] ShownOffer(o).purchasedBy # NoOfferParty   -> "sold"
      [] OTHER                                      -> "withdrawn"

DemoOfferPromise == INSTANCE OfferPromise WITH
    OfferIds <- DemoOfferIds,
    Operators <- OfferOperators,
    Buyers <- OfferBuyers,
    Terms <- OfferTerms,
    Ends <- {d + s : d \in OfferDurations, s \in 1..MaxOfferTime},
    NoParty <- NoOfferParty,
    NoTerms <- NoOfferParty,
    clock <- offerClock,
    backed <- {u \in OfferOperators : Staked(u)},
    stage <- [o \in DemoOfferIds |-> DemoOfferStage(o)],
    lister <- [o \in DemoOfferIds |-> demoOffers[o].operator],
    terms <- [o \in DemoOfferIds |-> demoOffers[o].terms],
    ends <- [o \in DemoOfferIds |-> demoOffers[o].expiresAt],
    buyer <- [o \in DemoOfferIds |-> demoOffers[o].purchasedBy]
================================================================================
