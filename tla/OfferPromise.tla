------------------------------ MODULE OfferPromise ------------------------------
(***************************************************************************)
(* What an order book promises, with no token, job or fee: only operators  *)
(* that are backed by enough stake list offers; an offer stands as it was  *)
(* listed and is sold to one buyer before it ends, or withdrawn, and never *)
(* comes back.  Operators gain and lose their backing as they please, and  *)
(* what they listed stays for sale.                                        *)
(***************************************************************************)
EXTENDS Integers

CONSTANTS OfferIds, Operators, Buyers, Terms, Ends, NoParty, NoTerms

VARIABLES
    clock,
    backed,     \* the operators with enough stake
    stage,      \* where each offer stands
    lister,     \* who listed it,
    terms,      \* on which terms,
    ends,       \* until when,
    buyer       \* and who bought it

vars == <<clock, backed, stage, lister, terms, ends, buyer>>
listing == <<lister, terms, ends>>

Init ==
    /\ backed \subseteq Operators
    /\ stage = [o \in OfferIds |-> "none"]
    /\ lister = [o \in OfferIds |-> NoParty]
    /\ terms = [o \in OfferIds |-> NoTerms]
    /\ ends = [o \in OfferIds |-> 0]
    /\ buyer = [o \in OfferIds |-> NoParty]

Advance ==
    /\ clock' > clock
    /\ UNCHANGED <<backed, stage, listing, buyer>>

Back ==
    /\ backed' \subseteq Operators
    /\ UNCHANGED <<clock, stage, listing, buyer>>

Become(o, from, to) ==
    /\ stage[o] = from
    /\ stage' = [stage EXCEPT ![o] = to]
    /\ UNCHANGED <<clock, backed>>

List(o, u, t, e) ==
    /\ u \in backed
    /\ Become(o, "none", "open")
    /\ lister' = [lister EXCEPT ![o] = u]
    /\ terms' = [terms EXCEPT ![o] = t]
    /\ ends' = [ends EXCEPT ![o] = e]
    /\ UNCHANGED buyer

Sell(o, b) ==
    /\ clock < ends[o]
    /\ Become(o, "open", "sold")
    /\ buyer' = [buyer EXCEPT ![o] = b]
    /\ UNCHANGED listing

Withdraw(o) ==
    /\ Become(o, "open", "withdrawn")
    /\ UNCHANGED <<listing, buyer>>

Next ==
    \/ Advance
    \/ Back
    \/ \E o \in OfferIds :
        \/ \E u \in Operators, t \in Terms, e \in Ends : List(o, u, t, e)
        \/ \E b \in Buyers : Sell(o, b)
        \/ Withdraw(o)

Spec == Init /\ [][Next]_vars
================================================================================
