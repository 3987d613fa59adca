----------------------------- MODULE EscrowPromise -----------------------------
(***************************************************************************)
(* What the escrow promises, with no bond, receipt, hook or callback: the  *)
(* price of a job goes into the pot once and comes out at most once, to    *)
(* the robot's side only after a window in which nobody contested it, or   *)
(* back to the buyer only after it was contested inside that window.       *)
(* Nothing else touches the pot.                                           *)
(***************************************************************************)
EXTENDS Integers

CONSTANTS JobIds, Prices, Window

VARIABLES
    clock,
    stage,      \* where each job stands
    price,      \* what each job is worth
    windowEnd,  \* when a claimed job can no longer be contested
    pot         \* the money held

vars == <<clock, stage, price, windowEnd, pot>>

Init ==
    /\ clock = 1
    /\ stage = [j \in JobIds |-> "none"]
    /\ price = [j \in JobIds |-> 0]
    /\ windowEnd = [j \in JobIds |-> 0]
    /\ pot = 0

Advance ==
    /\ clock' > clock
    /\ UNCHANGED <<stage, price, windowEnd, pot>>

Become(j, from, to) ==
    /\ stage[j] = from
    /\ stage' = [stage EXCEPT ![j] = to]

Agree(j, p) ==
    /\ Become(j, "none", "agreed")
    /\ price' = [price EXCEPT ![j] = p]
    /\ UNCHANGED <<clock, windowEnd, pot>>

AgreeAndPay(j, p) ==
    /\ Become(j, "none", "held")
    /\ price' = [price EXCEPT ![j] = p]
    /\ pot' = pot + p
    /\ UNCHANGED <<clock, windowEnd>>

Pay(j) ==
    /\ Become(j, "agreed", "held")
    /\ pot' = pot + price[j]
    /\ UNCHANGED <<clock, price, windowEnd>>

Claim(j) ==
    /\ Become(j, "held", "claimed")
    /\ windowEnd' = [windowEnd EXCEPT ![j] = clock + Window]
    /\ UNCHANGED <<clock, price, pot>>

Contest(j) ==
    /\ clock < windowEnd[j]
    /\ Become(j, "claimed", "contested")
    /\ UNCHANGED <<clock, price, windowEnd, pot>>

PayRobot(j) ==
    /\ clock >= windowEnd[j]
    /\ Become(j, "claimed", "paid")
    /\ pot' = pot - price[j]
    /\ UNCHANGED <<clock, price, windowEnd>>

RefundBuyer(j) ==
    /\ Become(j, "contested", "refunded")
    /\ pot' = pot - price[j]
    /\ UNCHANGED <<clock, price, windowEnd>>

Next ==
    \/ Advance
    \/ \E j \in JobIds :
        \/ \E p \in Prices : Agree(j, p) \/ AgreeAndPay(j, p)
        \/ Pay(j) \/ Claim(j) \/ Contest(j) \/ PayRobot(j) \/ RefundBuyer(j)

Spec == Init /\ [][Next]_vars
================================================================================
