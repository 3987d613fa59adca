------------------------------ MODULE BondManager ------------------------------
(***************************************************************************)
(* contracts/src/core/BondManager.sol: the stablecoin bond behind a robot. *)
(* deposit and withdraw are transactions of their own; lock, unlock and    *)
(* slash are calls made by JobEscrow and DisputeManager inside theirs, so  *)
(* they constrain the bond alone and their caller says the rest.           *)
(***************************************************************************)
EXTENDS IdentityRegistry

VARIABLES
    bonded,     \* the whole bond of each robot
    locked      \* the part of it that backs open jobs

bondVars == <<bonded, locked>>

BondInit ==
    /\ bonded = [r \in Robots |-> 0]
    /\ locked = [r \in Robots |-> 0]

WholeBond(r) == bonded[r]

\* What backs no open job.
Available(r) == bonded[r] - locked[r]

\* Anyone may add to the bond of a registered robot.
Deposit(payer, r, amount) ==
    /\ amount # 0
    /\ controller[r] # NoAddress
    /\ balance[payer] >= amount
    /\ balance' = Moved(balance, payer, BondPool, amount)
    /\ bonded' = [bonded EXCEPT ![r] = @ + amount]
    /\ UNCHANGED <<chainVars, controller, locked>>

\* Only the controller takes bond out, and only what backs no job.
Withdraw(sender, r, amount) ==
    /\ amount # 0
    /\ controller[r] = sender
    /\ amount <= Available(r)
    /\ bonded' = [bonded EXCEPT ![r] = @ - amount]
    /\ balance[BondPool] >= amount
    /\ balance' = Moved(balance, BondPool, sender, amount)
    /\ UNCHANGED <<chainVars, controller, locked>>

Lock(r, amount) ==
    /\ amount <= Available(r)
    /\ locked' = [locked EXCEPT ![r] = @ + amount]
    /\ UNCHANGED bonded

UnlockAll(r, amount) ==
    /\ locked' = [locked EXCEPT ![r] = 0]
    /\ UNCHANGED bonded

Unlock(r, amount) ==
    /\ amount <= locked[r]
    /\ locked' = [locked EXCEPT ![r] = @ - amount]
    /\ UNCHANGED bonded

\* What a slash of amount takes: never more than is locked.
Slashable(r, amount) == IF amount > locked[r] THEN locked[r] ELSE amount

SlashBondedOnly(r, amount) ==
    /\ bonded' = [bonded EXCEPT ![r] = @ - Slashable(r, amount)]
    /\ UNCHANGED locked

\* The caller moves Slashable(r, amount) from BondPool to the challenger.
Slash(r, amount) ==
    /\ locked' = [locked EXCEPT ![r] = @ - Slashable(r, amount)]
    /\ bonded' = [bonded EXCEPT ![r] = @ - Slashable(r, amount)]
================================================================================
