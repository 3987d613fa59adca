--------------------------------- MODULE Chain ---------------------------------
(***************************************************************************)
(* What the contracts of contracts/src take from the EVM: the addresses    *)
(* that hold tokens, the block timestamp, the stack of calls that are      *)
(* waiting for a callback to return, and the arithmetic of a transfer.     *)
(*                                                                         *)
(* A transaction is atomic, so it is one action; the one exception is a    *)
(* call that hands control to an address outside the system in the middle  *)
(* of its work, which is two actions with the calls made by that address   *)
(* in between.  While such a call waits, the block does not advance.       *)
(*                                                                         *)
(* The stablecoin (an ERC-20 outside the repository), in which jobs are    *)
(* paid and bonds are posted, is as JobEscrow and BondManager use it: a    *)
(* transfer that the payer cannot cover reverts the whole transaction, and *)
(* granting an allowance is part of the caller's decision to call.         *)
(***************************************************************************)
EXTENDS Integers, Sequences

CONSTANTS
    Users,          \* externally owned accounts and contracts of buyers, operators
    Treasury,       \* the address that collects the protocol fee
    InitialFunds,   \* the stablecoin that each user holds at the start
    MaxTime         \* bound: the last block timestamp of a behaviour

\* address(0), and the contracts that hold tokens.
NoAddress == "zero"
Escrow    == "JobEscrow"
BondPool  == "BondManager"
Gate      == "StakingGate"

Accounts == Users \cup {Treasury, Escrow, BondPool, Gate}

ASSUME AddressesAssumption ==
    /\ NoAddress \notin Users
    /\ Users \cap {Treasury, Escrow, BondPool, Gate} = {}
    /\ Treasury \notin {NoAddress, Escrow, BondPool, Gate}

ASSUME InitialFundsAssumption == InitialFunds \in Nat

ASSUME MaxTimeAssumption == MaxTime \in Nat \ {0}

VARIABLES
    now,        \* block.timestamp
    callStack,  \* the jobs whose settle() is waiting for its receipt callback
    balance     \* stablecoin balance of each account

chainVars == <<now, callStack>>

\* No block has timestamp 0: StakingGate uses 0 for "no unlock requested".
ChainInit ==
    /\ now = 1
    /\ callStack = <<>>

StableTokenInit ==
    balance = [a \in Accounts |-> IF a \in Users THEN InitialFunds ELSE 0]

\* The job waits inside settle().
InSettle(j) == \E i \in 1..Len(callStack) : callStack[i] = j

\* The next block; every transaction of the previous one has returned.
NextBlock ==
    /\ callStack = <<>>
    /\ now < MaxTime
    /\ now' = now + 1
    /\ UNCHANGED callStack

\* The balances after an ERC-20 transfer; a transfer to oneself changes nothing.
Moved(balances, from, to, amount) ==
    [balances EXCEPT ![from] = @ - amount, ![to] = @ + amount]
================================================================================
