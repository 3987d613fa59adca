------------------------------- MODULE Deployment -------------------------------
(***************************************************************************)
(* contracts/script: the transactions of Deploy and of DeployFull, in      *)
(* their order, and what each leaves in the contracts: which contract has  *)
(* the address of which, and which one admits the calls of which.  The     *)
(* transactions are mined one after the other, and whoever watches the     *)
(* chain may use the contracts in between.                                 *)
(***************************************************************************)
EXTENDS Naturals, Sequences

VARIABLES
    script,     \* the script that runs
    mined,      \* how many of its transactions were mined
    contracts,  \* the contracts there are
    wires       \* <<c, slot, d>>: contract c has d in that slot, or in that list

deploymentVars == <<script, mined, contracts, wires>>

\* A transaction: the contracts it creates, and what it stores.
Creates(c, stores) == [makes |-> {c}, stores |-> {<<c, s[1], s[2]>> : s \in stores}]

Stores(c, stores) == [makes |-> {}, stores |-> {<<c, s[1], s[2]>> : s \in stores}]

-------------------------------------------------------------------------------
(* Constructors *)

NewStableToken == Creates("stableToken", {})
NewVRWXToken == Creates("vrwxToken", {})
NewIdentity == Creates("identity", {})
NewReceipt == Creates("receipt", {})
NewReputation == Creates("reputation", {})
NewBond == Creates("bond", {<<"token", "stableToken">>, <<"identity", "identity">>})
NewEscrow == Creates("escrow", {<<"token", "stableToken">>})
NewRewards == Creates("rewards", {<<"vrwxToken", "vrwxToken">>})
NewStakingGate == Creates("stakingGate", {<<"vrwxToken", "vrwxToken">>})
NewFeeRouter ==
    Creates("feeRouter", {<<"vrwxToken", "vrwxToken">>, <<"token", "stableToken">>})
NewDisputes ==
    Creates("disputes", {<<"escrow", "escrow">>, <<"bond", "bond">>, <<"receipt", "receipt">>})
NewOfferBook == Creates("offerBook", {<<"escrow", "escrow">>, <<"token", "stableToken">>})

-------------------------------------------------------------------------------
(* Setters of the admin, who is the deployer *)

\* A plausible slip: the disputes are left for later.
SetThreeContracts(identity, bond, receipt, disputes) ==
    Stores("escrow", {<<"identity", identity>>, <<"bond", bond>>, <<"receipt", receipt>>})

SetContracts(identity, bond, receipt, disputes) ==
    Stores("escrow", {<<"identity", identity>>, <<"bond", bond>>, <<"receipt", receipt>>,
                      <<"disputeManager", disputes>>})

SetDepinContracts(rewards, reputation, fees) ==
    Stores("escrow", {<<"rewards", rewards>>, <<"reputation", reputation>>,
                      <<"feeRouter", fees>>})

SetDisputeDepin(stakingGate, reputation) ==
    Stores("disputes", {<<"stakingGate", stakingGate>>, <<"reputation", reputation>>})

\* setJobEscrow and setDisputeManager, which five contracts have alike.
SetJobEscrow(c) == Stores(c, {<<"jobEscrow", "escrow">>})

SetDisputeManager(c) == Stores(c, {<<"disputeManager", "disputes">>})

SetRewardsLedger(ledger) == Stores("rewards", {<<"reputation", ledger>>})

SetStakingGate(gate) == Stores("offerBook", {<<"stakingGate", gate>>})

SetFeeRouter(router) == Stores("offerBook", {<<"feeRouter", router>>})

\* setAuthorizedCaller of the escrow and of the fee router.
SetAuthorizedCaller(c, caller) == Stores(c, {<<"authorizedCallers", caller>>})

GrantRole(role, holder) == Stores("vrwxToken", {<<role, holder>>})

-------------------------------------------------------------------------------
(* The scripts *)

WireCore ==
    <<SetContracts("identity", "bond", "receipt", "disputes"),
      SetJobEscrow("bond"), SetDisputeManager("bond"),
      SetJobEscrow("receipt"), SetDisputeManager("receipt")>>

Deploy ==
    <<NewStableToken, NewIdentity, NewBond, NewReceipt, NewEscrow, NewDisputes>> \o WireCore

\* Phases 1 to 3 of DeployFull, when there is a stablecoin.
CreateAll ==
    <<NewVRWXToken, NewIdentity, NewBond, NewReceipt, NewReputation, NewFeeRouter,
      NewStakingGate, NewEscrow, NewRewards, NewDisputes, NewOfferBook>>

\* Phase 4.  The escrow is given the fee router for its reputation ledger, and the ledger
\* for its fee router.
WireAll ==
    WireCore \o
    <<SetDepinContracts("rewards", "feeRouter", "reputation"),
      SetAuthorizedCaller("escrow", "offerBook"),
      SetDisputeDepin("stakingGate", "reputation"),
      SetDisputeManager("stakingGate"),
      SetJobEscrow("reputation"), SetDisputeManager("reputation"),
      SetJobEscrow("rewards"), SetRewardsLedger("reputation"),
      SetStakingGate("stakingGate"), SetFeeRouter("feeRouter"),
      SetAuthorizedCaller("feeRouter", "offerBook"),
      GrantRole("MINTER", "rewards"), GrantRole("BURNER", "feeRouter")>>

DeployFull == CreateAll \o WireAll

\* The stablecoin is there before, or is the mock that comes first.
Transactions ==
    CASE script = "Deploy"                   -> Deploy
      [] script = "DeployFull"               -> <<NewStableToken>> \o DeployFull
      [] script = "DeployFull, STABLE_TOKEN" -> DeployFull

DeploymentInit ==
    /\ script \in {"Deploy", "DeployFull", "DeployFull, STABLE_TOKEN"}
    /\ mined = 0
    /\ contracts = IF script = "DeployFull, STABLE_TOKEN" THEN {"stableToken"} ELSE {}
    /\ wires = {}

\* Constructors and setters refuse the zero address, which is what a variable of the script
\* holds before its contract is created.
Goes(tx) == \A s \in tx.stores : {s[1], s[3]} \subseteq contracts \cup tx.makes

Mine ==
    /\ mined < Len(Transactions)
    /\ LET tx == Transactions[mined + 1]
       IN  /\ Goes(tx)
           /\ contracts' = contracts \cup tx.makes
           /\ wires' = wires \cup tx.stores
    /\ mined' = mined + 1
    /\ UNCHANGED script

-------------------------------------------------------------------------------
(* Calls between contracts: who calls, the slot where it finds whom, whom *)
(* it means to call, and the slot or list in which the callee must have it *)

Call(from, slot, to, guard) == [from |-> from, slot |-> slot, to |-> to, guard |-> guard]

\* Functions that anybody may call have no guard.
NoGuard == "none"

CreateJobCalls == {Call("escrow", "bond", "bond", "jobEscrow")}

IdentityCalls == {Call(c, "identity", "identity", NoGuard) : c \in {"bond", "escrow"}}

RecordJobComplete == Call("escrow", "reputation", "reputation", "jobEscrow")

SettleCalls ==
    {Call("escrow", "receipt", "receipt", "jobEscrow"), RecordJobComplete,
     Call("escrow", "rewards", "rewards", "jobEscrow"),
     Call("rewards", "reputation", "reputation", NoGuard),
     Call("rewards", "vrwxToken", "vrwxToken", "MINTER")}

OpenDisputeCalls == {Call("disputes", "escrow", "escrow", "disputeManager")}

ResolveCalls ==
    OpenDisputeCalls \cup
    {Call("disputes", c, c, "disputeManager") : c \in {"bond", "receipt", "reputation", "stakingGate"}}

BookCalls ==
    {Call("offerBook", "stakingGate", "stakingGate", NoGuard),
     Call("offerBook", "feeRouter", "feeRouter", "authorizedCallers"),
     Call("feeRouter", "vrwxToken", "vrwxToken", "BURNER"),
     Call("offerBook", "escrow", "escrow", "authorizedCallers")}

AllCalls ==
    CreateJobCalls \cup IdentityCalls \cup SettleCalls \cup ResolveCalls \cup BookCalls

\* Slots that may stay empty; the call is skipped then.
OptionalSlots == {"reputation", "rewards", "stakingGate", "feeRouter"}

IsSkipped(call) ==
    call.slot \in OptionalSlots /\ \A c \in contracts : <<call.from, call.slot, c>> \notin wires

Arrives(call) ==
    /\ <<call.from, call.slot, call.to>> \in wires
    /\ call.guard # NoGuard => <<call.to, call.guard, call.from>> \in wires

Succeeds(call) == call.from \in contracts => IsSkipped(call) \/ Arrives(call)

-------------------------------------------------------------------------------
(* Properties *)

\* A deployment comes to its end; when it has, every call from contract to contract reaches
\* a contract that has the function and admits the caller, but for one: after DeployFull the
\* escrow records completed jobs at the fee router.  And while it is under way, whoever can
\* create a job can contest it (Deploy.s.sol 43-48, DeployFull.s.sol 145-182).
DeploymentComplete ==
    /\ mined < Len(Transactions) => Goes(Transactions[mined + 1])
    /\ mined = Len(Transactions) =>
        \A call \in AllCalls :
            Succeeds(call) <=> ~(call = RecordJobComplete /\ script # "Deploy")
    /\ "escrow" \in contracts /\ (\A call \in CreateJobCalls : Succeeds(call)) =>
        \A call \in OpenDisputeCalls : "disputes" \in contracts /\ Succeeds(call)
================================================================================
