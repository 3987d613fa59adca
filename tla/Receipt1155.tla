------------------------------ MODULE Receipt1155 ------------------------------
(***************************************************************************)
(* contracts/src/core/Receipt1155.sol: one receipt token per settled job.  *)
(* A token id is the hash of (jobSpecHash, completionHash), here the pair; *)
(* its metadata hash covers the job id too, here the job id.  Receipts are *)
(* transferable, so their owners are not tracked, only how many exist.     *)
(***************************************************************************)
EXTENDS Chain

CONSTANTS
    JobSpecs,       \* job specification hashes
    Completions,    \* completion hashes
    MaxJobs         \* bound: how many jobs are created

ASSUME MaxJobsAssumption == MaxJobs \in Nat \ {0}

NoHash == "hash0"               \* bytes32(0)
NoToken == <<NoHash, NoHash>>   \* tokenId 0

ASSUME HashAssumption == NoHash \notin JobSpecs \cup Completions

JobIds == 1..MaxJobs
TokenIds == JobSpecs \X Completions

VARIABLES
    exists,         \* the token ids marked as existing
    metadata,       \* the job a token's metadata hash was made from, 0 if none
    supply          \* how many units of each token were ever minted

receiptVars == <<exists, metadata, supply>>

ReceiptInit ==
    /\ exists = {}
    /\ metadata = [t \in TokenIds |-> 0]
    /\ supply = [t \in TokenIds |-> 0]

MintTwice(t, j) ==
    /\ exists' = exists \cup {t}
    /\ metadata' = [metadata EXCEPT ![t] = j]
    /\ supply' = [supply EXCEPT ![t] = @ + 1]

\* mint, called by JobEscrow.settle.
Mint(t, j) ==
    /\ t \notin exists
    /\ exists' = exists \cup {t}
    /\ metadata' = [metadata EXCEPT ![t] = j]
    /\ supply' = [supply EXCEPT ![t] = @ + 1]

\* burn, called by DisputeManager.resolve: the token is only marked as gone.
Burn(t) ==
    /\ t \in exists
    /\ exists' = exists \ {t}
    /\ metadata' = [metadata EXCEPT ![t] = 0]
    /\ UNCHANGED supply
================================================================================
