---------------------------- MODULE ReputationLedger ----------------------------
(***************************************************************************)
(* contracts/src/depin/ReputationLedger.sol: per robot, how many jobs it   *)
(* completed, how many disputes it lost and how often it was slashed, with *)
(* the reliability score derived from them.  Its records are hooks of      *)
(* JobEscrow.settle and DisputeManager.resolve, so they are functions from *)
(* a record to a record, which their callers chain.                        *)
(***************************************************************************)
EXTENDS IdentityRegistry

VARIABLE reputation

ReputationInit ==
    reputation = [r \in Robots |->
        [totalJobs |-> 0, totalDisputes |-> 0, totalSlashes |-> 0,
         reliabilityScoreBps |-> 0]]

BasisPoints == 0..10000

\* The smaller of a capped penalty and what the count comes to.
Penalty(cap, amount) == IF cap < amount THEN cap ELSE amount

\* 5% per dispute and 10% per slash, each capped at 50%.
ScoreOf(disputes, slashes) ==
    LET total == Penalty(5000, disputes * 500) + Penalty(5000, slashes * 1000)
    IN  IF total >= 10000 THEN 0 ELSE 10000 - total

\* _updateReliabilityScore, run at the end of every record.
Rescored(rep) ==
    [rep EXCEPT !.reliabilityScoreBps = ScoreOf(rep.totalDisputes, rep.totalSlashes)]

RecordJobComplete(rep) == Rescored([rep EXCEPT !.totalJobs = @ + 1])
RecordDispute(rep)     == Rescored([rep EXCEPT !.totalDisputes = @ + 1])
RecordSlash(rep)       == Rescored([rep EXCEPT !.totalSlashes = @ + 1])

ScoreFromSecondJob(rep) == IF rep.totalJobs <= 1 THEN 10000 ELSE rep.reliabilityScoreBps

\* getReliabilityScoreBps: a robot without history is fully reliable.
ReliabilityScoreBps(rep) ==
    IF rep.totalJobs = 0 /\ rep.totalDisputes = 0 /\ rep.totalSlashes = 0
    THEN 10000
    ELSE rep.reliabilityScoreBps
================================================================================
