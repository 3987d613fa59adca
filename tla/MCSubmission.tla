------------------------------- MODULE MCSubmission -------------------------------
(***************************************************************************)
(* Small instances of Submission for TLC: one job under one chain id or    *)
(* two, and requests that differ in what the code tells apart.             *)
(***************************************************************************)
EXTENDS Submission, TLC

CONSTANTS k1, k2, k3, m1, m2

RequestSymmetry == Permutations(Requests)

\* What the states are told apart by: no step or property reads when a row of the queue is to
\* be retried, for the replay of the rows is in Replay.
StateView ==
    <<clock, [r \in Requests |-> rows[r].type], keys, stored, chainVars, requestVars>>

SignedBy(k, m, c) ==
    [body |-> "good", key |-> k, manifest |-> m, path |-> "relay", dryRun |-> FALSE,
     sig |-> "good", controller |-> c]

Custodial == [SignedBy(k1, m1, "right") EXCEPT !.sig = "none"]

DryRun == [SignedBy(k1, m1, "right") EXCEPT !.path = "typed", !.dryRun = TRUE]

ToSign == [SignedBy(k1, m1, "right") EXCEPT !.path = "typed"]

Invalid == [SignedBy(k1, m1, "right") EXCEPT !.body = "invalid"]

\* Bodies on which the code throws: before the guard, in the check of the controllers, and
\* where it needs the number of the job, for a relay and for a dry run.
Misshapen == [SignedBy(k1, m1, "right") EXCEPT !.body = "misshapen"]

BadJob == [SignedBy(k3, m1, "right") EXCEPT !.body = "badJob"]

ThrownOn ==
    {Misshapen, SignedBy(k1, m1, "malformed"), BadJob,
     [BadJob EXCEPT !.path = "typed", !.dryRun = TRUE]}

MixedInputs ==
    {SignedBy(k1, m1, "right"), SignedBy(k2, m2, "none"), Custodial, DryRun, Invalid}
        \cup ThrownOn

\* Bound: a request on which the code throws comes with one other.
ThrownOnWithOneOther ==
    (\E r \in Requests : input[r] \in ThrownOn) =>
        Cardinality({r \in Requests : input[r] # NoInput}) <= 2

RelayedInputs == {SignedBy(k1, m1, "right"), SignedBy(k1, m2, "right")}

SigningInputs == {ToSign}
================================================================================
