-------------------------------- MODULE ChainView --------------------------------
(***************************************************************************)
(* What the API's relayer (api/src/services/relayer.ts) sees of the chain  *)
(* for one job of one robot: the job's status and completion hash, the     *)
(* robot's registration, and the transactions the relayer broadcast.       *)
(* Settlement models the contracts themselves; here they are as far as     *)
(* submitCompletionV2, getController and isActive show them.  Completions  *)
(* carry the hashes of the manifests in Storage.                           *)
(***************************************************************************)

EXTENDS WebhookRequests, Storage

VARIABLES
    job,        \* status and completionHash of the job
    late,       \* has the job's deadline passed
    robot,      \* the robot in IdentityRegistry
    tx          \* where each request's transaction is

chainVars == <<job, late, robot, tx>>

NoHash == "0x"

\* The API may be used before the job or the robot is on the chain, or after.
ChainInit ==
    /\ job \in [status : {"NONE", "FUNDED"}, completionHash : {NoHash}]
    /\ late = FALSE
    /\ robot \in {"absent", "active"}
    /\ tx = [r \in Requests |-> "none"]

ChainTypeOK ==
    /\ job \in [status : {"NONE", "FUNDED", "COMPLETED"},
                completionHash : Manifests \cup {NoHash}]
    /\ late \in BOOLEAN
    /\ robot \in {"absent", "active", "inactive"}
    /\ tx \in [Requests -> {"none", "pending", "mined", "reverted"}]

\* submitCompletionV2 goes through, given a signature of the controller: it does not ask
\* whether the robot is active.
Accepts == job.status = "FUNDED" /\ ~late

\* getControllerForRobot, when the relayer was started and the call goes through.
HasController == robot # "absent"

\* getJob; the contract answers with the zero struct for a job it does not have.
HasJob == job.status # "NONE"

\* buildClaimForSigning finds the job and its robot's controller.
HasClaim == HasJob /\ HasController

CompleteJob(m) == job' = [status |-> "COMPLETED", completionHash |-> m]

-------------------------------------------------------------------------------
FundJob ==
    /\ job.status = "NONE"
    /\ job' = [job EXCEPT !.status = "FUNDED"]
    /\ UNCHANGED <<late, robot, tx>>

DeadlinePasses ==
    /\ job.status # "NONE"
    /\ ~late
    /\ late' = TRUE
    /\ UNCHANGED <<job, robot, tx>>

RegisterRobot ==
    /\ robot = "absent"
    /\ robot' = "active"
    /\ UNCHANGED <<job, late, tx>>

DeactivateRobot ==
    /\ robot = "active"
    /\ robot' = "inactive"
    /\ UNCHANGED <<job, late, tx>>

\* The controller submits a completion without the API.
SelfSubmit(m) ==
    /\ Accepts
    /\ robot # "absent"
    /\ CompleteJob(m)
    /\ UNCHANGED <<late, robot, tx>>

\* A pending transaction, for the manifest m, gets into a block.
Mine(r, m) ==
    /\ tx[r] = "pending"
    /\ IF Accepts
       THEN CompleteJob(m) /\ tx' = [tx EXCEPT ![r] = "mined"]
       ELSE UNCHANGED job /\ tx' = [tx EXCEPT ![r] = "reverted"]
    /\ UNCHANGED <<late, robot>>

ChainStep ==
    \/ FundJob
    \/ DeadlinePasses
    \/ RegisterRobot
    \/ DeactivateRobot
    \/ \E m \in Manifests : SelfSubmit(m)
================================================================================
