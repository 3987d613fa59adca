-------------------------------- MODULE MCRoutes --------------------------------
(***************************************************************************)
(* A small instance, for TLC, of the parts that share no state with each   *)
(* other: two payments and a tenant whose subscription changes twice, with *)
(* one event that somebody else posts; two jobs and two offers of the      *)
(* demonstration, the calculations, the deployment, and processes that     *)
(* start four times.  A behaviour exercises one of them, while the others  *)
(* rest.                                                                   *)
(***************************************************************************)
EXTENDS Payments, DemoOffers, Calculations, Deployment, Startup,
    DemoJobs

\* Stakes are posted up and down.
MCPostedStakes == {-1, 2}

VARIABLE part       \* the part that moves

MCInit ==
    /\ part \in {"payments", "jobs", "offers", "calculations", "deployment", "startup"}
    /\ PaymentsInit /\ DemoInit /\ DemoOfferInit /\ CalculationsInit
    /\ DeploymentInit /\ StartupInit
    /\ part # "deployment" => script = "Deploy"

MCNext ==
    /\ \/ /\ part = "payments"
          /\ PaymentsNext
          /\ UNCHANGED <<demoVars, demoOfferVars, asked, deploymentVars, startupVars>>
       \/ /\ part = "jobs"
          /\ DemoNext
          /\ UNCHANGED <<payVars, demoOfferVars, asked, deploymentVars, startupVars>>
       \/ /\ part = "offers"
          /\ DemoOfferNext
          /\ UNCHANGED <<payVars, demoVars, asked, deploymentVars, startupVars>>
       \/ /\ part = "calculations"
          /\ Ask
          /\ UNCHANGED <<payVars, demoVars, demoOfferVars, deploymentVars, startupVars>>
       \/ /\ part = "deployment"
          /\ Mine
          /\ UNCHANGED <<payVars, demoVars, demoOfferVars, asked, startupVars>>
       \/ /\ part = "startup"
          /\ StartupNext
          /\ UNCHANGED <<payVars, demoVars, demoOfferVars, asked, deploymentVars>>
    /\ UNCHANGED part

MCSpec ==
    /\ MCInit
    /\ [][MCNext]_<<payVars, demoVars, demoOfferVars, asked, deploymentVars, startupVars,
                     part>>
    /\ Redelivery

\* The demonstration keeps the promises that the contracts keep: a job is settled or
\* contested on the same sides of the same window, and never both; an offer is listed on
\* enough stake and sold to one buyer before it ends, or withdrawn (jobs.ts 45-252,
\* offers.ts 94-261).
DemoImplementsPromises == DemoPromise!Spec /\ DemoOfferPromise!Spec
================================================================================
