-------------------------------- MODULE DemoJobs --------------------------------
(***************************************************************************)
(* api/src/routes/jobs.ts: the life cycle of a job kept in the memory of   *)
(* the API, for demonstrations.  It has no money, no bond and no verdict,  *)
(* but promises its callers what the contracts do, in steps of a second.   *)
(* Handlers do not await, so each is atomic; a restart forgets all jobs    *)
(* and is left out.                                                        *)
(***************************************************************************)
EXTENDS Integers, FiniteSetsExt

CONSTANTS
    DemoPrices,
    DemoDeadlines,
    DemoWindow,     \* 86400 seconds in the code
    MaxDemoJobs,    \* bound: jobs of a behaviour
    MaxDemoTime     \* bound: the last second

ASSUME DemoAssumption ==
    /\ DemoPrices \subseteq Nat
    /\ DemoDeadlines \subseteq Nat
    /\ DemoWindow \in Nat
    /\ MaxDemoJobs \in Nat
    /\ MaxDemoTime \in Nat

DemoIds == 1..MaxDemoJobs

VARIABLES
    demoClock,
    jobCounter,
    demoJobs        \* the map "jobs"

demoVars == <<demoClock, jobCounter, demoJobs>>

NoDemoJob == [status |-> "none", price |-> 0, deadline |-> 0, settleAfter |-> 0]

DemoInit ==
    /\ demoClock = 1
    /\ jobCounter = 0
    /\ demoJobs = [j \in DemoIds |-> NoDemoJob]

Update(j, from, job) ==
    /\ demoJobs[j].status = from
    /\ demoJobs' = [demoJobs EXCEPT ![j] = job]
    /\ UNCHANGED demoClock

\* POST /jobs refuses a price or a deadline that is missing or 0.
CreateDemoJob(price, deadline) ==
    LET j == jobCounter + 1
    IN  /\ j \in DemoIds
        /\ deadline # 0
        /\ jobCounter' = j
        /\ Update(j, "none",
                  [NoDemoJob EXCEPT !.status = "CREATED", !.price = price, !.deadline = deadline])

FundDemoJob(j) ==
    /\ Update(j, "CREATED", [demoJobs[j] EXCEPT !.status = "FUNDED"])
    /\ UNCHANGED jobCounter

CompleteDemoJob(j) ==
    /\ demoClock <= demoJobs[j].deadline
    /\ Update(j, "FUNDED", [demoJobs[j] EXCEPT !.status = "COMPLETED",
                                               !.settleAfter = demoClock + DemoWindow])
    /\ UNCHANGED jobCounter

\* A plausible slip: settled by whoever asks first.
SettleDemoJobAtOnce(j) ==
    /\ Update(j, "COMPLETED", [demoJobs[j] EXCEPT !.status = "SETTLED"])
    /\ UNCHANGED jobCounter

SettleDemoJob(j) ==
    /\ demoClock >= demoJobs[j].settleAfter
    /\ Update(j, "COMPLETED", [demoJobs[j] EXCEPT !.status = "SETTLED"])
    /\ UNCHANGED jobCounter

DisputeDemoJob(j) ==
    /\ demoClock < demoJobs[j].settleAfter
    /\ Update(j, "COMPLETED", [demoJobs[j] EXCEPT !.status = "DISPUTED"])
    /\ UNCHANGED jobCounter

DemoTick ==
    /\ demoClock < MaxDemoTime
    /\ demoClock' = demoClock + 1
    /\ UNCHANGED <<jobCounter, demoJobs>>

DemoNext ==
    \/ DemoTick
    \/ \E p \in DemoPrices, d \in DemoDeadlines : CreateDemoJob(p, d)
    \/ \E j \in DemoIds :
        FundDemoJob(j) \/ CompleteDemoJob(j) \/ SettleDemoJob(j) \/ DisputeDemoJob(j)

-------------------------------------------------------------------------------
(* Properties: the promise is kept as GET /jobs/:id shows the jobs *)

\* What the escrow would hold for each job.
DemoOwed ==
    [j \in DemoIds |-> IF demoJobs[j].status \in {"FUNDED", "COMPLETED", "DISPUTED"}
                       THEN demoJobs[j].price ELSE 0]

DemoPot == SumFunction(DemoOwed)

\* The status, or 404.
ShownJob(j) == IF demoJobs[j].status = "none" THEN "404" ELSE demoJobs[j].status

DemoStage(j) ==
    CASE ShownJob(j) = "404"       -> "none"
      [] ShownJob(j) = "CREATED"   -> "agreed"
      [] ShownJob(j) = "FUNDED"    -> "held"
      [] ShownJob(j) = "COMPLETED" -> "claimed"
      [] ShownJob(j) = "DISPUTED"  -> "contested"
      [] ShownJob(j) = "SETTLED"   -> "paid"

DemoPromise == INSTANCE EscrowPromise WITH
    JobIds <- DemoIds,
    Prices <- DemoPrices,
    Window <- DemoWindow,
    clock <- demoClock,
    stage <- [j \in DemoIds |-> DemoStage(j)],
    price <- [j \in DemoIds |-> demoJobs[j].price],
    windowEnd <- [j \in DemoIds |-> demoJobs[j].settleAfter],
    pot <- DemoPot
================================================================================
