# VRWX settlement, market and API, specified and verified

VRWX (Verified Robotic Work Exchange) lets a buyer pay a robot for work: Solidity
contracts hold the money, the bonds, the stakes and the receipts, and a TypeScript API
submits completions, retries what failed, keeps tenants and takes card payments. This
directory holds TLA+ modules translated from the source, the TLC configurations that
model-check them, and TLAPS proofs of the properties that matter most.

    tlc -workers 2 -config MCSettlementCore.cfg MCSettlement
    tlc -workers 2 -config MCMarket.cfg MCMarket
    tlc -workers 2 -config MCSubmission.cfg MCSubmission
    tlapm SettlementProofs.tla          (and the other *Proofs.tla)

## 1. The system

| Part | State | Operations | Calls |
|---|---|---|---|
| `core/IdentityRegistry` | controller of each robot (key, metadata, active flag) | register, rotate key, metadata, deactivate | read by all |
| `core/BondManager` | bonded, locked per robot | deposit, withdraw; lock, unlock (escrow), slash (disputes) | stablecoin |
| `core/JobEscrow` | jobs, jobCount, claimUsed | four ways to create, fund, two ways to complete, settle; refund, setDisputed (disputes) | bond, receipt, reputation, rewards, stablecoin, the buyer's ERC-1155 callback |
| `core/Receipt1155` | existing tokens, metadata | mint (escrow), burn (disputes) | the buyer's callback |
| `core/DisputeManager` | dispute per job | openDispute, resolve | escrow, bond, receipt, reputation, stakes |
| `depin/ReputationLedger` | counts and score per robot | three records | - |
| `depin/RewardsDistributor`, `VRWXToken` | VRWX balances | onJobFinal | reputation, token |
| `depin/StakingGate` | stake and pending unlock per operator | stake, request, cancel, unstake; slash (disputes) | token |
| `market/OfferBook`, `depin/FeeRouter` | offers, burned fees | create, cancel, buy (V1, V2) | stakes, escrow, fees |
| `api/middleware/idempotency`, `services/relayer`, `routes/webhook` | idempotency keys in a database | one submission per key, retry after failure or two minutes | contracts, storage, queue |
| `api/services/dlq`, `scripts/replay_dlq.ts` | dead-letter events | enqueue, retry, resolve, expire | storage |
| `api/storage`, `routes/manifests` | manifests under their hash | store, retrieve, exists, verify one or a batch | disk, R2 or S3 |
| `api/routes/onboard`, `routes/connect`, `middleware/auth`, `db` | tenants, API keys, robots, connect links and their secrets | onboard, add a robot, view and download once, rotate, register on the chain | contracts |
| `api/routes/stripe` | a row per payment, the plan of each tenant | checkout, subscribe, webhook events, queries | Stripe |
| `api/config`, `db`, `server` | the schema and the list of applied migrations | validate, open, migrate, purge, stop | the file of the database |
| `contracts/script` | the addresses that contracts keep of each other | `Deploy`, `DeployFull` | all contracts |
| `EIP712Types.sol`, `sdk/signing`, `relayer`, `proof-pack` | none | hash, sign and check a completion claim, in four places | - |
| `api/routes/jobs`, `routes/offers` | a demonstration of escrow and order book in memory | as the contracts | - |
| `api/routes/quote`, `onboard` prices, `frontend/Quote.tsx`, `sdk` | none | prices, bonds, fees, rewards, computed in four places | - |
| `api/routes/webhook`, `routes/manifests`, `services/*`, `packages/proof` | none | manifests from events, quality scores, verification, in three places | - |
| `packages/conformance` | none | post a fixture, compare the answer, verify the manifest | API |

What is hard:

* **Reentrancy.** `settle` pays, then mints a receipt to the buyer. If the buyer is a
  contract it runs right there, with the job still COMPLETED and its bond still locked,
  and may call anything, `settle` of another job included.
* **Two contracts, one fact.** A dispute's verdict and its job's status, a locked bond and
  the jobs it backs, a receipt and its settlement, a reputation and the history behind it,
  an offer and the job that was bought with it live in different contracts that are kept in
  step by calls in the right order.
* **Things read once.** A stake is looked at when an offer is made, not when it is bought;
  the deadline when a job is created, not when it is funded; the reliability of a robot
  when its job is settled, after faults that came later.
* **Boundaries of time.** The challenge window has two sides, in two contracts; the unlock
  delay of a stake races with verdicts that slash it.
* **Rounding.** The minimum bond is recomputed from the price wherever it is locked,
  freed or slashed; quotes repeat the arithmetic of the contracts in another language.
* **Retries, crashes and reordering** in the API: idempotency keys that are given up
  after two minutes while their handler still runs, a transaction whose answer is lost, a
  replay script that works on a snapshot, payment events in any number and order, a key
  rotation or an onboarding cut between two statements, a file cut while it is written,
  two processes that migrate one database at once.
* **Copies.** The same formula, the same typed claim, the same score and the same addresses
  are written in several places and languages that no compiler compares.

What makes each part correct: the escrow and the bond manager hold exactly what they owe
and release it once; a job is paid only after an uncontested window and refunded only
after a contest inside it; a bond shrinks only by its owner's withdrawal or by a whole
slash; receipts and paid jobs are one to one; a stake leaves only after its delay or by a
verdict; an offer is sold once, as it was made; VRWX is burned for a listing and minted for
work, and at no other time; every completed job is decided in the end; one handler works on
an idempotency key, a response that names a transaction is true of the chain, a completion
stays the answer of its key, what was accepted is in the storage, every failure is in the
queue and leaves it in the end; a tenant has one working key and sees each secret once; a
robot called registered is on the chain; a payment says what Stripe knows, and a plan was
bought; what is computed in several places comes out the same.

## 2. Modules

    Chain - IdentityRegistry - BondManager -----\
      |          |                               JobEscrow --\
      |          ReputationLedger - RewardsD... -/ |          DisputeManager - Settlement - Quotes
      |                               \- StakingGate --------/        |            |          |
      \- Receipt1155 ------------------------------/              OfferBook -- Market   Pricing
                                            EscrowPromise, OfferPromise: abstract specifications

    WebhookRequests - DeadLetterQueue - Idempotency --\
                 |           \- Replay                 Submission
                 \- ChainView -- Storage -------------/

    Accounts

    Payments, DemoJobs, DemoOffers, Deployment, Startup,
    Calculations (Pricing, Scoring, ServiceModules, TypedClaims)          together in MCRoutes

| Module | Models |
|---|---|
| `Chain` | block timestamp, addresses, call stack, and the stablecoin and its arithmetic as the contracts use them (external) |
| `IdentityRegistry`, `BondManager`, `Receipt1155`, `ReputationLedger`, `RewardsDistributor`, `StakingGate` | the contract of that name; `vrwx` in `RewardsDistributor` is `VRWXToken` |
| `JobEscrow` | the life of a job |
| `DisputeManager` | disputes and verdicts, with every call a verdict makes |
| `Settlement` | the composition of the core, its fairness, its properties |
| `EscrowPromise` | the abstract escrow that `Settlement` and `DemoJobs` implement |
| `OfferBook` | the order book with the fee router, and its calls to gate, token and escrow |
| `Market` | `Settlement` and `OfferBook` together, and the properties that need both |
| `OfferPromise` | the abstract order book that `Market` and `DemoOffers` implement |
| `Quotes` | `Settlement` beside the arithmetic of quotes, and their agreement |
| `WebhookRequests` | the requests posted to the webhook |
| `DeadLetterQueue` | `services/dlq.ts`: the table of failed completions and its statements |
| `Replay` | `scripts/replay_dlq.ts`, several runs of it, beside the API and an operator |
| `Idempotency` | `middleware/idempotency.ts`: the table of keys and the parts of `withIdempotency` |
| `Storage` | `api/storage` and the verification of `routes/manifests.ts`: manifests in files or in a bucket, with writes that fail half-way |
| `ChainView` | one job and one robot as `services/relayer.ts` sees them, and transactions under way |
| `Submission` | `POST /complete` of `routes/webhook.ts` with the relayer, the conformance suite that checks it and the page of `routes/metrics.ts` that counts its failures: the composition |
| `Accounts` | tenants, keys, robots, connect links, and registration on the chain |
| `Payments` | checkout and subscriptions, Stripe with its customers, the webhook's events, and what is shown of them |
| `DemoJobs`, `DemoOffers` | the job and offer routes that keep their state in memory |
| `Pricing`, `Scoring`, `Calculations` | what things cost and how completions are scored, each formula where the code has it; the requests that compare them |
| `ServiceModules` | building a manifest from a robot's events, and the modules' and proof package's verdicts on it |
| `TypedClaims` | the four copies of the EIP-712 claim: domain, fields, order, and who checks what |
| `Deployment` | every transaction of `Deploy.s.sol` and `DeployFull.s.sol`, and which contract knows which |
| `Startup` | servers and the replay script starting, migrating, stopping and crashing on one database |
| `MCSettlement`, `MCMarket`, `MCSubmission`, `MCAccounts`, `MCRoutes` | values for TLC |
| `SettlementProofs`, `SettlementMoneyProofs`, `MarketProofs`, `SubmissionProofs`, `ReplayProofs`, `AccountsProofs`, `RoutesProofs` | theorems |
| `SumTheorems` | lemmas about sums over finite sets |

**State.** Each Solidity mapping is a function of the same name. Job ids run from 1 to
`MaxJobs`, and a job that was not created is the zero struct, as in the EVM: its status
reads CREATED and its buyer `address(0)`, which is what the code tests. Offers are kept the
same way. A hash is a model value; a token id, the hash of two hashes, is their pair; a
metadata hash, which covers the job id too, is the job id. `claimUsed` holds the tuples that
are hashed; `purchases` the `OfferPurchased` events. A table is a function from its ids to
rows, with a row that stands for none.

**Steps on the chain.** A transaction is atomic and reverts as a whole, so a contract's
function is one action whose guards are all the `revert`s of the function and of everything
it calls. A call made inside another contract's function (lock, unlock, slash, mint, burn,
the three records, onJobFinal, slashStakeVRWX, burnListingFee, createAndFundJobFor) is an
operator that constrains its own contract's variables and that the caller conjoins. The one
exception to atomicity is `settle`: `SettleBegin` runs up to the receipt callback and pushes
the job on `callStack`, `SettleFinish` pops the innermost waiting job and does the rest.
Between the two, every action of every user is enabled, except those of the admin
(`resolve`), who is not a buyer, and the passing of time. A revert after the callback (the
unlock, a hook) undoes the first half as well; the hooks' part of that is the guard
`HooksCallable` of `SettleBegin`, and the unlock never reverts, because the job's whole bond
is locked (`BondsCovered`, a theorem). The hooks are constants: of the escrow
(`EscrowReputation`, `EscrowRewards`), of the disputes (`DisputeStaking`,
`DisputeReputation`) and of the distributor (`RewardsReputation`, without which every robot
is paid at 1x).

**Steps of the API.** Node runs one request at a time and changes to another only where the
code awaits; SQLite calls do not wait. So an action of `Submission` is what one request does
from one await to the next, and `pc` names the await it is in: `lookup` and `register`
before `withIdempotency`, then `store`, `verify`, `claim`, `check`, `estimate`, `send`,
`wait` or `typed` in its handler. An await whose failure the code handles may fail at any
time, whatever the chain says. `buildClaimForSigning`, `verifyControllerSignature` and
`registerRobot` make several reads; each is one action, since a job and a robot that exist
stay, and any of them may fail. Body, manifest, key, signature (`none`, `good`, `bad`) and
controller are what the code tells apart in a request; `good` means signed for this claim. No
schema stands between a request and the handler, so that a body may be `invalid` (a required
field is missing, which is queued), or pass the validation and make the code throw: a
`misshapen` patrol in `computePatrol`, before the guard; a `malformed` controller where it is
compared; a `badJob` in `BigInt(jobId)`, inside the handler. These end as an error (the last
two with a FAILED key) and leave no row. A
response keeps its manifest, its transaction, and whether it holds typed data. `Crash` loses
every request under way and keeps the tables, the storage and the chain. `overtaken` is a
history variable: the keys whose record was given up while a handler that held it still ran.
`Savable` is `JSON.stringify`, which throws on a BigInt. `AutoRegister` cannot register: the
contract object is built without `registerRobot` in its ABI (`relayer.ts:53-57, 387`), so the
call throws.

In `Accounts` the routes do not await between their SQL statements, but no transaction joins
them: the argument `done` of an action says after how many of its statements the process
ended, and `answered` whether the client got the answer. Only the registration on the chain
has awaits, so it is a process (`calls`) whose transaction may be mined after its request is
gone (`pending`). `held`, `shown` and `accidents` record what clients saw.

In `Payments`, Stripe is a set of events that were sent and a set of those still due: any
event may be delivered again at any time, and stays due until it is answered. The route is
public and verifies only what has a signature header (`stripe.ts:241`), so `PostUnsigned` is
any event of any payment or tenant from somebody else, at any time and with a secret or
without; `posted` remembers them. Nothing is assumed of who posts: the properties say what
Stripe's events make of the rows, and name what somebody else's event of the same payment or
tenant may change of that.

In `Startup`, a step is one transaction on the database that the processes share; a migration
and its mark are one transaction, and a process knows of the marks only what it read when it
started. In `Deployment`, a step is one transaction of the script's broadcast. `Calculations`
keeps one question and its answers.

A run of the replay script is a process of `Replay`: `StartRun` expires, reads and filters,
`BeginRetry` and `FinishRetry` are the two sides of the only await of a retry.
The payload of an event is the body as it was posted. `WithManifest` are the requests whose
body also has a `manifestHash` and a `manifest`, which no field of `CompletePayload` is
called and nothing removes: only their uploads can succeed. `cleanupOldEvents`, `deleteDLQEvent`, `cleanupExpiredIdempotency` and `markResolved` with
MANUAL have no caller in the repository; they are what an operator has, so they may be
called at any time.

**Abstracted.** An EIP-712 signature is "the controller signed this claim"; allowances
are part of the decision to call; V2 jobs and offers differ from V1 by an event and by how
the end of an offer is given; admin setters are constants (a deployment is configured once, as `Deployment` has it);
`jobServiceTypes` is read by events only; 256-bit overflow is out of reach of any token
supply. Passing a receipt on, and the key, metadata and active flag of a robot, touch
nothing that another contract reads. A restart of the API, which forgets the demonstration's
jobs and offers, is left out of `DemoJobs` and `DemoOffers`. The table `job_completions`
stays empty (section 4).

## 3. Runs

| Run | Instance | States | Shows |
|---|---|---|---|
| `core` | 2 robots, 2 jobs, prices 9 (bond 0, fee 0) and 40 (bond 4, fee 1), window 2, time to 4 | 299k | the safety of settlement, its agreement with quotes, and the refinement |
| `market` | 1 robot, 2 offers, 2 jobs, a buyer, an operator and the book, price 40, stakes of 4, window 1, time to 3 | 1.55M | the book over the settlement core, stakes and VRWX |
| `live` | 2 jobs, 2 completion hashes, one buyer without receipt callback | 226k | `CompletedIsDecided` under fairness |
| `valid_verdict` | 1 job | | violated: VALID does not free the bond |
| `deploy_full` | the addresses of `DeployFull.s.sol` | | violated: nothing can be settled |
| `submission` | 3 requests of 9 kinds, 2 keys of one job and one of no job, 2 manifests, one restart or step of another on the chain, strict and required storage | 2.28M | the safety of `POST /complete` |
| `first_success` | the same with signed requests | | violated: an overtaken handler undoes a completion |
| `typed_data` | 1 selfSubmit request to a relaying API | | violated: the answer cannot be saved |
| `replay` | 2 events, one with a manifest in its body, 2 runs at a time, 2 retries, one forced or killed run, time to 3 | 386k | bounds, resolutions, and `EventsEnd` under fairness |
| `replay_upload` | 1 event with an ordinary body, 1 run at a time, a storage that works | | violated: no replay reaches the storage |
| `accounts` | 2 tenants, 2 robots, 3 keys, a registering request and those that died before it | 2.43M | keys, secrets and registrations through crashes |
| `routes` | the parts named below, one at a time | 653k | payments, calculations, deployment, start-up, demonstrations |

**`core`.** `MoneyAccounted` and `BondAccounted` are exact balances; `BondsCovered` says no
unlock or slash falls short; `DisputesMatchJobs`, `ReceiptsMatchJobs` and
`ReputationMatchesHistory` relate two contracts; `WaitingSettlementsIntact` is what
reentrancy must not break; `SettleableAfterWindow` says that a completed job past its window
can be settled then and there (so no other job starves it of money or bond);
`BondLossJustified` is an action property; `QuotesMatchContracts` compares the fee, bond,
payout, reward and reliability that the SDK and `POST /quote` compute, and the ranges that
`GET /quote/parameters` publishes, with what the contracts do in that very state (the
reward if the distributor has a ledger; without one it mints at 1x where the quote says
1.5x); `ImplementsPromise` is the refinement: `Stage` maps a job to none,
agreed, held, claimed, contested, paid or refunded, a job counts as paid from `SettleBegin`
on, and the pot is the escrow's stablecoin balance.

**`market`.** `SalesMatchJobs` pairs every sold offer with one job, made as the offer said
and funded at once; `SalesPaidAndBonded` says a sold job's price and its robot's bond are
really held; `StakeLossJustified` allows a stake to shrink only by its owner after the delay
or by a verdict; `VRWXSupplyJustified` ties every burn to a listing and every mint to a
settlement; `ExpiredJobFrozen` states what the code does with a job past its deadline,
late funding included; `MarketImplementsPromise` is the refinement to `OfferPromise`.

**`submission`.** `OneHandlerPerKey` is what the middleware is for; `ResponsesBackedByChain`
says a response with a transaction hash, given or kept, names the transaction that completed
the job, with its manifest, that a request which is carried out is answered with its own
transaction (a dry run or a custodial completion with none), and that a cached answer is the
one some request of the same key got; so an accepted completion that is on no chain got the
answer of a dry run or a custodial completion before it. `AcceptedIsStored` says that what was accepted can be read and
verifies, alone, in a batch and in the conformance package's suite; `QueueHasFailures`
relates answers to the queue, and both to the numbers on the metrics page: every failure
has a row but for a response that cannot be saved and a body on which the code throws;
`CompletionsKept` is an action property. `OneHandlerPerKey` and `CompletionsKept` speak of
keys that were not overtaken; `first_success` shows what happens to the others.
`AcceptedIsStored` excepts a manifest of which a later write was cut short: local files are
written over in place.

**`replay`.** `RetriesBounded` is the limit the code really has: two runs that read the same
event each add a retry. `ResolutionKept` is an action property: only the end of an upload
that succeeded resolves an event as RETRIED, and it alone may write over what an operator
resolved meanwhile, as line 146 does; a failed or ordinary upload, an older snapshot or another
type of event never does. `EventsEnd` is leads-to.

**`accounts`.** `OneWorkingKey` (never two, and none only after a crash between two
statements or a lost answer; who gets in finds a robot and its configuration), `SecretsShownOnce` (each key leaves in one answer at most), and
`RegisteredIsOnChain`, whichever of two requests wins.

**`routes`.** A behaviour exercises one `part`; the parts share no state in the code either.

* *payments*: `PaymentsMatchStripe` and `PlanWasBought` under events in any number and order,
  `PaidGetsCompleted` leads-to; each excepts what somebody else posted of the same payment or
  tenant, and nothing more.
* *jobs*, *offers*: `DemoImplementsPromises`: the demonstrations implement the abstract escrow
  and the abstract order book.
* *calculations*: inputs are enumerated, each checked once. `ChargedAsQuoted` compares prices;
  `ScoresAgree` compares `POST /complete`, the recomputation from the stored manifest, the
  service modules and the proof package, over all coverages, visits and times that round or
  bound differently (lists of seconds shorter and longer than the visits, and jobs that want
  visits of 1, 15, 30 and 90 seconds), and over bundles of up to 4 events in every order, one doubled;
  `ClaimsAgree` signs a claim by one of the four copies of the EIP-712 types and presents it
  to each checker, with swapped values, versions, chains and escrows.
* *deployment*: `DeploymentComplete`: when either script has run to its end, every contract
  knows the ones it calls and the ones that call it; excepted is exactly the swapped argument
  that `deploy_full` is about.
* *startup*: `SchemaFollowsMigrations`: through kills between any two transactions and an old
  and a new release starting at once, the tables and columns of the database are those of the
  files recorded as applied, so a restart always heals.

**Bounds of the settlement runs.** Two jobs are the least with which two settlements can
nest, share a robot's bond or share a receipt id. With both robots available the same run
covers jobs of one robot and of two. A bond of at most 8 (`MaxBonded`) backs two jobs of price
40; withdrawing 4 leaves one of them covered only because `Available` looks at what is locked.
`MaxTime` 4 with a window of 2 reaches both sides of every window that opens at 1 or 2.
`InitialFunds` pays for both jobs and both bonds. In `market` the stake of 4 is the minimum,
so that one offer can be listed and its operator unstake or be slashed before it is sold; a
listing fee of 1 and 6 VRWX leave enough for two listings and not for three; delay, window
and the extension of an offer are 1, so that every deadline can pass. `MaxTime`, `MaxJobs`,
`MaxBonded`, `Buyers` and `Operators` are bounds of the runs, not of the code.
`CHECK_DEADLOCK FALSE`: at `MaxTime` with all jobs closed, the bounded system stops.

**Bounds of the API runs.** Three requests: one that holds a key, one that takes it over, one
that gets the answer. `StuckAfter` 0 and `TTL` 1 keep the order of the two (a record is given
up before it expires), so that with time to 2 a record can be taken over, completed and
expire. `MaxEvents` 1 pays for one restart, one completion by the controller, one deadline
that passes, one registration or one deactivation; blocks come besides. A record is not
cleaned up and reused more often than time allows. A request on which the code throws comes
with one other request, not two (`ThrownOnWithOneOther`): it sends nothing and keeps no
response, so that it meets the others only in the key that it takes and fails. States of `submission` that differ only in
the time of a row's next retry are taken for one (`StateView`): the API reads it only to count
what is due, which no property is about. `Requests` are a symmetry set in `submission`,
tenants and robots in `accounts` (safety only; they differ in nothing but their state). In `replay`, events come at time 0 (`EnqueueUntil`), so that they can be followed to
their end; `EventsEnd` excuses an event whose next retry lies after `MaxTime`. In `accounts`,
three keys allow a tenant's first key and two rotations, or two tenants and one rotation;
`TokenTTL` 0 and `MaxTime` 1 are a link that works and one that ran out; a request that
registers may be overtaken by transactions of any number of dead ones, and `MCSpec` lets
other requests wait while one registers. In `routes`: two payments and one tenant (rows do
not interact), two changes of a subscription (bought and changed, or bought and ended, in any
order of delivery), and one event that somebody else posts, as often as it likes; two jobs or offers of the demonstrations; two processes and four starts with
releases of five and of seven migration files. `CHECK_DEADLOCK FALSE`: each of these bounded
systems may stop.

**Fairness.** `Settlement`: time passes (`WF(Tick)`); a transaction that began returns
(`WF(FinishSettle)`); somebody calls `settle` on a job that can be settled
(`WF(BeginSettle)`): it is open to anyone, and the controller is owed its payout. No
fairness is assumed of buyers, of the admin or of any other action. `Replay`: time passes,
the script is run again and again (`docs/dlq-replay.md` leaves that to the operator; without
it nothing leaves the queue), and a run that is not killed goes on, its upload succeeding or
failing. Nothing else is assumed of the operator, nor of runs with options. `Payments`: Stripe
delivers an event again until it is answered with success, as it does for days; customers owe
nothing. `Submission` has no liveness property: `tx.wait` has no limit, and no document
promises an answer. Nor has `Startup`: nothing restarts a process but its operator.

## 4. What the code does against its documents

* **A VALID verdict frees nothing** (`ValidVerdictFreesBond`). `DisputeManager.sol:142-143`
  says the job "continues to settled state" and the "bond is unlocked"; the code records
  the verdict and stops. The job stays DISPUTED, which `settle` refuses and `refund`
  cannot be reached from again; payment and bond stay locked for good. (The comment's next
  lines admit the missing settlement, not the bond.)
* **`DeployFull.s.sol:154` swaps two addresses** (`SettleableAfterWindow`).
  `setDepinContracts(rewards, reputation, fees)` is called with the fee router as
  the reputation ledger, so `settle` reverts in its first hook for every job, against
  `README.md:58`.
* **A handler that was overtaken undoes the completion of its successor**
  (`FirstSuccessCached`). The UPDATEs that end `withIdempotency` (`idempotency.ts:156-171`)
  name only the key. After two minutes a retry may take the key over and complete; when the
  first handler then fails, the COMPLETED record turns FAILED, against
  `docs/idempotency.md:13` ("cached response from first successful completion").
* **Typed data is never returned by an API that relays** (`SelfSubmitAnswered`). The domain's
  `chainId` is a BigInt (`relayer.ts:131`), on which saving the response throws
  (`idempotency.ts:160`), against `webhook.ts:51`.
* **A queued upload is never replayed** (`UploadsReplayed`). The replay wants `manifestHash`
  and `manifest` in the payload (`replay_dlq.ts:159-163`); the webhook queues the body of the
  request (`webhook.ts:482`), which has neither unless its sender added them. Each replay fails before the storage is called, until the
  event is EXPIRED, against `replay_dlq.ts:116` and `docs/dlq-replay.md:3`.

Observed while modelling; each is in the model as the code has it, and no run is about it.

* *Contracts.* A funded job whose deadline passes can be neither completed nor refunded
  (`ExpiredJobFrozen` states it); a created job that is never funded keeps its robot's bond
  locked and cannot be cancelled; `fund` accepts a job past its deadline; two jobs with equal
  specification and completion hashes share a receipt id, so the second can never be settled;
  a buyer contract that refuses ERC-1155 tokens blocks its own job's payout. The stake of an
  operator is looked at when it lists, so it may unstake while its offers are open, although
  `MultiServicesInvariant.t.sol` claims in `invariant_stakeRequirement` that it keeps the
  minimum; `hasMinStake` counts tokens that already wait to be unlocked. The active flag of a
  robot is read by no contract.
* *Completions.* A stuck key is given up by one request and taken by the next (the first is
  told that another is in progress); a dry run or a custodial completion is cached as the
  answer to a later signed completion of the same job; two chain ids are two keys of one job;
  `tx.wait` has no limit; the check of `robotId` at `webhook.ts:287` leaves the resolution by
  API key at 311 without a case; a request without timestamps has another manifest hash on
  every retry, for `startTs` and `endTs` default to the clock; requests to R2 and S3 are not
  signed. The row for the live feed, "both modes" by `webhook.ts:676`, is inserted in none: the
  INSERT names two columns that no migration defines, and its failure is only logged (it is
  tried only where the auto-registration found the robot in the table and then on the chain
  after all); `GET /v1/feed/stats` sums one of them. A patrol without lists, and a job id that is no number, are
  answered with 500 and not queued (`webhook.ts:161`, `583`, `701`). A replayed upload that
  succeeds overwrites a resolution made meanwhile (`replay_dlq.ts:146`). `--dry-run` of the
  replay script expires rows; its `--type` is applied after `--limit`.
* *Accounts.* Viewing the connect page marks the link as downloaded, so `/secrets` answers 409
  although `connect.ts:58-63` and `onboard.ts:497` promise the key file; without strict proofs
  no controller key is stored at all. The page's rotate button sends no key and gets 401.
  `GET /v1/onboard/:tenantId` always answers 403, its route being one that skips
  authentication. A crash between the insertions of a robot and of its link leaves a robot
  whose retry gets 409; a rotation whose answer is lost locks the tenant out.
* *Payments.* No plugin keeps the raw body of a request, so with `STRIPE_WEBHOOK_SECRET` set
  every signed event is refused (`stripe.ts:231-248`): `PaidGetsCompleted` holds with
  `WebhookSecret` FALSE, which the run has, and fails with TRUE. A request without the header
  is handled with a secret as without one (241). `POST /subscribe` puts its
  metadata on the session and not on the subscription, so what it starts never changes a plan
  (`SubscribeOnline`); a late `updated` after a `deleted` brings a plan back. No code reads
  `plan_robots_limit`.
* *Calculations.* `GET /services` answers with an object around the list, and the frontend's
  `getServices` takes `.map` of the answer: it always fails, and the quote page always uses its
  own copy of the prices (`PageUsd`). `quote.ts` and the offer templates multiply dollars by 10^18 while USDC has
  6 decimals; `slashRisk` is 25% of the minimum stake, not of the recommended one. The scores
  of the service modules, which `packages/proof/src/index.ts:21` calls authoritative, differ
  from the API's (windows instead of two hours, the share of long visits instead of the
  average, 100 instead of 120 at most); the header of `CompletionsAgree` lists where: the API
  takes 30 seconds for long enough, so that a module gives up to 30 points more to a patrol of
  shorter visits whose job asks for no longer ones. A patrol that
  named more or fewer checkpoints than were visited cannot be recomputed from its manifest.
* *The rest.* The demonstration's `POST /offers/:id/buy` says that a job was created and
  funded, and stores none; its job id is the time in milliseconds. `proof-pack.ts` sets
  `hashMatch: true` whatever it got, and looks at no receipt. The increments in `metrics.ts`
  have no caller. Of two processes that start on an empty database at once, the one that comes
  second to a migration fails and exits; a restart heals it.

## 5. Proofs

The theorem modules are checked by TLAPS from the named assumptions on the constants:
addresses are distinct; there are finitely many users and robots (an address has 160 bits, a
robot id 256), requests and runs of the script; prices and deadlines are naturals, the window
and the delay are positive, an offer of the demonstration lasts for a while, a slash is at
most 100%, bounds are naturals; the order book is a contract that registers no robot, stakes
nothing and buys for its buyers; modes are among those the configuration allows. Nothing is
assumed of how many users, robots, jobs, offers, requests, keys, payments or tenants there
are, of prices, of which hooks are installed, or of who posts to the payment webhook. What
holds only with certain hooks says so: `ReputationCorrect` where the escrow and the disputes
have the ledger, the reward in `QuotesCorrect` where the distributor has it.

**Sums.** What a contract holds is a sum over its jobs, robots or operators. `SumTheorems`
shows how such a sum follows a change of one summand (`SumFollows`). The induction goes over
the subsets of a finite set, with the good subsets given as a set, for an induction theorem
that takes an operator is of no use to the provers.

**Settlement.** `TypeOK` is not inductive: `settle` pays `controller[robotId]`, which must be
a user, and subtracts what it read before. The invariant `IInv` adds

* `JobsWellFormed`: exactly the jobs up to `jobCount` exist, the others are the zero
  record; one that exists has a robot and a specification; one past its funding has
  a completion hash and a robot with a controller; a token id is written only with SETTLED;
* `WaitingWellFormed`: a waiting settlement's job is COMPLETED, its window over, its
  receipt minted with its id, and it waits once (a second `settle` would have to mint the
  same token);
* `LockedWithinBond`: no more is locked than bonded.

`SettlementProofs` has a lemma per kind of transaction and concludes `Inductive`
(`[]IInv`) and `TypeCorrect` (`[]TypeOK`: no balance, bond or stake goes negative). It then
says what each transaction does to the record of one job, and proves

* `DisputesAgree` (`[]DisputesMatchJobs`), from the statuses each transaction moves between;
* `WaitingIntact` (`[]WaitingSettlementsIntact`): a dispute needs `now < settleAfter`, a
  waiting settlement has `now >= settleAfter`;
* `ReceiptsCorrect` (`[]ReceiptsMatchJobs`), with the strengthening `NeverBurned`: a token
  that does not exist was never minted, since a refunded job has no token id.

`SettlementMoneyProofs` goes on from there, again with a lemma per kind of transaction.

* `MoneyInv` is `MoneyAccounted` and `BondAccounted`, as sums, over `IInv`: `MoneyCorrect` and
  `BondCorrect`. A job's part of the escrow's balance changes with its status and by what
  the transaction pays, and no other job's part changes; a settlement that waits has been
  paid and is owed nothing more.
* `BondsCover` (`[]BondsCovered`): what is locked of a robot is the sum of the minimum bonds
  of its jobs that are undecided or wait. From it `BondLossOnlyJustified`: a verdict slashes
  the whole minimum bond, since all of it is there.
* `SettlesAfterWindow`: where the hooks are the right contracts, a completed job past its
  window meets every guard of `settle` (`SettleGuard`; the free receipt id that `Mint` asks
  for is assumed) and has its bond locked. This is
  `SettleableAfterWindow`, which the run checks with `ENABLED`, in the terms of the guards.
* `StakesCorrect` and, with it, `StakeLossOnlyJustified`.
* `ReputationCorrect` (`[]ReputationMatchesHistory`): the counts of a robot are the sizes of
  sets of its jobs, and only the transaction that moves a job between the sets records it.
* `QuotesCorrect`: the fee, the bond and the payout are the same numbers for all jobs; the
  reliability that quotes read is the ledger's, and if the distributor asks it, so is the
  reward; the multipliers stay in the published
  ranges (`QualityInRange`, `ReliabilityInRange`).
* `EscrowKeepsPromise`: every transaction maps to the step of `EscrowPromise` of its kind, or
  to a stutter; `SettleBegin` is the payment, `SettleFinish` a stutter.

**Market.** `BookInv` says that ids up to `offerCount` are listed and the others are not,
and that a purchased offer is not for sale; `CoreInv` is the settlement's invariants, which a
purchase keeps because it is a creation and a funding in one, and that the book is apart
from users and operators.

* `SalesCorrect` and `SalesCovered` (`SalesMatchJobs`, `SalesPaidAndBonded`), with `SalesInv`:
  a sale's job keeps the terms of the offer, and no two sales share either.
* `ExpiredJobsFreeze`: every transaction on a funded job looks at the deadline but `setDisputed`
  and `refund`, which need another status.
* `SupplyJustified`, with `LedgerInv`: the ledger knows every verdict that its disputes record,
  so a robot's multiplier is what its faults leave; each transaction then moves one amount of
  VRWX between two accounts, burns one or mints one.
* `MarketKeepsPromise`: listing, cancelling and buying map to the steps of `OfferPromise` of
  the same name, the passing of time and what operators do with their stakes to its `Advance`
  and `Back`, and every step of the settlement core to a stutter.

**Submission.** Whatever a request does is one of six moves (it waits, is rejected, asks for
its key, goes on, fails, succeeds), and the proofs argue about the moves.

* `SafeAlways`: `OneHandlerPerKey` is not inductive by itself: it needs `HandlersHoldKeys`
  (a handler that was not overtaken has a PENDING record, so no other passes the guard) and
  `SentByWaiting` (a request whose transaction is under way has its input). With the types
  it gives `TypeCorrect` and `OneHandler`.
* `CompletionsStay` (`CompletionsKept`): a handler writes COMPLETED or FAILED only over its
  own PENDING record, unless overtaken.
* `ResponsesTrue` (`[]ResponsesBackedByChain`): a mined transaction is the completion of the
  job for good (`MinedIsCompletion`), and answers and records hold only responses true of it
  (`AnswersTrue`, `RecordsTrue`). No response comes from nowhere (`OriginInv`): what a record
  tells was given to a request of its key (`RecordsGiven`), so a cached answer was
  (`AnswersGiven`), and what is on its way to the chain was signed (`SignedSubmit`), so it is
  not the transaction of a dry run. None of it needs a word about overtaken handlers.
* `AcceptedStored` (`[]AcceptedIsStored`), with `StoredInv`: a request past the store step has
  its manifest in the storage, or a later write cut it short, and so has every record that
  says accepted; no write takes a manifest away (`WritesKeep`).
* `QueueCorrect` (`[]QueueHasFailures`): what a step makes of a request (`Outcome`) is an error
  with its row, an error that is for no queue (an answer that cannot be saved, a body on which
  the code throws), or no error; `TypedWhenAsked` is needed for the
  second. For the metrics, `RowsOpen` says that a failure's row is still open, and
  `MetricsTell` maps the handlers under way into the pending keys, one to one.

**Replay.** `RetriesAlwaysBounded`: `RetriesBounded` is not inductive. `RetriesFollow` counts,
with the retries of an event, the runs whose list still holds it: each of them may add one
retry, and it adds no more because a list holds an event once (`RunsHoldEvents`).
`ResolutionsStay` (`ResolutionKept`) goes through the steps: the queue's operators write
RETRIED nowhere, so it comes from `FinishRetry` alone (`UploadEnd`), for the event at the head
of that run's list, and only if the body had what the upload needs.

**Accounts.** `RegisteredStaysOnChain`: `ChainInv` adds that a request which saw its
transaction mined has a robot on the chain, and that the registry forgets none.
`OneKeyWorks` and `SecretsLeaveOnce` rest on `KeysInv`: a key, and the key behind a link,
belongs to one tenant (`KeysOwned`, `LinksOwned`); a tenant has one live key at most, and one
that had no accident has one, and holds it once it was shown one (`OneLiveKey`, `GetsIn`); what
a link can still show was not shown (`Unseen`); and an onboarding that went through left a
robot (`HasRobot`).

**Routes.** A step of `MCNext` is a step of one part (`StepOfParts`).

* `RowsMatchStripe`: `PaymentsInv` adds that a request awaiting Stripe has an open session
  and no row (`AwaitedIsOpen`), that a URL the customer has and a session that was paid have a
  row (`UrlHasRow`), that a row has a session, and that events were sent only for what happened
  (`EventsTrue`), so no two events of Stripe's write different things of a session, and a row
  that differs was written by somebody else's post. `PlansBought` looks at the plans alone.
* `SchemaFollows`: `StartupInv` adds that what a process read of the marks was true, and marks
  never go; a migration that it wants to apply again fails as a whole.
* `QuotesAreCharged`: `SameGrossTotal`, `FeeIsNearest` and `SameBond` are about every number of
  units and every total, where the run looks at the ones it lists.
* `ScoresAlwaysAgree`, in its three parts. `CompletionsAgree`: rounding keeps the order of two
  fractions (`RoundedMonotone`), and each visit that lasted long enough adds half a minute to the
  average, or what the job wanted if that is less (`LongVisits`); a shift of the average by the
  difference shifts the rounded score (`RoundedShift`, `PatrolNotBelow`), so `InspectionsAgree`, `PatrolsAgree` and `DeliveriesAgree` hold for
  every coverage, route and time. `BuiltInAnyOrder`: `FoldLeft` goes through a table of what is
  built of every set of positions (`LeftTable`, `InspectionFold`, ...); over it, by induction on
  these sets, a manifest counts the events of a list and has the others of which there is one
  (`InspectionBuilt`, `DeliveryBuilt`, `PatrolBuilt`), so two arrivals of one set of events, of
  any size, have one result (`AnyOrder`). What that needs of the events is that two of one type
  are of a list, or the same (`Replaces`): of two different ends of a job, the later counts.
  `VerdictsReported` follows from the definitions (`ResultReported`).
* `SignaturesOpenWhatWasSigned`: equal encodings have equal fields (`EncodingInjective`), so
  the four copies accept each other's claims and no others.
* `DemonstrationsKeepPromises`: each route of `DemoJobs` and `DemoOffers` maps to a step of
  `EscrowPromise` or `OfferPromise`, and what `GET` shows of a job or an offer is its stage;
  the pot of the demonstration is a sum (`DemoJobInv`).

Only model-checked: liveness (`CompletedIsDecided`, `EventsEnd`, `PaidGetsCompleted`) and
`SettleableAfterWindow`, which says `ENABLED` (but see `SettlesAfterWindow`), are beyond the
prover; `DeploymentComplete` has no constants, so TLC's run of it is exhaustive. The five
properties that the runs violate are not theorems, of course.

## 6. Not modelled

The user interface, but for the quote and the page after a payment; translations; HTML
pages; the feed, whose table stays empty, and the counters of the metrics that nothing
increments; lists of constants (services, templates, plans); hashing and canonical
JSON, whose part here is that equal things have equal hashes; fixtures and reports of the
conformance package; `proof-pack.ts`, a demonstration that drives the contracts once;
vendored libraries. None of them keeps state that another part reads. The admin setters of
the contracts after deployment, transfers of receipts, the metadata of robots and role
administration are left out of otherwise complete contracts, as said in section 2.
`revokeApiKey` and `listApiKeys` have no caller.
