--------------------------------- MODULE Submission ---------------------------------
(***************************************************************************)
(* POST /connectors/webhook/complete (api/src/routes/webhook.ts): requests *)
(* for one job, their idempotency keys, the relayer, the storage of        *)
(* manifests, the dead-letter queue and the chain.  Node runs one request  *)
(* at a time and changes to another where the code awaits, so an action is *)
(* what a request does from one await to the next.  An await that can fail *)
(* may; the process may stop in any of them and start again on the tables  *)
(* it left.                                                                *)
(***************************************************************************)
EXTENDS Idempotency, Storage, ChainView, FiniteSets

CONSTANTS
    Inputs,         \* the requests that may come, see InputType
    RelayMode,      \* RELAY_MODE, "relay" or "selfSubmit"
    StrictProof,    \* VRWX_STRICT_PROOF
    StrictStorage,  \* isStrictMode() of the storage
    StorageRequired,\* VRWX_STORAGE_REQUIRED
    KnownRobots,    \* are the robots of the requests in the API's own table
    MaxTime,        \* bound: the clock
    MaxEvents       \* bound: restarts of the process and steps of others on the chain

VARIABLES
    pc,         \* where each request is
    input,      \* what it asked
    answer,     \* what it was answered
    events,     \* how many restarts and steps of others there were
    overtaken   \* the keys released while a handler that held them still ran: history

requestVars == <<pc, input, answer, events, overtaken>>

vars == <<clock, rows, keys, stored, chainVars, requestVars>>

\* The path a request takes after the manifest is stored: relayed, or answered with typed
\* data to sign.  A dry run stores nothing and takes the second.  A body may fail the
\* validation; or pass it and be misshapen, a patrol without its lists; or name a job that is
\* no number.  A controller may be something else than a string.
InputType ==
    {i \in [body : {"good", "invalid", "misshapen", "badJob"}, key : Keys, manifest : Manifests, path : {"relay", "typed"},
            dryRun : BOOLEAN, sig : {"none", "good", "bad"},
            controller : {"none", "right", "wrong", "malformed"}] :
        (i.dryRun \/ RelayMode = "selfSubmit") => i.path = "typed"}

ASSUME SubmissionAssumption ==
    /\ Inputs \subseteq InputType
    /\ RelayMode \in {"relay", "selfSubmit"}
    /\ {StrictProof, StrictStorage, StorageRequired, KnownRobots} \subseteq BOOLEAN
    /\ {MaxTime, MaxEvents} \subseteq Nat
    /\ IsFiniteSet(Requests) /\ IsFiniteSet(Keys)

NoInput == [body |-> "none"]

NoAnswer == [kind |-> "none", response |-> NoResponse]

HandlerSteps == {"store", "verify", "claim", "check", "estimate", "send", "wait", "typed"}

Running(r) == pc[r] \in HandlerSteps

Init ==
    /\ QueueInit
    /\ KeysInit
    /\ StorageInit
    /\ ChainInit
    /\ pc = [r \in Requests |-> "new"]
    /\ input = [r \in Requests |-> NoInput]
    /\ answer = [r \in Requests |-> NoAnswer]
    /\ events = 0
    /\ overtaken = {}

-------------------------------------------------------------------------------
(* How a request ends. *)

Goto(r, step) == pc' = [pc EXCEPT ![r] = step] /\ UNCHANGED answer

Reply(r, kind, response) ==
    /\ pc' = [pc EXCEPT ![r] = "done"]
    /\ answer' = [answer EXCEPT ![r] = [kind |-> kind, response |-> response]]

\* Before the handler: an event for the queue and an error.
Reject(r) ==
    /\ rows' = Enqueued(r, "VALIDATION_FAIL")
    /\ Reply(r, "error", NoResponse)
    /\ UNCHANGED <<keys, overtaken>>

\* The handler throws.
Abort(r) ==
    /\ keys' = Failed(input[r].key)
    /\ Reply(r, "error", NoResponse)

AbortWith(r, type) == Abort(r) /\ rows' = Enqueued(r, type)

\* The handler returns; a response that cannot be saved is a failure of the request.
Accept(r, response) ==
    /\ IF Savable(response)
       THEN keys' = Completed(input[r].key, response) /\ Reply(r, "ok", response)
       ELSE Abort(r)
    /\ UNCHANGED rows

Response(r, hash, typedData) ==
    [manifest |-> input[r].manifest, txHash |-> hash, typedData |-> typedData,
     dryRun |-> input[r].dryRun]

NoTx == "undefined"

-------------------------------------------------------------------------------
(* The guard: withIdempotency up to the first await of the handler. *)

HeldByRunning(k) == \E r \in Requests : Running(r) /\ input[r].key = k

ClaimKey(r, in) ==
    LET k == in.key
        rec == keys[k]
    IN  \/ /\ IsCompleted(rec)
           /\ Reply(r, "cached", rec.response)
           /\ UNCHANGED <<keys, overtaken>>
        \/ /\ InProgress(rec)
           /\ Reply(r, "processing", NoResponse)
           /\ UNCHANGED <<keys, overtaken>>
        \/ /\ IsStuck(rec)
           /\ keys' = Released(k)
           /\ Reply(r, "processing", NoResponse)
           /\ overtaken' = IF HeldByRunning(k) THEN overtaken \cup {k} ELSE overtaken
        \/ /\ IsFree(rec)
           /\ keys' = Inserted(k, in.manifest)
           /\ Goto(r, IF in.dryRun THEN "typed" ELSE "store")
           /\ UNCHANGED overtaken

\* The scores are computed before it, and that of a misshapen patrol throws: there is no
\* event for the queue, and no key.
Guard(r, in) ==
    \/ /\ in.body = "misshapen"
       /\ Reply(r, "error", NoResponse)
       /\ UNCHANGED <<keys, overtaken>>
    \/ in.body # "misshapen" /\ ClaimKey(r, in)

-------------------------------------------------------------------------------
(* Before the guard: validation, and the controller when the body has none. *)

Receive(r, in) ==
    /\ pc[r] = "new"
    /\ input' = [input EXCEPT ![r] = in]
    /\ \/ in.body = "invalid" /\ Reject(r)
       \/ /\ in.body # "invalid"
          /\ in.controller # "none"
          /\ Guard(r, in)
          /\ UNCHANGED rows
       \/ /\ in.body # "invalid"
          /\ in.controller = "none"
          /\ Goto(r, "lookup")
          /\ UNCHANGED <<rows, keys, overtaken>>
    /\ UNCHANGED <<clock, chainVars, stored, events>>

\* getControllerForRobot: its failures read as no controller, and so does a relayer that
\* was not started.
Lookup(r) ==
    /\ pc[r] = "lookup"
    /\ \/ /\ RelayMode = "relay" /\ HasController
          /\ Guard(r, input[r])
          /\ UNCHANGED rows
       \/ /\ RelayMode = "relay" /\ KnownRobots
          /\ Goto(r, "register")
          /\ UNCHANGED <<rows, keys, overtaken>>
       \/ (RelayMode # "relay" \/ ~KnownRobots) /\ Reject(r)
    /\ UNCHANGED <<clock, chainVars, input, stored, events>>

\* registerRobot: a robot registered meanwhile is taken as it is; any other fails, for
\* the contract object was built without registerRobot in its ABI.
AutoRegister(r) ==
    /\ pc[r] = "register"
    /\ \/ HasController /\ Guard(r, input[r]) /\ UNCHANGED rows
       \/ Reject(r)
    /\ UNCHANGED <<clock, chainVars, input, stored, events>>

-------------------------------------------------------------------------------
(* The handler. *)

\* Custodial mode: accepted without a transaction.  The row for the live feed is left out: it
\* is tried only where the controller's look-up found the tenant, its INSERT names columns
\* that no migration defines, and the failure is only logged.
AcceptCustodial(r) == Accept(r, Response(r, NoTx, FALSE))

\* After the manifest is stored: what the request goes on to.
Proceed(r) ==
    \/ input[r].path = "typed" /\ Goto(r, "typed") /\ UNCHANGED <<rows, keys>>
    \/ /\ input[r].path = "relay"
       /\ \/ /\ input[r].sig # "none"
             /\ Goto(r, "claim")
             /\ UNCHANGED <<rows, keys>>
          \/ /\ input[r].sig = "none"
             /\ IF StrictProof
                THEN AbortWith(r, "VALIDATION_FAIL")
                ELSE AcceptCustodial(r)

HandlerRest == <<clock, input, events, overtaken>>

AfterStore(r) ==
    IF StrictStorage THEN Goto(r, "verify") /\ UNCHANGED <<rows, keys>> ELSE Proceed(r)

StoreForgiving(r) ==
    /\ pc[r] = "store"
    /\ StoreManifest(input[r].manifest) \/ StoreFails(input[r].manifest)
    /\ AfterStore(r)
    /\ UNCHANGED <<chainVars, HandlerRest>>

\* A failure counts only where the storage is strict and required.
Store(r) ==
    /\ pc[r] = "store"
    /\ \/ StoreManifest(input[r].manifest) /\ AfterStore(r)
       \/ /\ StoreFails(input[r].manifest)
          /\ IF StrictStorage /\ StorageRequired
             THEN AbortWith(r, "UPLOAD_FAIL")
             ELSE AfterStore(r)
    /\ UNCHANGED <<chainVars, HandlerRest>>

\* Only a manifest that comes back with another hash counts.
Verify(r) ==
    /\ pc[r] = "verify"
    /\ \/ Proceed(r)
       \/ Retrievable(input[r].manifest) /\ AbortWith(r, "HASH_MISMATCH")
    /\ UNCHANGED <<chainVars, stored, HandlerRest>>

\* BigInt(jobId) throws, before anything is queued.
NoNumber(r) == input[r].body = "badJob"

BuildClaimUnqueued(r) ==
    /\ pc[r] = "claim"
    /\ \/ ~NoNumber(r) /\ HasClaim /\ Goto(r, "check") /\ UNCHANGED <<rows, keys>>
       \/ Abort(r) /\ UNCHANGED rows
    /\ UNCHANGED <<chainVars, stored, HandlerRest>>

BuildClaim(r) ==
    /\ pc[r] = "claim"
    /\ \/ NoNumber(r) /\ Abort(r) /\ UNCHANGED rows
       \/ ~NoNumber(r) /\ HasClaim /\ Goto(r, "check") /\ UNCHANGED <<rows, keys>>
       \/ ~NoNumber(r) /\ AbortWith(r, "VALIDATION_FAIL")
    /\ UNCHANGED <<chainVars, stored, HandlerRest>>

\* verifyControllerSignature
SignatureVerified(r) == robot = "active" /\ input[r].sig = "good"

\* The signature, and the triple equality of the controllers, where a controller that is not
\* a string throws.
CheckSignature(r) ==
    /\ pc[r] = "check"
    /\ \/ /\ SignatureVerified(r)
          /\ input[r].controller \in {"none", "right"}
          /\ Goto(r, "estimate")
          /\ UNCHANGED <<rows, keys>>
       \/ /\ SignatureVerified(r)
          /\ input[r].controller = "malformed"
          /\ Abort(r)
          /\ UNCHANGED rows
       \/ AbortWith(r, "VALIDATION_FAIL")
    /\ UNCHANGED <<chainVars, stored, HandlerRest>>

\* submitCompletionV2: estimateGas runs the transaction on the chain as it is.
EstimateGas(r) ==
    /\ pc[r] = "estimate"
    /\ \/ Accepts /\ Goto(r, "send") /\ UNCHANGED <<rows, keys>>
       \/ AbortWith(r, "TX_FAIL")
    /\ UNCHANGED <<chainVars, stored, HandlerRest>>

\* The transaction is broadcast, and the relayer may not hear of it.
Send(r) ==
    /\ pc[r] = "send"
    /\ \/ tx' = [tx EXCEPT ![r] = "pending"] /\ Goto(r, "wait") /\ UNCHANGED <<rows, keys>>
       \/ tx' = [tx EXCEPT ![r] = "pending"] /\ AbortWith(r, "TX_FAIL")
       \/ UNCHANGED tx /\ AbortWith(r, "TX_FAIL")
    /\ UNCHANGED <<job, late, robot, stored, HandlerRest>>

\* The answer to a completion that the relayer submitted.
Relayed(r) == Accept(r, Response(r, r, FALSE))

WaitForNothing(r) ==
    /\ pc[r] = "wait"
    /\ Relayed(r)
    /\ UNCHANGED <<chainVars, stored, HandlerRest>>

\* tx.wait(): no limit to how long, and an error for a transaction that reverted.
WaitForTx(r) ==
    /\ pc[r] = "wait"
    /\ \/ tx[r] = "mined" /\ Relayed(r)
       \/ AbortWith(r, "TX_FAIL")
    /\ UNCHANGED <<chainVars, stored, HandlerRest>>

\* selfSubmit and dry runs: typed data to sign, but for a claim that cannot be built (no
\* job, no robot, no relayer, a failed call).
ReturnTypedData(r) ==
    /\ pc[r] = "typed"
    /\ \/ NoNumber(r) /\ Abort(r) /\ UNCHANGED rows
       \/ /\ ~NoNumber(r) /\ RelayMode = "relay" /\ HasClaim
          /\ Accept(r, Response(r, NoTx, TRUE))
       \/ ~NoNumber(r) /\ Accept(r, Response(r, NoTx, FALSE))
    /\ UNCHANGED <<chainVars, stored, HandlerRest>>

HandlerStep(r) ==
    \/ Lookup(r) \/ AutoRegister(r) \/ Store(r) \/ Verify(r) \/ BuildClaim(r)
    \/ CheckSignature(r) \/ EstimateGas(r) \/ Send(r) \/ WaitForTx(r) \/ ReturnTypedData(r)

-------------------------------------------------------------------------------
(* The process, the tables and the chain. *)

CrashRestarts ==
    /\ events < MaxEvents
    /\ events' = events + 1
    /\ pc' = [r \in Requests |-> IF pc[r] = "done" THEN "done" ELSE "new"]
    /\ UNCHANGED <<clock, rows, keys, stored, chainVars, input, answer, overtaken>>

\* The process stops: every request it was working on is lost, in the middle of a write
\* perhaps; what SQLite and the chain have stays.
Crash ==
    /\ events < MaxEvents
    /\ events' = events + 1
    /\ pc' = [r \in Requests |-> IF pc[r] \in {"new", "done"} THEN pc[r] ELSE "lost"]
    /\ \/ UNCHANGED stored
       \/ \E r \in Requests : pc[r] = "store" /\ stored' = Cut(input[r].manifest)
    /\ UNCHANGED <<clock, rows, keys, chainVars, input, answer, overtaken>>

Cleanup ==
    /\ keys' = WithoutExpired
    /\ UNCHANGED <<clock, rows, stored, chainVars, requestVars>>

OnChain ==
    /\ \/ /\ events < MaxEvents
          /\ ChainStep
          /\ events' = events + 1
       \/ /\ \E r \in Requests : Mine(r, input[r].manifest)
          /\ UNCHANGED events
    /\ UNCHANGED <<clock, rows, keys, pc, input, answer, stored, overtaken>>

Tick ==
    /\ clock < MaxTime
    /\ clock' = clock + 1
    /\ UNCHANGED <<rows, keys, stored, chainVars, requestVars>>

Next ==
    \/ \E r \in Requests, in \in Inputs : Receive(r, in)
    \/ \E r \in Requests : HandlerStep(r)
    \/ Crash
    \/ Cleanup
    \/ OnChain
    \/ Tick

Spec == Init /\ [][Next]_vars

-------------------------------------------------------------------------------
(* Properties *)

FullResponse ==
    [manifest : Manifests, txHash : Requests \cup {NoTx}, typedData : BOOLEAN,
     dryRun : BOOLEAN]

ResponseType == FullResponse \cup {NoResponse}

KeyRecord ==
    [status : {"none", "PENDING", "COMPLETED", "FAILED"}, manifest : Manifests \cup {"null"},
     response : ResponseType, createdAt : Nat]

\* The type invariant, with what the place of a request says of its input and its answer.
TypeOK ==
    /\ clock \in 0..MaxTime
    /\ rows \in [Requests -> RowType]
    /\ keys \in [Keys -> KeyRecord]
    /\ ChainTypeOK
    /\ pc \in [Requests -> HandlerSteps \cup {"new", "lookup", "register", "done", "lost"}]
    /\ input \in [Requests -> Inputs \cup {NoInput}]
    /\ \A r \in Requests : input[r] = NoInput <=> pc[r] = "new"
    /\ answer \in [Requests -> [kind : {"none", "ok", "cached", "processing", "error"},
                                response : ResponseType]]
    /\ \A r \in Requests : answer[r] = NoAnswer <=> pc[r] # "done"
    /\ stored \in StorageType
    /\ overtaken \in SUBSET Keys

\* One handler at a time works on a key, through retries, failures, crashes and cleanups,
\* as long as none outlived the two minutes that its record is respected.
OneHandlerPerKey ==
    \A r, s \in Requests :
        (Running(r) /\ Running(s) /\ r # s /\ input[r].key = input[s].key) =>
            input[r].key \in overtaken

\* The responses given, to a request or by the status route.
Responses ==
    ({answer[r].response : r \in {q \in Requests : answer[q].kind \in {"ok", "cached"}}}
        \cup {StatusResponse(k) : k \in Keys}) \ {NoResponse}

\* A response with a transaction hash is true, whoever gets it and whenever: that
\* transaction completed the job, with the manifest of the response.  So all of them carry
\* the same hash, even under two keys of the same job.
HashesTrue ==
    \A p \in Responses :
        p.txHash # NoTx =>
            /\ tx[p.txHash] = "mined"
            /\ job = [status |-> "COMPLETED", completionHash |-> p.manifest]

\* A signed completion, to be relayed.
WantsTx(in) == in.path = "relay" /\ in.sig # "none"

\* A request that is carried out is answered for what it asked: with its own transaction, or
\* without one.  A request that is not gets the answer of one that was, under the same key.
AnswersOfKey ==
    \A r \in Requests :
        /\ answer[r].kind = "ok" =>
                answer[r].response.txHash = IF WantsTx(input[r]) THEN r ELSE NoTx
        /\ answer[r].kind = "cached" =>
                \E q \in Requests : /\ answer[q] = [answer[r] EXCEPT !.kind = "ok"]
                                    /\ input[q].key = input[r].key

\* No response comes from nowhere.  In particular, a signed completion that is accepted and
\* has no transaction got the answer of a dry run or a custodial completion of its key, which
\* the middleware does not tell apart (idempotency.ts 96-175, webhook.ts 265-296, 452-720,
\* relayer.ts 221-300).
ResponsesBackedByChain == HashesTrue /\ AnswersOfKey

-------------------------------------------------------------------------------
(* What the monitoring and the conformance package make of it *)

\* GET /metrics and /metrics/prometheus, without the counters of the process: no handler
\* increments any but those of the events since its start.
MetricsPage == [dlq |-> DLQStats, idempotency |-> IdempotencyStats]

\* runServiceTest of the conformance package: the manifest m is posted, p comes back, and
\* the manifest that p names is verified; after a dry run it need not be there.
ConformancePasses(m, dryRun, p) ==
    LET verify == VerifyManifest(p.manifest)
    IN  /\ p.manifest = m
        /\ verify.found \/ dryRun
        /\ verify.found => verify.verified

\* A run of the conformance package posts one request per service, dry unless --real-run,
\* and passes when each of them does.
ConformanceSuite(posted, realRun) ==
    \A r \in posted : ConformancePasses(input[r].manifest, ~realRun, answer[r].response)

-------------------------------------------------------------------------------
(* Properties, continued *)

Ruined(p) == stored[p.manifest] = "ruined"

\* With a strict and required storage, what was accepted was stored as a whole: it can be
\* read, every batch of accepted manifests that the API takes verifies, and a run of the
\* conformance package whose requests were carried out passes.  Excepted are manifests of
\* which a later write was cut short (storage/index.ts 112-138, local.ts 32-42,
\* manifests.ts 129-309, webhook.ts 863-877, conformance/src/runner.ts 38-257 and
\* index.ts 102-150).
AcceptedIsStored ==
    (StrictStorage /\ StorageRequired) =>
        /\ \A batch \in SUBSET {p.manifest : p \in {q \in Responses : ~q.dryRun /\ ~Ruined(q)}} :
            /\ \A m \in batch : GetManifest(m).found
            /\ IsFiniteSet(batch) /\ Cardinality(batch) <= MaxBatch =>
                    VerifyBatch(batch).allVerified
        /\ \A realRun \in BOOLEAN :
            ConformanceSuite({r \in Requests : /\ answer[r].kind = "ok"
                                              /\ ~Ruined(answer[r].response)
                                              /\ input[r].dryRun = ~realRun}, realRun)

\* The code itself throws on such a body: a misshapen patrol, a job that is no number, a
\* controller that is no string.
Throws(in) == in.body \in {"misshapen", "badJob"} \/ in.controller = "malformed"

FailuresQueued ==
    \A r \in Requests :
        /\ IsRow(rows[r]) => answer[r].kind = "error"
        /\ answer[r].kind = "error" =>
            IsRow(rows[r]) \/ input[r].path = "typed" \/ Throws(input[r])

Relays == {r \in Requests : input[r] # NoInput /\ input[r].path = "relay" /\ ~Throws(input[r])}

\* Every relay that failed, but one the code threw on, is an unresolved event, every
\* unresolved event a failure, and every handler that was not overtaken a pending key.
MetricsMatch(page) ==
    LET failed == {r \in Requests : answer[r].kind = "error"}
    IN  /\ Cardinality(failed \cap Relays) <= page.dlq.unresolved
        /\ page.dlq.unresolved <= Cardinality(failed)
        /\ Cardinality({r \in Requests : Running(r) /\ input[r].key \notin overtaken})
            <= page.idempotency.pending

\* The queue has the failures and nothing else, and every failure that the code foresees:
\* only a response that could not be saved, and a body that passes the validation and on
\* which the code throws, fail without a trace in it.  And the metrics tell, at any time:
\* what they count lies between the relays that failed and all that failed, those the code
\* threw on apart, and they count a key for every handler (dlq.ts 91-130 and 250-297, idempotency.ts 215-240, metrics.ts 204-479).
QueueHasFailures == FailuresQueued /\ MetricsMatch(MetricsPage)

Kept(k) ==
    IsCompleted(keys[k]) =>
        keys'[k] = keys[k] \/ (IsExpired(keys[k]) /\ keys'[k] = NoRecord)

\* A completion stays the answer of its key until its time is over, unless a handler that
\* outlived its record ends later.
CompletionsKept == [][\A k \in Keys : k \notin overtaken => Kept(k)]_vars

\* docs/idempotency.md:13, "10x same `jobId` = cached response from first successful
\* completion": the record of a completion is not lost before its TTL.
FirstSuccessCached == [][\A k \in Keys : Kept(k)]_vars

\* api/src/routes/webhook.ts:51, "selfSubmit" "to return typed data instead of relaying":
\* a valid selfSubmit request for which nothing goes wrong (nothing is queued) is answered
\* and not failed.
SelfSubmitAnswered ==
    \A r \in Requests :
        (answer[r].kind = "error" /\ input[r].body = "good" /\ input[r].path = "typed") =>
            IsRow(rows[r])
================================================================================
