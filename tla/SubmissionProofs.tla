---------------------------- MODULE SubmissionProofs ----------------------------
(***************************************************************************)
(* What holds of Submission for every number of requests and keys and      *)
(* every configuration of the API.                                         *)
(*                                                                         *)
(* The argument: whatever a request does is one of six moves of its own    *)
(* (it waits, is refused, asks for its key, goes on, fails or succeeds),  *)
(* so each part of the invariant is shown for the moves, and for the four  *)
(* steps of the process, the tables and the chain.                         *)
(***************************************************************************)
EXTENDS Submission, FiniteSetTheorems, TLAPS

-------------------------------------------------------------------------------
(* The inductive invariant *)

\* A handler that was not overtaken owns a PENDING record.
HandlersHoldKeys ==
    \A r \in Requests :
        (Running(r) /\ input[r].key \notin overtaken) =>
            keys[input[r].key].status = "PENDING"

\* A response that is true of the transactions t of the requests with the inputs i.
IsTrueOf(p, t, i) ==
    /\ p \in FullResponse
    /\ p.txHash # NoTx =>
        /\ p.txHash \in Requests
        /\ t[p.txHash] = "mined"
        /\ p.manifest = i[p.txHash].manifest

SentByWaiting ==
    \A r \in Requests : tx[r] # "none" => pc[r] \in {"wait", "done", "lost"}

MinedIsCompletion ==
    \A r \in Requests :
        tx[r] = "mined" =>
            job = [status |-> "COMPLETED", completionHash |-> input[r].manifest]

AnswersTrue ==
    \A r \in Requests :
        answer[r].kind \in {"ok", "cached"} => IsTrueOf(answer[r].response, tx, input)

\* A record that answers a request, or the status route.
Tells(rec) == IsCompleted(rec) \/ rec.response # NoResponse

RecordsTrue ==
    \A k \in Keys : Tells(keys[k]) => IsTrueOf(keys[k].response, tx, input)

Safe == TypeOK /\ SentByWaiting /\ HandlersHoldKeys /\ OneHandlerPerKey

Backed == MinedIsCompletion /\ AnswersTrue /\ RecordsTrue

-------------------------------------------------------------------------------
(* The moves of a request *)

Sends(r) == pc[r] = "send" /\ tx' = [tx EXCEPT ![r] = "pending"]

Waits(r, in, step) ==
    /\ pc[r] \in {"new", "lookup"}
    /\ step \in {"lookup", "register"}
    /\ Goto(r, step)
    /\ input' = [input EXCEPT ![r] = in]
    /\ UNCHANGED <<keys, overtaken, tx>>

Rejected(r, in) ==
    /\ pc[r] \in {"new", "lookup", "register"}
    /\ Reply(r, "error", NoResponse)
    /\ input' = [input EXCEPT ![r] = in]
    /\ UNCHANGED <<keys, overtaken, tx>>

Asks(r, in) ==
    /\ pc[r] \in {"new", "lookup", "register"}
    /\ ClaimKey(r, in)
    /\ input' = [input EXCEPT ![r] = in]
    /\ UNCHANGED tx

GoesOn(r, step) ==
    /\ Running(r)
    /\ step \in HandlerSteps
    /\ Goto(r, step)
    /\ UNCHANGED <<keys, input, overtaken>>
    /\ \/ pc[r] # "wait" /\ UNCHANGED tx
       \/ step = "wait" /\ Sends(r)

Fails(r) ==
    /\ Running(r)
    /\ Abort(r)
    /\ UNCHANGED <<input, overtaken>>
    /\ UNCHANGED tx \/ Sends(r)

Succeeds(r, hash) ==
    /\ Running(r)
    /\ hash = NoTx \/ (hash = r /\ tx[r] = "mined")
    /\ keys' = Completed(input[r].key, Response(r, hash, FALSE))
    /\ Reply(r, "ok", Response(r, hash, FALSE))
    /\ UNCHANGED <<input, overtaken, tx>>

Move(r) ==
    \/ \E in \in Inputs : Waits(r, in, "lookup") \/ Waits(r, in, "register")
    \/ \E in \in Inputs : Rejected(r, in)
    \/ \E in \in Inputs : Asks(r, in)
    \/ \E step \in HandlerSteps : GoesOn(r, step)
    \/ Fails(r)
    \/ Succeeds(r, NoTx) \/ Succeeds(r, r)

Around ==
    /\ UNCHANGED <<clock, job, late, robot, events>>
    /\ rows' \in [Requests -> RowType]
    /\ stored' \in StorageType

-------------------------------------------------------------------------------
(* Types of the parts *)

LEMMA ClockType == ASSUME TypeOK PROVE clock \in Nat
BY SubmissionAssumption DEF TypeOK

LEMMA RowsKept ==
    ASSUME TypeOK, NEW r \in Requests, NEW type \in EventTypes
    PROVE  Enqueued(r, type) \in [Requests -> RowType]
<1>1. clock + BackoffBase \in Nat
    BY ClockType, QueueAssumption
<1>2. [NoRow EXCEPT !.type = type, !.nextRetry = clock + BackoffBase] \in RowType
    BY <1>1 DEF NoRow, RowType
<1> QED
    BY <1>2 DEF Enqueued, TypeOK

LEMMA InputsType ==
    ASSUME NEW in \in Inputs
    PROVE  /\ in # NoInput
           /\ in.key \in Keys /\ in.manifest \in Manifests
           /\ in.dryRun \in BOOLEAN
<1>1. in \in [body : {"good", "invalid", "misshapen", "badJob"}, key : Keys, manifest : Manifests, path : {"relay", "typed"},
              dryRun : BOOLEAN, sig : {"none", "good", "bad"},
              controller : {"none", "right", "wrong", "malformed"}]
    BY SubmissionAssumption DEF InputType
<1>2. "key" \in DOMAIN in
    BY <1>1
<1>3. "key" \notin DOMAIN NoInput
    BY DEF NoInput
<1> QED
    BY <1>1, <1>2, <1>3

LEMMA CutTyped ==
    ASSUME TypeOK, NEW m \in Manifests
    PROVE  Cut(m) \in StorageType /\ Whole(m) \in StorageType
BY DEF TypeOK, StorageType, Cut, Whole

LEMMA RunningInput ==
    ASSUME TypeOK, NEW r \in Requests, pc[r] # "new"
    PROVE  input[r] \in Inputs
BY DEF TypeOK

LEMMA RunningKey ==
    ASSUME TypeOK, NEW r \in Requests, pc[r] # "new"
    PROVE  input[r].key \in Keys
BY RunningInput, InputsType

LEMMA ResponseShape ==
    ASSUME TypeOK, NEW r \in Requests, pc[r] # "new", NEW hash \in Requests \cup {NoTx},
           NEW typed \in BOOLEAN
    PROVE  /\ Response(r, hash, typed) \in FullResponse
           /\ Response(r, hash, typed).manifest = input[r].manifest
           /\ Response(r, hash, typed).txHash = hash
           /\ Savable(Response(r, hash, typed)) <=> ~typed
BY RunningInput, InputsType DEF Response, FullResponse, Savable

-------------------------------------------------------------------------------
(* Every step of a request is a move *)

LEMMA AbortMoves ==
    ASSUME TypeOK, NEW r \in Requests, Running(r), NEW type \in EventTypes,
           AbortWith(r, type), UNCHANGED <<input, overtaken>>, UNCHANGED tx \/ Sends(r)
    PROVE  Fails(r) /\ rows' \in [Requests -> RowType]
BY RowsKept DEF AbortWith, Fails

LEMMA AcceptMoves ==
    ASSUME TypeOK, NEW r \in Requests, Running(r),
           NEW hash \in Requests \cup {NoTx}, NEW typed \in BOOLEAN,
           hash = NoTx \/ (hash = r /\ tx[r] = "mined"),
           Accept(r, Response(r, hash, typed)), UNCHANGED <<input, overtaken, tx>>
    PROVE  Move(r) /\ rows' \in [Requests -> RowType]
<1>1. pc[r] # "new"
    BY DEF Running, HandlerSteps
<1>2. rows' \in [Requests -> RowType]
    BY DEF Accept, TypeOK
<1>3. CASE typed
    BY <1>1, <1>2, <1>3, ResponseShape DEF Accept, Move, Fails
<1>4. CASE ~typed
    BY <1>1, <1>2, <1>4, ResponseShape DEF Accept, Move, Succeeds
<1> QED
    BY <1>3, <1>4

LEMMA ReceiveMoves ==
    ASSUME TypeOK, NEW r \in Requests, NEW in \in Inputs, Receive(r, in)
    PROVE  Move(r) /\ Around
<1>1. UNCHANGED <<clock, job, late, robot, events, tx>> /\ stored' \in StorageType
    BY DEF Receive, chainVars, TypeOK
<1>2. rows \in [Requests -> RowType]
    BY DEF TypeOK
<1>3. CASE Reject(r)
    BY <1>1, <1>3, RowsKept DEF Receive, Reject, Rejected, Move, Around, EventTypes
<1>4. CASE Guard(r, in) /\ UNCHANGED rows
    BY <1>1, <1>2, <1>4 DEF Receive, Guard, Asks, Rejected, Move, Around
<1>5. CASE Goto(r, "lookup") /\ UNCHANGED <<rows, keys, overtaken>>
    BY <1>1, <1>2, <1>5 DEF Receive, Waits, Move, Around
<1> QED
    BY <1>3, <1>4, <1>5 DEF Receive

LEMMA BeforeGuardMoves ==
    ASSUME TypeOK, NEW r \in Requests, Lookup(r) \/ AutoRegister(r)
    PROVE  Move(r) /\ Around
<1>1. UNCHANGED <<clock, job, late, robot, events, tx>> /\ stored' \in StorageType
    BY DEF Lookup, AutoRegister, chainVars, TypeOK
<1>2. rows \in [Requests -> RowType]
    BY DEF TypeOK
<1>3. pc[r] \in {"lookup", "register"} /\ input' = input
    BY DEF Lookup, AutoRegister
<1>4. input[r] \in Inputs
    BY <1>3, RunningInput
<1>5. input' = [input EXCEPT ![r] = input[r]]
    BY <1>3 DEF TypeOK
<1>6. CASE Reject(r)
    BY <1>1, <1>3, <1>4, <1>5, <1>6, RowsKept DEF Reject, Rejected, Move, Around, EventTypes
<1>7. CASE Guard(r, input[r]) /\ UNCHANGED rows
    BY <1>1, <1>2, <1>3, <1>4, <1>5, <1>7 DEF Guard, Asks, Rejected, Move, Around
<1>8. CASE pc[r] = "lookup" /\ Goto(r, "register") /\ UNCHANGED <<rows, keys, overtaken>>
    BY <1>1, <1>2, <1>4, <1>5, <1>8 DEF Waits, Move, Around
<1> QED
    BY <1>6, <1>7, <1>8 DEF Lookup, AutoRegister

LEMMA ProceedMoves ==
    ASSUME TypeOK, NEW r \in Requests, Running(r), pc[r] # "wait", Proceed(r),
           UNCHANGED <<input, overtaken, tx>>
    PROVE  Move(r) /\ rows' \in [Requests -> RowType]
<1>1. rows \in [Requests -> RowType]
    BY DEF TypeOK
<1>2. CASE /\ Goto(r, "typed") \/ Goto(r, "claim")
           /\ UNCHANGED <<rows, keys>>
    BY <1>1, <1>2 DEF GoesOn, Move, HandlerSteps
<1>3. CASE AbortWith(r, "VALIDATION_FAIL")
    BY <1>3, AbortMoves DEF Move, EventTypes
<1>4. CASE Accept(r, Response(r, NoTx, FALSE))
    BY <1>4, AcceptMoves
<1> QED
    BY <1>2, <1>3, <1>4 DEF Proceed, AcceptCustodial

LEMMA HandlerMoves ==
    ASSUME TypeOK, NEW r \in Requests,
           Store(r) \/ Verify(r) \/ BuildClaim(r) \/ CheckSignature(r) \/ EstimateGas(r)
               \/ Send(r) \/ WaitForTx(r) \/ ReturnTypedData(r)
    PROVE  Move(r) /\ Around
<1>1. UNCHANGED <<clock, events, input, overtaken>>
    BY DEF Store, Verify, BuildClaim, CheckSignature, EstimateGas, Send, WaitForTx,
           ReturnTypedData, HandlerRest
<1>2. UNCHANGED <<job, late, robot>>
    BY DEF Store, Verify, BuildClaim, CheckSignature, EstimateGas, Send, WaitForTx,
           ReturnTypedData, chainVars
<1>3. Running(r)
    BY DEF Running, HandlerSteps, Store, Verify, BuildClaim, CheckSignature, EstimateGas, Send,
           WaitForTx, ReturnTypedData
<1>4. rows \in [Requests -> RowType] /\ stored \in StorageType
    BY DEF TypeOK
<1>5. SUFFICES Move(r) /\ rows' \in [Requests -> RowType] /\ stored' \in StorageType
    BY <1>1, <1>2 DEF Around
<1>6. ASSUME NEW type \in EventTypes, AbortWith(r, type), UNCHANGED tx \/ Sends(r),
             stored' = stored
      PROVE  Move(r) /\ rows' \in [Requests -> RowType] /\ stored' \in StorageType
    BY <1>1, <1>3, <1>4, <1>6, AbortMoves DEF Move
<1>7. ASSUME NEW step \in HandlerSteps, Goto(r, step), UNCHANGED <<rows, keys, stored, tx>>,
             pc[r] # "wait"
      PROVE  Move(r) /\ rows' \in [Requests -> RowType] /\ stored' \in StorageType
    BY <1>1, <1>3, <1>4, <1>7 DEF Move, GoesOn
<1>16. ASSUME Abort(r), UNCHANGED <<rows, stored, tx>>
       PROVE  Move(r) /\ rows' \in [Requests -> RowType] /\ stored' \in StorageType
    BY <1>1, <1>3, <1>4, <1>16 DEF Move, Fails
<1>8. CASE Store(r)
    <2>1. UNCHANGED tx /\ pc[r] # "wait"
        BY <1>8 DEF Store, chainVars
    <2>2. stored' \in StorageType
        BY <1>3, <1>4, <1>8, RunningInput, InputsType, CutTyped DEF Store, StoreManifest,
               StoreFails, LocalStoreFails, R2StoreFails, S3StoreFails, Running, HandlerSteps
    <2>3. CASE AbortWith(r, "UPLOAD_FAIL")
        BY <1>1, <1>3, <2>1, <2>2, <2>3, AbortMoves DEF Move, EventTypes
    <2>4. CASE AfterStore(r)
        <3>1. CASE Goto(r, "verify") /\ UNCHANGED <<rows, keys>>
            BY <1>1, <1>3, <1>4, <2>1, <2>2, <3>1 DEF Move, GoesOn, HandlerSteps
        <3>2. CASE Proceed(r)
            BY <1>1, <1>3, <2>1, <2>2, <3>2, ProceedMoves
        <3> QED
            BY <2>4, <3>1, <3>2 DEF AfterStore
    <2> QED
        BY <1>8, <2>3, <2>4 DEF Store
<1>9. CASE Verify(r)
    <2>1. UNCHANGED <<tx, stored>> /\ pc[r] # "wait"
        BY <1>9 DEF Verify, chainVars
    <2>2. CASE Proceed(r)
        BY <1>1, <1>3, <1>4, <2>1, <2>2, ProceedMoves
    <2>3. CASE AbortWith(r, "HASH_MISMATCH")
        BY <1>6, <2>1, <2>3 DEF EventTypes
    <2> QED
        BY <1>9, <2>2, <2>3 DEF Verify
<1>10. CASE BuildClaim(r)
    BY <1>6, <1>7, <1>10, <1>16 DEF BuildClaim, chainVars, EventTypes, HandlerSteps
<1>11. CASE CheckSignature(r)
    BY <1>6, <1>7, <1>11, <1>16 DEF CheckSignature, chainVars, EventTypes, HandlerSteps
<1>12. CASE EstimateGas(r)
    BY <1>6, <1>7, <1>12 DEF EstimateGas, chainVars, EventTypes, HandlerSteps
<1>13. CASE Send(r)
    <2>1. CASE AbortWith(r, "TX_FAIL")
        BY <1>6, <1>13, <2>1 DEF Send, Sends, EventTypes
    <2>2. CASE /\ tx' = [tx EXCEPT ![r] = "pending"]
               /\ Goto(r, "wait")
               /\ UNCHANGED <<rows, keys>>
        BY <1>1, <1>3, <1>4, <1>13, <2>2 DEF Send, Sends, Move, GoesOn, HandlerSteps
    <2> QED
        BY <1>13, <2>1, <2>2 DEF Send
<1>14. CASE WaitForTx(r)
    <2>1. UNCHANGED <<tx, stored>>
        BY <1>14 DEF WaitForTx, chainVars
    <2>2. CASE tx[r] = "mined" /\ Accept(r, Response(r, r, FALSE))
        BY <1>1, <1>3, <1>4, <2>1, <2>2, AcceptMoves
    <2>3. CASE AbortWith(r, "TX_FAIL")
        BY <1>6, <2>1, <2>3 DEF EventTypes
    <2> QED
        BY <1>14, <2>2, <2>3 DEF WaitForTx, Relayed
<1>15. CASE ReturnTypedData(r)
    <2>1. UNCHANGED <<tx, stored>>
        BY <1>15 DEF ReturnTypedData, chainVars
    <2>2. CASE Accept(r, Response(r, NoTx, TRUE))
        BY <1>1, <1>3, <1>4, <2>1, <2>2, AcceptMoves
    <2>3. CASE Accept(r, Response(r, NoTx, FALSE))
        BY <1>1, <1>3, <1>4, <2>1, <2>3, AcceptMoves
    <2>4. CASE Abort(r) /\ UNCHANGED rows
        BY <1>16, <2>1, <2>4
    <2> QED
        BY <1>15, <2>2, <2>3, <2>4 DEF ReturnTypedData
<1> QED
    BY <1>8, <1>9, <1>10, <1>11, <1>12, <1>13, <1>14, <1>15

LEMMA RequestMoves ==
    ASSUME TypeOK, NEW r \in Requests,
           HandlerStep(r) \/ \E in \in Inputs : Receive(r, in)
    PROVE  Move(r) /\ Around
BY ReceiveMoves, BeforeGuardMoves, HandlerMoves DEF HandlerStep

-------------------------------------------------------------------------------
(* The table of keys *)

LEMMA RecordTyped ==
    ASSUME TypeOK, NEW k \in Keys
    PROVE  /\ [keys[k] EXCEPT !.status = "FAILED"] \in KeyRecord
           /\ \A p \in ResponseType :
                [keys[k] EXCEPT !.status = "COMPLETED", !.response = p] \in KeyRecord
           /\ \A m \in Manifests : NewRecord(m) \in KeyRecord
           /\ NoRecord \in KeyRecord
<1>1. keys[k] \in KeyRecord
    BY DEF TypeOK
<1>2. clock \in Nat
    BY ClockType
<1>3. NoResponse \in ResponseType
    BY DEF ResponseType
<1> HIDE DEF ResponseType
<1>4. [keys[k] EXCEPT !.status = "FAILED"] \in KeyRecord
    BY <1>1 DEF KeyRecord
<1>5. ASSUME NEW p \in ResponseType
      PROVE  [keys[k] EXCEPT !.status = "COMPLETED", !.response = p] \in KeyRecord
    BY <1>1 DEF KeyRecord
<1>6. ASSUME NEW m \in Manifests
      PROVE  NewRecord(m) \in KeyRecord
    BY <1>2, <1>3 DEF KeyRecord, NewRecord
<1>7. NoRecord \in KeyRecord
    BY <1>3 DEF KeyRecord, NoRecord
<1> QED
    BY <1>4, <1>5, <1>6, <1>7

\* An UPDATE at the end of a handler changes the record of its key, if there is one, and
\* no other.
LEMMA FailedTyped ==
    ASSUME TypeOK, NEW k \in Keys
    PROVE  /\ Failed(k) \in [Keys -> KeyRecord]
           /\ \A j \in Keys : j # k => Failed(k)[j] = keys[j]
           /\ Failed(k)[k].status \in {"none", "FAILED"}
           /\ Failed(k)[k].response = keys[k].response
BY RecordTyped DEF Failed, TypeOK, KeyRecord, NoRecord

LEMMA CompletedTyped ==
    ASSUME TypeOK, NEW k \in Keys, NEW p \in ResponseType
    PROVE  /\ Completed(k, p) \in [Keys -> KeyRecord]
           /\ \A j \in Keys : j # k => Completed(k, p)[j] = keys[j]
           /\ Tells(Completed(k, p)[k]) => Completed(k, p)[k].response = p
<1>1. keys \in [Keys -> KeyRecord]
    BY DEF TypeOK
<1>2. CASE keys[k] = NoRecord
    <2>1. ~Tells(keys[k])
        BY <1>2 DEF Tells, IsCompleted, NoRecord
    <2> QED
        BY <1>1, <1>2, <2>1 DEF Completed
<1>3. CASE keys[k] # NoRecord
    <2>1. [keys[k] EXCEPT !.status = "COMPLETED", !.response = p] \in KeyRecord
        BY <1>1 DEF KeyRecord
    <2>2. [keys[k] EXCEPT !.status = "COMPLETED", !.response = p].response = p
        BY <1>1 DEF KeyRecord
    <2>3. Completed(k, p) =
            [keys EXCEPT ![k] = [keys[k] EXCEPT !.status = "COMPLETED", !.response = p]]
        BY <1>1, <1>3 DEF Completed, KeyRecord
    <2> QED
        BY <1>1, <2>1, <2>2, <2>3
<1> QED
    BY <1>2, <1>3

LEMMA GuardTyped ==
    ASSUME TypeOK, NEW k \in Keys, NEW m \in Manifests
    PROVE  /\ Released(k) \in [Keys -> KeyRecord]
           /\ \A j \in Keys : j # k => Released(k)[j] = keys[j]
           /\ Released(k)[k].status = "FAILED"
           /\ Released(k)[k].response = keys[k].response
           /\ Inserted(k, m) \in [Keys -> KeyRecord]
           /\ \A j \in Keys : j # k => Inserted(k, m)[j] = keys[j]
           /\ Inserted(k, m)[k].status = "PENDING"
           /\ Inserted(k, m)[k].response = NoResponse
<1>1. keys \in [Keys -> KeyRecord]
    BY DEF TypeOK
<1>2. /\ [keys[k] EXCEPT !.status = "FAILED"].status = "FAILED"
      /\ [keys[k] EXCEPT !.status = "FAILED"].response = keys[k].response
    BY <1>1 DEF KeyRecord
<1>3. Released(k) = [keys EXCEPT ![k] = [keys[k] EXCEPT !.status = "FAILED"]]
    BY DEF Released
<1>4. NewRecord(m).status = "PENDING" /\ NewRecord(m).response = NoResponse
    BY DEF NewRecord
<1>5. NewRecord(m) \in KeyRecord /\ [keys[k] EXCEPT !.status = "FAILED"] \in KeyRecord
    BY RecordTyped
<1>6. /\ Released(k) \in [Keys -> KeyRecord]
      /\ \A j \in Keys : j # k => Released(k)[j] = keys[j]
      /\ Released(k)[k].status = "FAILED"
      /\ Released(k)[k].response = keys[k].response
    BY <1>1, <1>2, <1>3, <1>5
<1>7. /\ Inserted(k, m) \in [Keys -> KeyRecord]
      /\ \A j \in Keys : j # k => Inserted(k, m)[j] = keys[j]
      /\ Inserted(k, m)[k].status = "PENDING"
      /\ Inserted(k, m)[k].response = NoResponse
    BY <1>1, <1>4, <1>5 DEF Inserted
<1> QED
    BY <1>6, <1>7

LEMMA CleanedTyped ==
    ASSUME TypeOK
    PROVE  /\ WithoutExpired \in [Keys -> KeyRecord]
           /\ \A k \in Keys :
                \/ WithoutExpired[k] = keys[k]
                \/ IsExpired(keys[k]) /\ WithoutExpired[k] = NoRecord
<1>1. \A k \in Keys : keys[k] \in KeyRecord /\ NoRecord \in KeyRecord
    BY RecordTyped DEF TypeOK
<1> QED
    BY <1>1 DEF WithoutExpired

-------------------------------------------------------------------------------
(* Types *)

Places == HandlerSteps \cup {"new", "lookup", "register", "done", "lost"}

\* A move of r keeps the types when what it writes is typed.
LEMMA MoveTyped ==
    ASSUME TypeOK, Around, NEW r \in Requests, NEW in \in Inputs, NEW step \in Places,
           step # "new",
           pc' = [pc EXCEPT ![r] = step],
           input' = [input EXCEPT ![r] = in],
           keys' \in [Keys -> KeyRecord],
           overtaken' \in SUBSET Keys,
           UNCHANGED tx \/ tx' = [tx EXCEPT ![r] = "pending"],
           \/ step # "done" /\ pc[r] # "done" /\ UNCHANGED answer
           \/ /\ step = "done"
              /\ \E kind \in {"ok", "cached", "processing", "error"}, p \in ResponseType :
                    answer' = [answer EXCEPT ![r] = [kind |-> kind, response |-> p]]
    PROVE  TypeOK'
<1>1. clock' \in 0..MaxTime /\ rows' \in [Requests -> RowType] /\ stored' \in StorageType
    BY DEF TypeOK, Around
<1>2. ChainTypeOK'
    BY DEF TypeOK, Around, ChainTypeOK
<1>3. pc' \in [Requests -> HandlerSteps \cup {"new", "lookup", "register", "done", "lost"}]
    BY DEF TypeOK, Places
<1>4. in # NoInput
    BY InputsType
<1>5. /\ input' \in [Requests -> Inputs \cup {NoInput}]
      /\ \A q \in Requests : input'[q] = NoInput <=> pc'[q] = "new"
    <2>1. /\ input \in [Requests -> Inputs \cup {NoInput}]
          /\ \A q \in Requests : input[q] = NoInput <=> pc[q] = "new"
          /\ pc \in [Requests -> Places]
        BY DEF TypeOK, Places
    <2> QED
        BY <1>4, <2>1
<1>6. /\ answer' \in [Requests -> [kind : {"none", "ok", "cached", "processing", "error"},
                                   response : ResponseType]]
      /\ \A q \in Requests : answer'[q] = NoAnswer <=> pc'[q] # "done"
    <2>1. /\ answer \in [Requests -> [kind : {"none", "ok", "cached", "processing", "error"},
                                      response : ResponseType]]
          /\ \A q \in Requests : answer[q] = NoAnswer <=> pc[q] # "done"
          /\ pc \in [Requests -> Places]
        BY DEF TypeOK, Places
    <2>2. CASE step # "done" /\ pc[r] # "done" /\ UNCHANGED answer
        BY <2>1, <2>2
    <2>3. ASSUME NEW kind \in {"ok", "cached", "processing", "error"}, NEW p \in ResponseType,
                 answer' = [answer EXCEPT ![r] = [kind |-> kind, response |-> p]],
                 step = "done"
          PROVE  <1>6!1 /\ <1>6!2
        <3>1. [kind |-> kind, response |-> p] # NoAnswer
            BY DEF NoAnswer
        <3> QED
            BY <2>1, <2>3, <3>1
    <2> QED
        BY <2>2, <2>3
<1> QED
    BY <1>1, <1>2, <1>3, <1>5, <1>6 DEF TypeOK

LEMMA MoveTypes ==
    ASSUME TypeOK, Around, NEW r \in Requests, Move(r)
    PROVE  TypeOK'
<1>1. keys \in [Keys -> KeyRecord] /\ overtaken \in SUBSET Keys /\ NoResponse \in ResponseType
    BY DEF TypeOK, ResponseType
<1>2. ASSUME NEW in \in Inputs, NEW step \in {"lookup", "register"}, Waits(r, in, step)
      PROVE  TypeOK'
    BY <1>1, <1>2, MoveTyped DEF Waits, Goto, Places
<1>3. ASSUME NEW in \in Inputs, Rejected(r, in)
      PROVE  TypeOK'
    BY <1>1, <1>3, MoveTyped DEF Rejected, Reply, Places
<1>4. ASSUME NEW in \in Inputs, Asks(r, in)
      PROVE  TypeOK'
    <2> DEFINE k == in.key
    <2>1. k \in Keys /\ in.manifest \in Manifests
        BY InputsType
    <2>2. keys[k].response \in ResponseType
        BY <1>1, <2>1 DEF KeyRecord
    <2>3. keys' \in [Keys -> KeyRecord] /\ overtaken' \in SUBSET Keys
        BY <1>1, <1>4, <2>1, GuardTyped DEF Asks, ClaimKey
    <2>4. \/ Reply(r, "cached", keys[k].response)
          \/ Reply(r, "processing", NoResponse)
          \/ Goto(r, "typed") \/ Goto(r, "store")
        BY <1>4 DEF Asks, ClaimKey
    <2>5. input' = [input EXCEPT ![r] = in] /\ UNCHANGED tx /\ pc[r] # "done"
        BY <1>4 DEF Asks
    <2>6. CASE Reply(r, "cached", keys[k].response) \/ Reply(r, "processing", NoResponse)
        BY <1>1, <2>2, <2>3, <2>5, <2>6, MoveTyped DEF Reply, Places
    <2>7. CASE Goto(r, "typed") \/ Goto(r, "store")
        BY <2>3, <2>5, <2>7, MoveTyped DEF Goto, Places, HandlerSteps
    <2> QED
        BY <2>4, <2>6, <2>7
<1>5. ASSUME Running(r)
      PROVE  /\ input[r] \in Inputs /\ input[r].key \in Keys
             /\ input = [input EXCEPT ![r] = input[r]]
             /\ pc[r] # "done" /\ pc[r] # "new"
    <2>1. pc[r] # "done" /\ pc[r] # "new"
        BY <1>5 DEF Running, HandlerSteps
    <2> QED
        BY <2>1, RunningInput, RunningKey DEF TypeOK
<1>6. ASSUME NEW step \in HandlerSteps, GoesOn(r, step)
      PROVE  TypeOK'
    <2>1. input' = [input EXCEPT ![r] = input[r]] /\ input[r] \in Inputs
        BY <1>5, <1>6 DEF GoesOn
    <2> QED
        BY <1>1, <1>5, <1>6, <2>1, MoveTyped DEF GoesOn, Goto, Sends, Places, HandlerSteps
<1>7. CASE Fails(r)
    <2>1. input' = [input EXCEPT ![r] = input[r]] /\ input[r] \in Inputs
        BY <1>5, <1>7 DEF Fails
    <2>2. keys' \in [Keys -> KeyRecord]
        BY <1>5, <1>7, FailedTyped DEF Fails, Abort
    <2> QED
        BY <1>1, <1>7, <2>1, <2>2, MoveTyped DEF Fails, Abort, Reply, Sends, Places
<1>8. ASSUME NEW hash \in Requests \cup {NoTx}, Succeeds(r, hash)
      PROVE  TypeOK'
    <2>1. input' = [input EXCEPT ![r] = input[r]] /\ input[r] \in Inputs
        BY <1>5, <1>8 DEF Succeeds
    <2>2. Response(r, hash, FALSE) \in ResponseType
        BY <1>5, <1>8, ResponseShape DEF Succeeds, ResponseType
    <2>3. keys' \in [Keys -> KeyRecord]
        BY <1>5, <1>8, <2>2, CompletedTyped DEF Succeeds
    <2> QED
        BY <1>1, <1>8, <2>1, <2>2, <2>3, MoveTyped DEF Succeeds, Reply, Places
<1> QED
    BY <1>2, <1>3, <1>4, <1>6, <1>7, <1>8 DEF Move

-------------------------------------------------------------------------------
(* One handler for a key *)

\* What a move of r leaves to the other handlers.
LEMMA OthersUntouched ==
    ASSUME TypeOK, NEW r \in Requests, NEW in, NEW step,
           pc' = [pc EXCEPT ![r] = step], input' = [input EXCEPT ![r] = in],
           NEW s \in Requests, s # r
    PROVE  ((Running(s))' <=> Running(s)) /\ input'[s] = input[s]
BY DEF TypeOK, Running

\* A move by which r does not come to hold a key keeps what handlers hold, if it keeps
\* the records of all keys but its own.
LEMMA NotHolding ==
    ASSUME Safe, NEW r \in Requests, NEW in, NEW step, step \notin HandlerSteps,
           pc' = [pc EXCEPT ![r] = step], input' = [input EXCEPT ![r] = in],
           overtaken \subseteq overtaken',
           \A s \in Requests :
                (s # r /\ Running(s) /\ input[s].key \notin overtaken') =>
                    keys'[input[s].key] = keys[input[s].key]
    PROVE  HandlersHoldKeys' /\ OneHandlerPerKey'
<1>1. \A s \in Requests : (Running(s))' => s # r /\ Running(s) /\ input'[s] = input[s]
    <2> SUFFICES ASSUME NEW s \in Requests, (Running(s))'
                 PROVE  s # r /\ Running(s) /\ input'[s] = input[s]
        OBVIOUS
    <2>1. s # r
        BY DEF Running, Safe, TypeOK
    <2> QED
        BY <2>1 DEF Running, Safe, TypeOK
<1>2. HandlersHoldKeys'
    BY <1>1 DEF HandlersHoldKeys, Safe
<1>3. OneHandlerPerKey'
    BY <1>1 DEF OneHandlerPerKey, Safe
<1> QED
    BY <1>2, <1>3

LEMMA EndKeepsOthers ==
    ASSUME Safe, NEW r \in Requests, Running(r), UNCHANGED overtaken,
           \A j \in Keys : j # input[r].key => keys'[j] = keys[j]
    PROVE  \A s \in Requests :
                (s # r /\ Running(s) /\ input[s].key \notin overtaken') =>
                    keys'[input[s].key] = keys[input[s].key]
<1> SUFFICES ASSUME NEW s \in Requests, s # r, Running(s), input[s].key \notin overtaken
             PROVE  keys'[input[s].key] = keys[input[s].key]
    OBVIOUS
<1>1. input[s].key \in Keys
    BY RunningKey DEF Safe, Running, HandlerSteps
<1>2. input[s].key # input[r].key
    BY DEF Safe, OneHandlerPerKey
<1> QED
    BY <1>1, <1>2

LEMMA MoveHolds ==
    ASSUME Safe, NEW r \in Requests, Move(r)
    PROVE  HandlersHoldKeys' /\ OneHandlerPerKey'
<1> USE DEF Safe
<1>1. ASSUME NEW in \in Inputs, NEW step \in {"lookup", "register"}, Waits(r, in, step)
      PROVE  HandlersHoldKeys' /\ OneHandlerPerKey'
    <2>1. step \notin HandlerSteps
        BY DEF HandlerSteps
    <2> QED
        BY <1>1, <2>1, NotHolding DEF Waits, Goto
<1>2. ASSUME NEW in \in Inputs, Rejected(r, in)
      PROVE  HandlersHoldKeys' /\ OneHandlerPerKey'
    <2>1. "done" \notin HandlerSteps
        BY DEF HandlerSteps
    <2> QED
        BY <1>2, <2>1, NotHolding DEF Rejected, Reply
<1>3. ASSUME NEW in \in Inputs, Asks(r, in)
      PROVE  HandlersHoldKeys' /\ OneHandlerPerKey'
    <2> DEFINE k == in.key
    <2>1. k \in Keys /\ in.manifest \in Manifests
        BY InputsType
    <2>2. "done" \notin HandlerSteps
        BY DEF HandlerSteps
    <2>3. input' = [input EXCEPT ![r] = in] /\ ClaimKey(r, in)
        BY <1>3 DEF Asks
    <2>4. CASE /\ Reply(r, "cached", keys[k].response) \/ Reply(r, "processing", NoResponse)
               /\ UNCHANGED <<keys, overtaken>>
        BY <2>2, <2>3, <2>4, NotHolding DEF Reply
    <2>5. CASE /\ keys' = Released(k)
               /\ Reply(r, "processing", NoResponse)
               /\ overtaken' = IF HeldByRunning(k) THEN overtaken \cup {k} ELSE overtaken
        <3>1. overtaken \subseteq overtaken'
            BY <2>5
        <3>2. ASSUME NEW s \in Requests, Running(s), input[s].key \notin overtaken'
              PROVE  keys'[input[s].key] = keys[input[s].key]
            <4>1. input[s].key # k
                BY <2>5, <3>2 DEF HeldByRunning
            <4>2. input[s].key \in Keys
                BY <3>2, RunningKey DEF Running, HandlerSteps
            <4> QED
                BY <2>1, <2>5, <4>1, <4>2, GuardTyped
        <3> QED
            BY <2>2, <2>3, <2>5, <3>1, <3>2, NotHolding DEF Reply
    <2>6. CASE /\ IsFree(keys[k])
               /\ keys' = Inserted(k, in.manifest)
               /\ Goto(r, IF in.dryRun THEN "typed" ELSE "store")
               /\ UNCHANGED overtaken
        <3>1. PICK step : pc' = [pc EXCEPT ![r] = step]
            BY <2>6 DEF Goto
        <3>2. \A s \in Requests :
                    s # r => ((Running(s))' <=> Running(s)) /\ input'[s] = input[s]
            BY <2>3, <3>1, OthersUntouched
        <3>3. \A s \in Requests : Running(s) /\ input[s].key = k => k \in overtaken
            BY <2>6 DEF HandlersHoldKeys, IsFree
        <3>4. input'[r] = in
            BY <2>3 DEF TypeOK
        <3>5. /\ \A j \in Keys : j # k => keys'[j] = keys[j]
              /\ keys'[k].status = "PENDING"
            BY <2>1, <2>6, GuardTyped
        <3>6. \A s \in Requests : Running(s) => input[s].key \in Keys
            BY RunningKey DEF Running, HandlerSteps
        <3>7. HandlersHoldKeys'
            BY <2>6, <3>2, <3>3, <3>4, <3>5, <3>6 DEF HandlersHoldKeys
        <3>8. OneHandlerPerKey'
            BY <2>6, <3>2, <3>3, <3>4 DEF OneHandlerPerKey
        <3> QED
            BY <3>7, <3>8
    <2> QED
        BY <2>3, <2>4, <2>5, <2>6 DEF ClaimKey
<1>4. ASSUME NEW step \in HandlerSteps, GoesOn(r, step)
      PROVE  HandlersHoldKeys' /\ OneHandlerPerKey'
    <2>1. \A s \in Requests : (Running(s))' => Running(s)
        BY <1>4 DEF GoesOn, Goto, Running, TypeOK
    <2> QED
        BY <1>4, <2>1 DEF GoesOn, HandlersHoldKeys, OneHandlerPerKey
<1>5. ASSUME Running(r), UNCHANGED <<input, overtaken>>,
             NEW kind, NEW p, Reply(r, kind, p),
             \A j \in Keys : j # input[r].key => keys'[j] = keys[j]
      PROVE  HandlersHoldKeys' /\ OneHandlerPerKey'
    <2>1. "done" \notin HandlerSteps
        BY DEF HandlerSteps
    <2>2. input' = [input EXCEPT ![r] = input[r]]
        BY <1>5 DEF TypeOK
    <2> QED
        BY <1>5, <2>1, <2>2, EndKeepsOthers, NotHolding DEF Reply
<1>6. CASE Fails(r)
    <2>1. \A j \in Keys : j # input[r].key => keys'[j] = keys[j]
        BY <1>6, FailedTyped, RunningKey DEF Fails, Abort, Running, HandlerSteps
    <2> QED
        BY <1>5, <1>6, <2>1 DEF Fails, Abort
<1>7. ASSUME NEW hash \in Requests \cup {NoTx}, Succeeds(r, hash)
      PROVE  HandlersHoldKeys' /\ OneHandlerPerKey'
    <2>1. pc[r] # "new"
        BY <1>7 DEF Succeeds, Running, HandlerSteps
    <2>2. Response(r, hash, FALSE) \in ResponseType
        BY <2>1, ResponseShape DEF ResponseType
    <2>3. \A j \in Keys : j # input[r].key => keys'[j] = keys[j]
        BY <1>7, <2>1, <2>2, CompletedTyped, RunningKey DEF Succeeds
    <2> QED
        BY <1>5, <1>7, <2>3 DEF Succeeds
<1> QED
    BY <1>1, <1>2, <1>3, <1>4, <1>6, <1>7 DEF Move

-------------------------------------------------------------------------------
(* The steps of the process, the tables and the chain *)

LEMMA CrashSafe ==
    ASSUME Safe, Crash
    PROVE  Safe'
<1> USE DEF Safe
<1>1. /\ UNCHANGED <<clock, rows, keys, job, late, robot, tx, input, answer, overtaken>>
      /\ pc' = [r \in Requests |-> IF pc[r] \in {"new", "done"} THEN pc[r] ELSE "lost"]
    BY DEF Crash, chainVars
<1>5. stored' \in StorageType
    BY RunningInput, InputsType, CutTyped DEF Crash, TypeOK
<1>2. \A r \in Requests : /\ ~(Running(r))'
                          /\ pc'[r] = "new" <=> pc[r] = "new"
                          /\ pc'[r] = "done" <=> pc[r] = "done"
    BY <1>1 DEF Running, HandlerSteps
<1>3. pc' \in [Requests -> HandlerSteps \cup {"new", "lookup", "register", "done", "lost"}]
    BY <1>1
<1>4. TypeOK'
    BY <1>1, <1>2, <1>3, <1>5 DEF TypeOK, ChainTypeOK
<1> QED
    BY <1>1, <1>2, <1>4 DEF HandlersHoldKeys, OneHandlerPerKey, SentByWaiting

LEMMA CleanupSafe ==
    ASSUME Safe, Cleanup
    PROVE  Safe'
<1> USE DEF Safe
<1>1. /\ UNCHANGED <<clock, rows, job, late, robot, tx, pc, input, answer, stored, overtaken>>
      /\ keys' = WithoutExpired
    BY DEF Cleanup, chainVars, requestVars
<1>2. TypeOK'
    BY <1>1, CleanedTyped DEF TypeOK, ChainTypeOK
<1>3. \A k \in Keys : keys[k].status = "PENDING" => keys'[k].status = "PENDING"
    BY <1>1, CleanedTyped DEF IsExpired
<1>4. \A r \in Requests : (Running(r))' <=> Running(r)
    BY <1>1 DEF Running
<1>5. \A r \in Requests : Running(r) => input[r].key \in Keys
    BY RunningKey DEF Running, HandlerSteps
<1> QED
    BY <1>1, <1>2, <1>3, <1>4, <1>5 DEF HandlersHoldKeys, OneHandlerPerKey, SentByWaiting

LEMMA OnChainSafe ==
    ASSUME Safe, OnChain
    PROVE  Safe'
<1> USE DEF Safe
<1>1. UNCHANGED <<clock, rows, keys, pc, input, answer, stored, overtaken>>
    BY DEF OnChain
<1>2. ChainTypeOK
    BY DEF TypeOK
<1>3. ASSUME NEW m \in Manifests, CompleteJob(m)
      PROVE  job' \in [status : {"NONE", "FUNDED", "COMPLETED"},
                       completionHash : Manifests \cup {NoHash}]
    BY <1>3 DEF CompleteJob
<1>4. ChainTypeOK'
    <2>1. CASE ChainStep
        BY <1>2, <1>3, <2>1 DEF ChainStep, FundJob, DeadlinePasses, RegisterRobot,
               DeactivateRobot, SelfSubmit, ChainTypeOK
    <2>2. ASSUME NEW r \in Requests, Mine(r, input[r].manifest)
          PROVE  ChainTypeOK'
        <3>1. CASE Accepts
            <4>1. pc[r] # "new"
                BY <2>2 DEF Mine, SentByWaiting
            <4>2. input[r].manifest \in Manifests
                BY <4>1, RunningInput, InputsType
            <4> QED
                BY <1>2, <1>3, <2>2, <3>1, <4>2 DEF Mine, ChainTypeOK
        <3>2. CASE ~Accepts
            BY <1>2, <2>2, <3>2 DEF Mine, ChainTypeOK
        <3> QED
            BY <3>1, <3>2
    <2> QED
        BY <2>1, <2>2 DEF OnChain
<1>5. TypeOK'
    BY <1>1, <1>4 DEF TypeOK
<1>6. \A r \in Requests : tx'[r] # "none" => tx[r] # "none"
    BY <1>2 DEF OnChain, ChainStep, FundJob, DeadlinePasses, RegisterRobot, DeactivateRobot,
           SelfSubmit, Mine, ChainTypeOK
<1> QED
    BY <1>1, <1>5, <1>6 DEF HandlersHoldKeys, OneHandlerPerKey, SentByWaiting, Running

LEMMA TickSafe ==
    ASSUME Safe, Tick
    PROVE  Safe'
<1>1. UNCHANGED <<rows, keys, job, late, robot, tx, pc, input, answer, stored, overtaken>>
    BY DEF Tick, chainVars, requestVars
<1>2. clock' \in 0..MaxTime
    BY SubmissionAssumption DEF Tick, Safe, TypeOK
<1> QED
    BY <1>1, <1>2 DEF Safe, TypeOK, ChainTypeOK, HandlersHoldKeys, OneHandlerPerKey, Running,
           SentByWaiting

LEMMA MoveSends ==
    ASSUME Safe, NEW r \in Requests, Move(r)
    PROVE  SentByWaiting'
<1> USE DEF Safe
<1>1. \A s \in Requests : tx[s] # "none" => pc[s] \in {"wait", "done", "lost"}
    BY DEF SentByWaiting
<1>2. tx \in [Requests -> {"none", "pending", "mined", "reverted"}]
    BY DEF TypeOK, ChainTypeOK
<1>3. pc \in [Requests -> Places]
    BY DEF TypeOK, Places
<1>4. ASSUME NEW step, pc' = [pc EXCEPT ![r] = step], UNCHANGED tx,
             tx[r] = "none" \/ step = "done"
      PROVE  SentByWaiting'
    BY <1>1, <1>2, <1>3, <1>4 DEF SentByWaiting
<1>5. ASSUME NEW step \in {"wait", "done"}, pc' = [pc EXCEPT ![r] = step], Sends(r)
      PROVE  SentByWaiting'
    BY <1>1, <1>2, <1>3, <1>5 DEF SentByWaiting, Sends
<1>6. pc[r] \notin {"wait", "done", "lost"} => tx[r] = "none"
    BY <1>1
<1>7. ASSUME NEW in \in Inputs, NEW step \in {"lookup", "register"}, Waits(r, in, step)
      PROVE  SentByWaiting'
    BY <1>4, <1>6, <1>7 DEF Waits, Goto
<1>8. ASSUME NEW in \in Inputs, Rejected(r, in)
      PROVE  SentByWaiting'
    BY <1>4, <1>8 DEF Rejected, Reply
<1>9. ASSUME NEW in \in Inputs, Asks(r, in)
      PROVE  SentByWaiting'
    <2>1. tx[r] = "none" /\ UNCHANGED tx
        BY <1>6, <1>9 DEF Asks
    <2>2. \E step : pc' = [pc EXCEPT ![r] = step]
        BY <1>9 DEF Asks, ClaimKey, Reply, Goto
    <2> QED
        BY <1>4, <2>1, <2>2
<1>10. ASSUME NEW step \in HandlerSteps, GoesOn(r, step)
       PROVE  SentByWaiting'
    <2>1. CASE pc[r] # "wait" /\ UNCHANGED tx
        BY <1>4, <1>6, <1>10, <2>1 DEF GoesOn, Goto, Running, HandlerSteps
    <2>2. CASE step = "wait" /\ Sends(r)
        BY <1>5, <1>10, <2>2 DEF GoesOn, Goto
    <2> QED
        BY <1>10, <2>1, <2>2 DEF GoesOn
<1>11. CASE Fails(r)
    BY <1>4, <1>5, <1>11 DEF Fails, Abort, Reply
<1>12. ASSUME NEW hash \in Requests \cup {NoTx}, Succeeds(r, hash)
       PROVE  SentByWaiting'
    BY <1>4, <1>12 DEF Succeeds, Reply
<1> QED
    BY <1>7, <1>8, <1>9, <1>10, <1>11, <1>12 DEF Move

-------------------------------------------------------------------------------
(* Completions are kept *)

LEMMA MoveKeeps ==
    ASSUME Safe, NEW r \in Requests, Move(r), NEW k \in Keys, k \notin overtaken
    PROVE  Kept(k)
<1> USE DEF Safe
<1>1. CASE UNCHANGED keys
    BY <1>1 DEF Kept
<1>2. ASSUME NEW in \in Inputs, Asks(r, in)
      PROVE  Kept(k)
    <2>1. in.key \in Keys /\ in.manifest \in Manifests
        BY InputsType
    <2>2. CASE UNCHANGED keys
        BY <1>1, <2>2
    <2>3. CASE /\ ~IsCompleted(keys[in.key])
               /\ keys' = Released(in.key) \/ keys' = Inserted(in.key, in.manifest)
        BY <2>1, <2>3, GuardTyped DEF Kept
    <2> QED
        BY <1>2, <2>2, <2>3 DEF Asks, ClaimKey, IsStuck, IsFree, IsCompleted
<1>3. ASSUME Running(r)
      PROVE  /\ input[r].key \in Keys /\ pc[r] # "new"
             /\ input[r].key = k => ~IsCompleted(keys[k])
    BY <1>3, RunningKey DEF Running, HandlerSteps, HandlersHoldKeys, IsCompleted
<1>4. CASE Fails(r)
    BY <1>3, <1>4, FailedTyped DEF Fails, Abort, Kept
<1>5. ASSUME NEW hash \in Requests \cup {NoTx}, Succeeds(r, hash)
      PROVE  Kept(k)
    <2>1. Running(r) /\ keys' = Completed(input[r].key, Response(r, hash, FALSE))
        BY <1>5 DEF Succeeds
    <2>2. Response(r, hash, FALSE) \in ResponseType
        BY <1>3, <2>1, ResponseShape DEF ResponseType
    <2> QED
        BY <1>3, <2>1, <2>2, CompletedTyped DEF Kept
<1> QED
    BY <1>1, <1>2, <1>4, <1>5 DEF Move, Waits, Rejected, GoesOn

LEMMA NextKeeps == Safe /\ [Next]_vars => [\A k \in Keys : k \notin overtaken => Kept(k)]_vars
<1> SUFFICES ASSUME Safe, Next, NEW k \in Keys, k \notin overtaken
             PROVE  Kept(k)
    OBVIOUS
<1>1. CASE \/ \E r \in Requests, in \in Inputs : Receive(r, in)
           \/ \E r \in Requests : HandlerStep(r)
    BY <1>1, RequestMoves, MoveKeeps DEF Safe
<1>2. CASE Cleanup
    BY <1>2, CleanedTyped DEF Cleanup, Kept, Safe
<1>3. CASE Crash \/ OnChain \/ Tick
    BY <1>3 DEF Crash, OnChain, Tick, Kept
<1> QED
    BY <1>1, <1>2, <1>3 DEF Next

-------------------------------------------------------------------------------
(* Responses are true of the chain *)

\* A response stays true while mined transactions stay mined.
LEMMA TrueStays ==
    ASSUME NEW t, NEW i, NEW u, NEW j, NEW p, IsTrueOf(p, t, i),
           \A s \in Requests : t[s] = "mined" => u[s] = "mined" /\ j[s] = i[s]
    PROVE  IsTrueOf(p, u, j)
BY DEF IsTrueOf

LEMMA MoveMines ==
    ASSUME Safe, NEW r \in Requests, Move(r), NEW s \in Requests
    PROVE  /\ tx'[s] = "mined" <=> tx[s] = "mined"
           /\ tx[s] = "mined" => input'[s] = input[s]
<1> USE DEF Safe
<1>1. tx[s] = "mined" => pc[s] \in {"wait", "done", "lost"}
    BY DEF SentByWaiting
<1>2. UNCHANGED tx \/ Sends(r)
    BY DEF Move, Waits, Rejected, Asks, GoesOn, Fails, Succeeds
<1>3. tx'[s] = "mined" <=> tx[s] = "mined"
    BY <1>1, <1>2 DEF Sends, TypeOK, ChainTypeOK
<1>4. \/ UNCHANGED input
      \/ /\ pc[r] \in {"new", "lookup", "register"}
         /\ \E in \in Inputs : input' = [input EXCEPT ![r] = in]
    BY DEF Move, Waits, Rejected, Asks, GoesOn, Fails, Succeeds
<1>5. tx[s] = "mined" => input'[s] = input[s]
    BY <1>1, <1>4 DEF TypeOK
<1> QED
    BY <1>3, <1>5

\* What a move writes in the answer and in the records is good, when the responses there
\* are good and a response that the move makes is.
LEMMA MoveTells ==
    ASSUME Safe, NEW r \in Requests, Move(r), NEW Good,
           \A q \in Requests :
                answer[q].kind \in {"ok", "cached"} => answer[q].response \in Good,
           \A k \in Keys : Tells(keys[k]) => keys[k].response \in Good,
           \A hash \in Requests \cup {NoTx} :
                Succeeds(r, hash) => Response(r, hash, FALSE) \in Good
    PROVE  /\ \A q \in Requests :
                answer'[q].kind \in {"ok", "cached"} => answer'[q].response \in Good
           /\ \A k \in Keys : Tells(keys'[k]) => keys'[k].response \in Good
<1> USE DEF Safe
<1> DEFINE A == \A q \in Requests :
                    answer'[q].kind \in {"ok", "cached"} => answer'[q].response \in Good
           K == \A k \in Keys : Tells(keys'[k]) => keys'[k].response \in Good
<1>1. ASSUME UNCHANGED answer
      PROVE  A
    BY <1>1
<1>2. ASSUME UNCHANGED keys
      PROVE  K
    BY <1>2
<1>3. answer \in [Requests -> [kind : {"none", "ok", "cached", "processing", "error"},
                               response : ResponseType]]
    BY DEF TypeOK
<1>4. ASSUME NEW kind, NEW p, Reply(r, kind, p), kind \in {"ok", "cached"} => p \in Good
      PROVE  A
    <2>1. answer' = [answer EXCEPT ![r] = [kind |-> kind, response |-> p]]
        BY <1>4 DEF Reply
    <2> QED
        BY <1>3, <1>4, <2>1
<1>5. ASSUME NEW k \in Keys, \A j \in Keys : j # k => keys'[j] = keys[j],
             Tells(keys'[k]) => keys'[k].response \in Good
      PROVE  K
    BY <1>5
<1>6. ASSUME NEW in \in Inputs, Asks(r, in)
      PROVE  A /\ K
    <2>1. in.key \in Keys /\ in.manifest \in Manifests
        BY InputsType
    <2>2. CASE /\ IsCompleted(keys[in.key])
               /\ Reply(r, "cached", keys[in.key].response)
               /\ UNCHANGED keys
        BY <1>2, <1>4, <2>1, <2>2 DEF Tells
    <2>3. CASE Reply(r, "processing", NoResponse) /\ UNCHANGED keys
        BY <1>2, <1>4, <2>3
    <2>4. CASE Reply(r, "processing", NoResponse) /\ keys' = Released(in.key)
        BY <1>4, <1>5, <2>1, <2>4, GuardTyped DEF IsCompleted, Tells
    <2>5. CASE /\ Goto(r, IF in.dryRun THEN "typed" ELSE "store")
               /\ keys' = Inserted(in.key, in.manifest)
        <3>1. A
            BY <1>1, <2>5 DEF Goto
        <3>2. ~Tells(keys'[in.key]) /\ \A j \in Keys : j # in.key => keys'[j] = keys[j]
            BY <2>1, <2>5, GuardTyped DEF IsCompleted, Tells
        <3> QED
            BY <1>5, <2>1, <3>1, <3>2
    <2> QED
        BY <1>6, <2>2, <2>3, <2>4, <2>5 DEF Asks, ClaimKey
<1>7. ASSUME Running(r)
      PROVE  input[r].key \in Keys /\ pc[r] # "new"
    BY <1>7, RunningKey DEF Running, HandlerSteps
<1>8. CASE Fails(r)
    <2>1. A
        BY <1>4, <1>8 DEF Fails, Abort
    <2>2. K
        BY <1>5, <1>7, <1>8, FailedTyped DEF Fails, Abort, IsCompleted, Tells
    <2> QED
        BY <2>1, <2>2
<1>9. ASSUME NEW hash \in Requests \cup {NoTx}, Succeeds(r, hash)
      PROVE  A /\ K
    <2>1. /\ Running(r)
          /\ keys' = Completed(input[r].key, Response(r, hash, FALSE))
          /\ Reply(r, "ok", Response(r, hash, FALSE))
          /\ Response(r, hash, FALSE) \in Good
        BY <1>9 DEF Succeeds
    <2>2. A
        BY <1>4, <2>1
    <2>3. Response(r, hash, FALSE) \in ResponseType
        BY <1>7, <2>1, ResponseShape DEF ResponseType
    <2>4. PICK p : p = Response(r, hash, FALSE)
        OBVIOUS
    <2>5. /\ \A j \in Keys : j # input[r].key => keys'[j] = keys[j]
          /\ Tells(keys'[input[r].key]) => keys'[input[r].key].response = p
        BY <1>7, <2>1, <2>3, <2>4, CompletedTyped
    <2>6. K
        BY <1>5, <1>7, <2>1, <2>4, <2>5
    <2> QED
        BY <2>2, <2>6
<1> QED
    BY <1>1, <1>2, <1>4, <1>6, <1>8, <1>9 DEF Move, Waits, Rejected, GoesOn, Goto

\* What a move writes in the answer and in the records is true.
LEMMA MoveAnswers ==
    ASSUME Safe, Backed, NEW r \in Requests, Move(r)
    PROVE  /\ \A q \in Requests :
                answer'[q].kind \in {"ok", "cached"} => IsTrueOf(answer'[q].response, tx, input)
           /\ \A k \in Keys :
                Tells(keys'[k]) => IsTrueOf(keys'[k].response, tx, input)
<1>1. PICK Good : Good = {p \in FullResponse : IsTrueOf(p, tx, input)}
    OBVIOUS
<1>2. \A p : p \in Good <=> IsTrueOf(p, tx, input)
    BY <1>1 DEF IsTrueOf
<1>3. ASSUME NEW hash \in Requests \cup {NoTx}, Succeeds(r, hash)
      PROVE  Response(r, hash, FALSE) \in Good
    <2>1. /\ Running(r) /\ pc[r] # "new"
          /\ hash = NoTx \/ (hash = r /\ tx[r] = "mined")
        BY <1>3 DEF Succeeds, Running, HandlerSteps
    <2>2. /\ Response(r, hash, FALSE) \in FullResponse
          /\ Response(r, hash, FALSE).manifest = input[r].manifest
          /\ Response(r, hash, FALSE).txHash = hash
        BY <2>1, ResponseShape DEF Safe
    <2> QED
        BY <1>2, <2>1, <2>2 DEF IsTrueOf
<1>4. /\ \A q \in Requests :
            answer[q].kind \in {"ok", "cached"} => answer[q].response \in Good
      /\ \A k \in Keys : Tells(keys[k]) => keys[k].response \in Good
    BY <1>2 DEF Backed, AnswersTrue, RecordsTrue
<1>5. /\ \A q \in Requests :
            answer'[q].kind \in {"ok", "cached"} => answer'[q].response \in Good
      /\ \A k \in Keys : Tells(keys'[k]) => keys'[k].response \in Good
    BY <1>3, <1>4, MoveTells
<1> QED
    BY <1>2, <1>5

LEMMA MoveBacked ==
    ASSUME Safe, Backed, NEW r \in Requests, Move(r), Around
    PROVE  Backed'
<1>1. \A s \in Requests : tx[s] = "mined" => tx'[s] = "mined" /\ input'[s] = input[s]
    BY MoveMines
<1>2. MinedIsCompletion'
    BY MoveMines DEF MinedIsCompletion, Backed, Around
<1>3. AnswersTrue' /\ RecordsTrue'
    BY <1>1, MoveAnswers, TrueStays DEF AnswersTrue, RecordsTrue
<1> QED
    BY <1>2, <1>3 DEF Backed

-------------------------------------------------------------------------------
(* Theorems *)

LEMMA InitSafe == Init => Safe
<1> SUFFICES ASSUME Init
             PROVE  Safe
    OBVIOUS
<1>1. \A r \in Requests : ~Running(r)
    BY DEF Init, Running, HandlerSteps
<1>2. clock \in 0..MaxTime /\ 0 \in Nat
    BY SubmissionAssumption DEF Init, QueueInit
<1>3. NoRow \in RowType
    BY DEF NoRow, RowType
<1>4. NoRecord \in KeyRecord
    BY DEF NoRecord, KeyRecord, ResponseType
<1>5. ChainTypeOK
    BY DEF Init, ChainInit, ChainTypeOK
<1>6. NoAnswer \in [kind : {"none", "ok", "cached", "processing", "error"},
                    response : ResponseType]
    BY DEF NoAnswer, ResponseType
<1>9. stored \in StorageType
    BY DEF Init, StorageInit, StorageType
<1>7. TypeOK
    BY <1>2, <1>3, <1>4, <1>5, <1>6, <1>9 DEF Init, QueueInit, KeysInit, TypeOK
<1>8. SentByWaiting
    BY DEF Init, ChainInit, SentByWaiting
<1> QED
    BY <1>1, <1>7, <1>8 DEF Safe, HandlersHoldKeys, OneHandlerPerKey

LEMMA NextSafe == Safe /\ [Next]_vars => Safe'
<1> SUFFICES ASSUME Safe, [Next]_vars
             PROVE  Safe'
    OBVIOUS
<1>1. ASSUME NEW r \in Requests, Move(r), Around
      PROVE  Safe'
    BY <1>1, MoveTypes, MoveHolds, MoveSends DEF Safe
<1>2. CASE UNCHANGED vars
    BY <1>2 DEF vars, chainVars, requestVars, Safe, TypeOK, ChainTypeOK, HandlersHoldKeys,
           OneHandlerPerKey, SentByWaiting, Running
<1>3. CASE \/ \E r \in Requests, in \in Inputs : Receive(r, in)
           \/ \E r \in Requests : HandlerStep(r)
    BY <1>1, <1>3, RequestMoves DEF Safe
<1> QED
    BY <1>2, <1>3, CrashSafe, CleanupSafe, OnChainSafe, TickSafe DEF Next

\* Safe is an invariant: types, at most one handler for a key that was not taken over, and
\* a PENDING record for it; nothing is sent but by requests that wait for it.
THEOREM SafeAlways == Spec => []Safe
BY InitSafe, NextSafe, PTL DEF Spec

\* The types, with what the place of a request in the webhook says of its answer.
THEOREM TypeCorrect == Spec => []TypeOK
<1>1. Safe => TypeOK
    BY DEF Safe
<1> QED
    BY <1>1, SafeAlways, PTL

\* One handler works on a key: withIdempotency with any number of requests, whatever
\* fails, crashes or is cleaned up.
THEOREM OneHandler == Spec => []OneHandlerPerKey
<1>1. Safe => OneHandlerPerKey
    BY DEF Safe
<1> QED
    BY <1>1, SafeAlways, PTL

LEMMA OnChainBacked ==
    ASSUME Safe, Backed, OnChain
    PROVE  Backed'
<1> USE DEF Safe, Backed
<1>1. UNCHANGED <<keys, input, answer>>
    BY DEF OnChain
<1>2. ASSUME NEW s \in Requests, tx[s] = "mined"
      PROVE  job.status = "COMPLETED"
    BY <1>2 DEF MinedIsCompletion
<1>3. ChainTypeOK
    BY DEF TypeOK
<1>4. CASE ChainStep
    <2>1. UNCHANGED tx
        BY <1>4 DEF ChainStep, FundJob, DeadlinePasses, RegisterRobot, DeactivateRobot, SelfSubmit
    <2>2. job.status = "COMPLETED" => UNCHANGED job
        BY <1>4 DEF ChainStep, FundJob, DeadlinePasses, RegisterRobot, DeactivateRobot,
               SelfSubmit, Accepts
    <2>3. MinedIsCompletion'
        BY <1>1, <1>2, <2>1, <2>2 DEF MinedIsCompletion
    <2> QED
        BY <1>1, <2>1, <2>3 DEF AnswersTrue, RecordsTrue
<1>5. ASSUME NEW r \in Requests, Mine(r, input[r].manifest)
      PROVE  Backed'
    <2>1. \A s \in Requests : tx[s] = "mined" => tx'[s] = "mined" /\ input'[s] = input[s]
        BY <1>1, <1>3, <1>5 DEF Mine, ChainTypeOK
    <2>2. AnswersTrue' /\ RecordsTrue'
        BY <1>1, <2>1, TrueStays DEF AnswersTrue, RecordsTrue
    <2>3. CASE Accepts
        <3>1. \A s \in Requests : tx[s] # "mined"
            BY <1>2, <2>3 DEF Accepts
        <3>2. /\ job' = [status |-> "COMPLETED", completionHash |-> input[r].manifest]
              /\ tx' = [tx EXCEPT ![r] = "mined"]
            BY <1>5, <2>3 DEF Mine, CompleteJob
        <3>3. \A s \in Requests : tx'[s] = "mined" => s = r
            BY <1>3, <3>1, <3>2 DEF ChainTypeOK
        <3>4. MinedIsCompletion'
            BY <1>1, <3>2, <3>3 DEF MinedIsCompletion
        <3> QED
            BY <2>2, <3>4
    <2>4. CASE ~Accepts
        <3>1. UNCHANGED job /\ tx' = [tx EXCEPT ![r] = "reverted"]
            BY <1>5, <2>4 DEF Mine
        <3>2. \A s \in Requests : tx'[s] = "mined" => tx[s] = "mined"
            BY <1>3, <3>1 DEF ChainTypeOK
        <3>3. MinedIsCompletion'
            BY <1>1, <3>1, <3>2 DEF MinedIsCompletion
        <3> QED
            BY <2>2, <3>3
    <2> QED
        BY <2>3, <2>4
<1> QED
    BY <1>4, <1>5 DEF OnChain

LEMMA NextBacked == Safe /\ Backed /\ [Next]_vars => Backed'
<1> SUFFICES ASSUME Safe, Backed, [Next]_vars
             PROVE  Backed'
    OBVIOUS
<1>1. CASE \/ \E r \in Requests, in \in Inputs : Receive(r, in)
           \/ \E r \in Requests : HandlerStep(r)
    BY <1>1, RequestMoves, MoveBacked DEF Safe
<1>2. CASE OnChain
    BY <1>2, OnChainBacked
<1>3. CASE Cleanup
    <2>1. UNCHANGED <<tx, job, input, answer>> /\ keys' = WithoutExpired
        BY <1>3 DEF Cleanup, chainVars, requestVars
    <2>2. \A k \in Keys : Tells(keys'[k]) => keys'[k] = keys[k]
        BY <2>1, CleanedTyped DEF Safe, Tells, IsCompleted, NoRecord
    <2> QED
        BY <2>1, <2>2 DEF Backed, MinedIsCompletion, AnswersTrue, RecordsTrue
<1>4. CASE Crash \/ Tick \/ UNCHANGED vars
    <2>1. UNCHANGED <<tx, job, input, answer, keys>>
        BY <1>4 DEF Crash, Tick, vars, chainVars, requestVars
    <2> QED
        BY <2>1 DEF Backed, MinedIsCompletion, AnswersTrue, RecordsTrue
<1> QED
    BY <1>1, <1>2, <1>3, <1>4 DEF Next

LEMMA InitBacked == Init => Backed
BY DEF Init, ChainInit, KeysInit, NoRecord, NoAnswer, Backed, MinedIsCompletion, AnswersTrue,
       RecordsTrue, Tells, IsCompleted

LEMMA BackedResponses == Backed => HashesTrue
<1> SUFFICES ASSUME Backed, NEW p \in Responses, p.txHash # NoTx
             PROVE  /\ tx[p.txHash] = "mined"
                    /\ job = [status |-> "COMPLETED", completionHash |-> p.manifest]
    BY DEF HashesTrue
<1>1. IsTrueOf(p, tx, input)
    BY DEF Responses, StatusResponse, Backed, AnswersTrue, RecordsTrue, Tells
<1> QED
    BY <1>1 DEF IsTrueOf, Backed, MinedIsCompletion

\* A completion leaves its key only when its time is over, unless a handler of the key was
\* overtaken.
THEOREM CompletionsStay == Spec => CompletionsKept
BY SafeAlways, NextKeeps, PTL DEF Spec, CompletionsKept

-------------------------------------------------------------------------------
(* What was accepted is stored *)

\* The storage st has the manifest m, though a later write of it may have been cut short.
Has(st, m) == st[m] \in {"whole", "ruined"}

IsStored(p, st) == p \in FullResponse /\ (p.dryRun \/ Has(st, p.manifest))

\* In a strict and required storage a handler past its upload has its manifest stored, a
\* response names a stored one, and a request is answered for its own.
StoredInv ==
    /\ \A r \in Requests :
        (Running(r) /\ pc[r] # "store" /\ ~input[r].dryRun) => Has(stored, input[r].manifest)
    /\ \A r \in Requests :
        answer[r].kind \in {"ok", "cached"} => IsStored(answer[r].response, stored)
    /\ \A k \in Keys : Tells(keys[k]) => IsStored(keys[k].response, stored)
    /\ \A r \in Requests :
        answer[r].kind = "ok" => /\ answer[r].response.manifest = input[r].manifest
                                 /\ answer[r].response.dryRun = input[r].dryRun

\* No write takes from the storage a manifest that it has.
LEMMA WritesKeep ==
    ASSUME TypeOK, NEW m \in Manifests,
           stored' = stored \/ stored' = Whole(m) \/ stored' = Cut(m)
    PROVE  \A n \in Manifests : Has(stored, n) => Has(stored', n)
BY DEF TypeOK, StorageType, Whole, Cut, Has

LEMMA StoredStays ==
    ASSUME NEW p, IsStored(p, stored),
           \A n \in Manifests : Has(stored, n) => Has(stored', n)
    PROVE  IsStored(p, stored')
BY DEF IsStored, FullResponse

LEMMA StoredFrame ==
    ASSUME StoredInv, UNCHANGED <<input, answer>>,
           \A n \in Manifests : Has(stored, n) => Has(stored', n),
           \A r \in Requests : (Running(r))' => Running(r) /\ pc'[r] = pc[r],
           \A r \in Requests : Running(r) => input[r].manifest \in Manifests,
           \A k \in Keys : Tells(keys'[k]) => keys'[k] = keys[k]
    PROVE  StoredInv'
<1>1. \A r \in Requests :
        (Running(r) /\ pc[r] # "store" /\ ~input[r].dryRun)' => Has(stored', input'[r].manifest)
    BY DEF StoredInv
<1>2. \A r \in Requests :
        answer'[r].kind \in {"ok", "cached"} => IsStored(answer'[r].response, stored')
    BY StoredStays DEF StoredInv
<1>3. \A k \in Keys : Tells(keys'[k]) => IsStored(keys'[k].response, stored')
    BY StoredStays DEF StoredInv
<1>4. \A r \in Requests :
        answer'[r].kind = "ok" => /\ answer'[r].response.manifest = input'[r].manifest
                                  /\ answer'[r].response.dryRun = input'[r].dryRun
    BY DEF StoredInv
<1> QED
    BY <1>1, <1>2, <1>3, <1>4 DEF StoredInv

LEMMA StepStores ==
    ASSUME TypeOK, NEW r \in Requests,
           HandlerStep(r) \/ \E in \in Inputs : Receive(r, in)
    PROVE  /\ \A n \in Manifests : Has(stored, n) => Has(stored', n)
           /\ StrictStorage /\ StorageRequired /\ pc[r] = "store" =>
                Has(stored', input[r].manifest) \/ answer'[r].kind = "error"
<1>1. CASE Store(r)
    <2>1. pc[r] = "store" /\ input[r].manifest \in Manifests
        BY <1>1, RunningInput, InputsType DEF Store
    <2>2. \/ stored' = stored
          \/ stored' = Whole(input[r].manifest)
          \/ stored' = Cut(input[r].manifest)
        BY <1>1 DEF Store, StoreManifest, StoreFails, LocalStoreFails, R2StoreFails,
               S3StoreFails
    <2>3. \A n \in Manifests : Has(stored, n) => Has(stored', n)
        BY <2>1, <2>2, WritesKeep
    <2>4. CASE StoreManifest(input[r].manifest)
        <3>1. Has(stored', input[r].manifest)
            BY <2>1, <2>4 DEF StoreManifest, Whole, Has, TypeOK, StorageType
        <3> QED
            BY <2>3, <3>1
    <2>5. CASE StrictStorage /\ StorageRequired /\ AbortWith(r, "UPLOAD_FAIL")
        <3>1. answer' = [answer EXCEPT ![r] = [kind |-> "error", response |-> NoResponse]]
            BY <2>5 DEF AbortWith, Abort, Reply
        <3>2. answer'[r].kind = "error"
            BY <3>1 DEF TypeOK
        <3> QED
            BY <2>3, <3>2
    <2>6. CASE ~(StrictStorage /\ StorageRequired)
        BY <2>3, <2>6
    <2> QED
        BY <1>1, <2>4, <2>5, <2>6 DEF Store
<1>2. CASE \/ Lookup(r) \/ AutoRegister(r) \/ Verify(r) \/ BuildClaim(r) \/ CheckSignature(r)
           \/ EstimateGas(r) \/ Send(r) \/ WaitForTx(r) \/ ReturnTypedData(r)
           \/ \E in \in Inputs : Receive(r, in)
    <2>1. UNCHANGED stored /\ pc[r] # "store"
        BY <1>2 DEF Lookup, AutoRegister, Verify, BuildClaim, CheckSignature, EstimateGas, Send,
               WaitForTx, ReturnTypedData, Receive
    <2> QED
        BY <2>1
<1> QED
    BY <1>1, <1>2 DEF HandlerStep

LEMMA MoveStored ==
    ASSUME Safe, Safe', StoredInv, NEW r \in Requests, Move(r),
           \A n \in Manifests : Has(stored, n) => Has(stored', n),
           pc[r] = "store" => Has(stored', input[r].manifest) \/ answer'[r].kind = "error"
    PROVE  StoredInv'
<1> USE DEF Safe
<1>1. /\ answer \in [Requests -> [kind : {"none", "ok", "cached", "processing", "error"},
                                  response : ResponseType]]
      /\ pc \in [Requests -> Places]
      /\ input \in [Requests -> Inputs \cup {NoInput}]
    BY DEF TypeOK, Places
<1>2. pc[r] # "done" /\ answer[r] = NoAnswer
    BY DEF Move, Waits, Rejected, Asks, GoesOn, Fails, Succeeds, Running, HandlerSteps, TypeOK
<1>3. ASSUME NEW hash \in Requests \cup {NoTx}, Succeeds(r, hash)
      PROVE  /\ IsStored(Response(r, hash, FALSE), stored')
             /\ Response(r, hash, FALSE).manifest = input[r].manifest
             /\ Response(r, hash, FALSE).dryRun = input[r].dryRun
    <2>1. Running(r) /\ pc[r] # "new" /\ input[r].manifest \in Manifests
        BY <1>3, RunningInput, InputsType DEF Succeeds, Running, HandlerSteps
    <2>2. answer'[r].kind = "ok"
        BY <1>1, <1>3 DEF Succeeds, Reply
    <2>3. Response(r, hash, FALSE) \in FullResponse
        BY <2>1, ResponseShape
    <2>4. input[r].dryRun \/ Has(stored', input[r].manifest)
        BY <2>1, <2>2 DEF StoredInv
    <2>5. /\ Response(r, hash, FALSE).manifest = input[r].manifest
          /\ Response(r, hash, FALSE).dryRun = input[r].dryRun
        BY DEF Response
    <2> QED
        BY <2>3, <2>4, <2>5 DEF IsStored
<1>4. PICK Good : Good = {p \in FullResponse : IsStored(p, stored')}
    OBVIOUS
<1>5. \A p : p \in Good <=> IsStored(p, stored')
    BY <1>4 DEF IsStored
<1>6. /\ \A q \in Requests :
            answer[q].kind \in {"ok", "cached"} => answer[q].response \in Good
      /\ \A k \in Keys : Tells(keys[k]) => keys[k].response \in Good
    BY <1>5, StoredStays DEF StoredInv
<1>7. /\ \A q \in Requests :
            answer'[q].kind \in {"ok", "cached"} => answer'[q].response \in Good
      /\ \A k \in Keys : Tells(keys'[k]) => keys'[k].response \in Good
    BY <1>3, <1>5, <1>6, MoveTells
<1>8. ASSUME NEW q \in Requests, q # r
      PROVE  pc'[q] = pc[q] /\ input'[q] = input[q] /\ answer'[q] = answer[q]
    BY <1>1, <1>8 DEF Move, Waits, Rejected, Asks, ClaimKey, GoesOn, Fails, Abort, Succeeds, Goto, Reply
<1>9. ASSUME NEW q \in Requests, answer'[q].kind = "ok"
      PROVE  /\ answer'[q].response.manifest = input'[q].manifest
             /\ answer'[q].response.dryRun = input'[q].dryRun
    <2>1. CASE q # r
        BY <1>8, <1>9, <2>1 DEF StoredInv
    <2>2. CASE q = r
        <3>1. \E hash \in Requests \cup {NoTx} : Succeeds(r, hash)
            BY <1>1, <1>2, <1>9, <2>2 DEF Move, Waits, Rejected, Asks, ClaimKey, GoesOn, Fails, Abort,
                   Goto, Reply, NoAnswer
        <3>2. PICK hash \in Requests \cup {NoTx} : Succeeds(r, hash)
            BY <3>1
        <3>3. answer'[r].response = Response(r, hash, FALSE) /\ input' = input
            BY <1>1, <3>2 DEF Succeeds, Reply
        <3> QED
            BY <1>3, <2>2, <3>2, <3>3
    <2> QED
        BY <2>1, <2>2
<1>10. ASSUME NEW q \in Requests, (Running(q) /\ pc[q] # "store" /\ ~input[q].dryRun)'
       PROVE  Has(stored', input'[q].manifest)
    <2>1. CASE q # r
        <3>1. Running(q) /\ pc[q] # "store" /\ ~input[q].dryRun
            BY <1>8, <1>10, <2>1 DEF Running
        <3>2. input[q].manifest \in Manifests
            BY <3>1, RunningInput, InputsType DEF Running, HandlerSteps
        <3> QED
            BY <1>8, <2>1, <3>1, <3>2 DEF StoredInv
    <2>2. CASE q = r
        <3>1. \E step \in HandlerSteps : GoesOn(r, step)
            BY <1>1, <1>10, <2>2 DEF Move, Waits, Rejected, Asks, ClaimKey, Fails, Abort, Succeeds,
                   Goto, Reply, Running, HandlerSteps
        <3>2. Running(r) /\ UNCHANGED <<input, answer>>
            BY <3>1 DEF GoesOn, Goto
        <3>3. input[r].manifest \in Manifests
            BY <3>2, RunningInput, InputsType DEF Running, HandlerSteps
        <3>4. answer'[r].kind # "error"
            BY <1>2, <3>2 DEF NoAnswer
        <3> QED
            BY <1>10, <2>2, <3>2, <3>3, <3>4 DEF StoredInv
    <2> QED
        BY <2>1, <2>2
<1> QED
    BY <1>5, <1>7, <1>9, <1>10 DEF StoredInv

LEMMA OthersStored ==
    ASSUME Safe, StoredInv, Crash \/ Cleanup \/ OnChain \/ Tick \/ UNCHANGED vars
    PROVE  StoredInv'
<1> USE DEF Safe
<1>1. UNCHANGED <<input, answer>>
    BY DEF Crash, Cleanup, OnChain, Tick, vars, requestVars
<1>2. \A r \in Requests : Running(r) => input[r].manifest \in Manifests
    BY RunningInput, InputsType DEF Running, HandlerSteps
<1>3. \A n \in Manifests : Has(stored, n) => Has(stored', n)
    <2>1. CASE UNCHANGED stored
        BY <2>1
    <2>2. ASSUME NEW r \in Requests, pc[r] = "store", stored' = Cut(input[r].manifest)
          PROVE  \A n \in Manifests : Has(stored, n) => Has(stored', n)
        BY <1>2, <2>2, WritesKeep DEF Running, HandlerSteps
    <2> QED
        BY <2>1, <2>2 DEF Crash, Cleanup, OnChain, Tick, vars
<1>4. \A r \in Requests : (Running(r))' => Running(r) /\ pc'[r] = pc[r]
    BY DEF Crash, Cleanup, OnChain, Tick, vars, requestVars, Running, HandlerSteps
<1>5. \A k \in Keys : Tells(keys'[k]) => keys'[k] = keys[k]
    <2>1. CASE Cleanup
        BY <2>1, CleanedTyped DEF Cleanup, Tells, IsCompleted, NoRecord
    <2>2. CASE UNCHANGED keys
        BY <2>2
    <2> QED
        BY <2>1, <2>2 DEF Crash, OnChain, Tick, vars
<1> QED
    BY <1>1, <1>2, <1>3, <1>4, <1>5, StoredFrame

LEMMA InitStored == Init => StoredInv
BY DEF Init, KeysInit, NoRecord, NoAnswer, StoredInv, Tells, IsCompleted, Running, HandlerSteps

LEMMA NextStored ==
    ASSUME StrictStorage, StorageRequired
    PROVE  Safe /\ Safe' /\ StoredInv /\ [Next]_vars => StoredInv'
<1> SUFFICES ASSUME Safe, Safe', StoredInv, [Next]_vars
             PROVE  StoredInv'
    OBVIOUS
<1>1. CASE \/ \E r \in Requests, in \in Inputs : Receive(r, in)
           \/ \E r \in Requests : HandlerStep(r)
    BY <1>1, RequestMoves, StepStores, MoveStored DEF Safe
<1> QED
    BY <1>1, OthersStored DEF Next

\* A batch is verified as a whole when it is not too large and each of its manifests can
\* be retrieved.
LEMMA BatchVerifies ==
    ASSUME NEW batch, IsFiniteSet(batch), Cardinality(batch) <= MaxBatch,
           \A m \in batch : stored[m] = "whole"
    PROVE  VerifyBatch(batch).allVerified
<1>1. \A m \in batch : VerifyManifest(m).verified
    BY DEF VerifyManifest, Retrievable, LocalRetrieves, R2Retrieves, S3Retrieves
<1>2. ~(Cardinality(batch) > MaxBatch)
    BY FS_CardinalityType DEF MaxBatch
<1> QED
    BY <1>1, <1>2 DEF VerifyBatch

LEMMA StoredAccepted ==
    ASSUME Safe, StoredInv
    PROVE  AcceptedIsStored
<1>1. ASSUME NEW p \in Responses, ~p.dryRun, ~Ruined(p)
      PROVE  stored[p.manifest] = "whole"
    <2>1. IsStored(p, stored)
        BY DEF Responses, StatusResponse, StoredInv, Tells
    <2> QED
        BY <1>1, <2>1 DEF IsStored, Has, Ruined
<1>2. ASSUME NEW batch \in SUBSET {p.manifest : p \in {q \in Responses : ~q.dryRun /\ ~Ruined(q)}}
      PROVE  /\ \A m \in batch : GetManifest(m).found
             /\ IsFiniteSet(batch) /\ Cardinality(batch) <= MaxBatch =>
                    VerifyBatch(batch).allVerified
    <2>1. \A m \in batch : stored[m] = "whole"
        BY <1>1
    <2>2. \A m \in batch : GetManifest(m).found
        BY <2>1 DEF GetManifest, Retrievable, LocalRetrieves, R2Retrieves, S3Retrieves
    <2> QED
        BY <2>1, <2>2, BatchVerifies
<1>3. ASSUME NEW r \in Requests, answer[r].kind = "ok", ~Ruined(answer[r].response)
      PROVE  ConformancePasses(input[r].manifest, input[r].dryRun, answer[r].response)
    <2>1. PICK p : p = answer[r].response
        OBVIOUS
    <2>2. /\ p.manifest = input[r].manifest
          /\ p.dryRun = input[r].dryRun
          /\ IsStored(p, stored)
          /\ ~Ruined(p)
        BY <1>3, <2>1 DEF StoredInv
    <2>3. p.dryRun \/ stored[p.manifest] = "whole"
        BY <2>2 DEF IsStored, Has, Ruined
    <2>4. /\ VerifyManifest(p.manifest).found \/ input[r].dryRun
          /\ VerifyManifest(p.manifest).found => VerifyManifest(p.manifest).verified
        BY <2>2, <2>3 DEF VerifyManifest, Retrievable, LocalRetrieves, R2Retrieves, S3Retrieves
    <2> QED
        BY <2>1, <2>2, <2>4 DEF ConformancePasses
<1> QED
    <2>1. ASSUME NEW realRun \in BOOLEAN,
                 NEW r \in {q \in Requests : /\ answer[q].kind = "ok"
                                            /\ ~Ruined(answer[q].response)
                                            /\ input[q].dryRun = ~realRun}
          PROVE  ConformancePasses(input[r].manifest, ~realRun, answer[r].response)
        BY <1>3, <2>1
    <2> QED
        BY <1>2, <2>1 DEF AcceptedIsStored, ConformanceSuite

\* With a strict and required storage, every accepted manifest was stored as a whole, and
\* whatever was carried out passes the conformance test, however many requests, failed
\* writes and crashes there were.
THEOREM AcceptedStored == Spec => []AcceptedIsStored
<1>1. CASE StrictStorage /\ StorageRequired
    <2>1. Safe /\ Safe' /\ StoredInv /\ [Next]_vars => StoredInv'
        BY <1>1, NextStored
    <2>2. Spec => []StoredInv
        BY <2>1, InitStored, SafeAlways, PTL DEF Spec
    <2>3. Safe /\ StoredInv => AcceptedIsStored
        BY StoredAccepted
    <2> QED
        BY <2>2, <2>3, SafeAlways, PTL
<1>2. CASE ~(StrictStorage /\ StorageRequired)
    <2>1. AcceptedIsStored
        BY <1>2 DEF AcceptedIsStored
    <2> QED
        BY <2>1, PTL
<1> QED
    BY <1>1, <1>2

-------------------------------------------------------------------------------
(* The queue has the failures *)

\* Only a request that has typed data to get is where typed data is returned.
TypedWhenAsked == \A r \in Requests : pc[r] = "typed" => input[r].path = "typed"

\* A completion's row is not touched by the API once it is there.
RowsOpen == \A r \in Requests : rows[r].resolution = Unresolved

QueueInv == TypedWhenAsked /\ FailuresQueued /\ RowsOpen

\* A request is queued and answered with an error, or fails without a row when its typed
\* data cannot be saved or the code throws on its body, or has not failed.
IsQueued(r) ==
    /\ \E type \in EventTypes : rows' = Enqueued(r, type)
    /\ Reply(r, "error", NoResponse)

IsUnsaved(r) ==
    /\ pc[r] = "typed"
    /\ UNCHANGED <<rows, input>>
    /\ Reply(r, "error", NoResponse)

IsThrownOn(r) ==
    /\ UNCHANGED rows
    /\ Reply(r, "error", NoResponse)
    /\ Throws(input'[r])

HasNotFailed(r) ==
    /\ UNCHANGED rows
    /\ \/ pc' = [pc EXCEPT ![r] = "typed"] /\ UNCHANGED answer /\ input'[r].path = "typed"
       \/ \E step : step # "typed" /\ pc' = [pc EXCEPT ![r] = step] /\ UNCHANGED answer
       \/ \E kind, p : kind # "error" /\ Reply(r, kind, p)

Outcome(r) == IsQueued(r) \/ IsUnsaved(r) \/ IsThrownOn(r) \/ HasNotFailed(r)

LEMMA RejectOutcome ==
    ASSUME NEW r \in Requests, Reject(r) PROVE Outcome(r)
BY DEF Reject, Outcome, IsQueued, EventTypes

LEMMA AbortOutcome ==
    ASSUME NEW r \in Requests, NEW type \in EventTypes, AbortWith(r, type) PROVE Outcome(r)
BY DEF AbortWith, Abort, Outcome, IsQueued

LEMMA DryRunPath ==
    ASSUME NEW in \in Inputs, in.dryRun
    PROVE  in.path = "typed"
BY SubmissionAssumption DEF InputType

LEMMA GuardOutcome ==
    ASSUME TypeOK, NEW r \in Requests, NEW in \in Inputs, Guard(r, in), UNCHANGED rows,
           input'[r] = in
    PROVE  Outcome(r)
<1>1. CASE \E kind, p : kind \in {"cached", "processing"} /\ Reply(r, kind, p)
    BY <1>1 DEF Outcome, HasNotFailed
<1>2. CASE Goto(r, IF in.dryRun THEN "typed" ELSE "store")
    <2>1. CASE in.dryRun
        BY <1>2, <2>1, DryRunPath DEF Goto, Outcome, HasNotFailed
    <2>2. CASE ~in.dryRun
        BY <1>2, <2>2 DEF Goto, Outcome, HasNotFailed
    <2> QED
        BY <2>1, <2>2
<1>3. CASE in.body = "misshapen" /\ Reply(r, "error", NoResponse)
    BY <1>3 DEF Outcome, IsThrownOn, Throws
<1> QED
    BY <1>1, <1>2, <1>3 DEF Guard, ClaimKey

LEMMA AcceptOutcome ==
    ASSUME TypeOK, NEW r \in Requests, Running(r), UNCHANGED input,
           NEW hash \in Requests \cup {NoTx}, NEW typed \in BOOLEAN,
           Accept(r, Response(r, hash, typed)), typed => pc[r] = "typed"
    PROVE  Outcome(r)
<1>1. Savable(Response(r, hash, typed)) <=> ~typed
    BY DEF Savable, Response
<1>2. CASE typed
    BY <1>1, <1>2 DEF Accept, Abort, Outcome, IsUnsaved
<1>3. CASE ~typed
    BY <1>1, <1>3 DEF Accept, Outcome, HasNotFailed
<1> QED
    BY <1>2, <1>3

LEMMA ProceedOutcome ==
    ASSUME TypeOK, NEW r \in Requests, Running(r), UNCHANGED input, Proceed(r)
    PROVE  Outcome(r)
<1>1. CASE input[r].path = "typed" /\ Goto(r, "typed") /\ UNCHANGED rows
    BY <1>1 DEF Goto, Outcome, HasNotFailed
<1>2. CASE Goto(r, "claim") /\ UNCHANGED rows
    BY <1>2 DEF Goto, Outcome, HasNotFailed
<1>3. CASE AbortWith(r, "VALIDATION_FAIL")
    BY <1>3, AbortOutcome DEF EventTypes
<1>4. CASE Accept(r, Response(r, NoTx, FALSE))
    BY <1>4, AcceptOutcome
<1> QED
    BY <1>1, <1>2, <1>3, <1>4 DEF Proceed, AcceptCustodial

LEMMA StepOutcome ==
    ASSUME TypeOK, NEW r \in Requests,
           HandlerStep(r) \/ \E in \in Inputs : Receive(r, in)
    PROVE  Outcome(r)
<1>1. ASSUME NEW in \in Inputs, Receive(r, in)
      PROVE  Outcome(r)
    <2>1. input'[r] = in
        BY <1>1 DEF Receive, TypeOK
    <2>2. CASE Reject(r)
        BY <2>2, RejectOutcome
    <2>3. CASE Guard(r, in) /\ UNCHANGED rows
        BY <2>1, <2>3, GuardOutcome
    <2>4. CASE Goto(r, "lookup") /\ UNCHANGED rows
        BY <2>4 DEF Goto, Outcome, HasNotFailed
    <2> QED
        BY <1>1, <2>2, <2>3, <2>4 DEF Receive
<1>2. ASSUME Lookup(r) \/ AutoRegister(r)
      PROVE  Outcome(r)
    <2>1. input' = input /\ pc[r] # "new"
        BY <1>2 DEF Lookup, AutoRegister
    <2>2. input[r] \in Inputs
        BY <2>1, RunningInput
    <2>3. CASE Reject(r)
        BY <2>3, RejectOutcome
    <2>4. CASE Guard(r, input[r]) /\ UNCHANGED rows
        BY <2>1, <2>2, <2>4, GuardOutcome
    <2>5. CASE Goto(r, "register") /\ UNCHANGED rows
        BY <2>5 DEF Goto, Outcome, HasNotFailed
    <2> QED
        BY <1>2, <2>3, <2>4, <2>5 DEF Lookup, AutoRegister
<1>3. ASSUME NEW step \in {"verify", "check", "estimate", "send", "wait"}, Goto(r, step),
             UNCHANGED rows
      PROVE  Outcome(r)
    BY <1>3 DEF Goto, Outcome, HasNotFailed
<1>4. ASSUME Store(r) \/ Verify(r)
      PROVE  Outcome(r)
    <2>1. UNCHANGED input /\ Running(r)
        BY <1>4 DEF Store, Verify, HandlerRest, Running, HandlerSteps
    <2>2. CASE Proceed(r)
        BY <2>1, <2>2, ProceedOutcome
    <2>3. CASE Goto(r, "verify") /\ UNCHANGED rows
        BY <1>3, <2>3
    <2>4. CASE AbortWith(r, "UPLOAD_FAIL") \/ AbortWith(r, "HASH_MISMATCH")
        BY <2>4, AbortOutcome DEF EventTypes
    <2> QED
        BY <1>4, <2>2, <2>3, <2>4 DEF Store, Verify, AfterStore
<1>7. ASSUME Abort(r), UNCHANGED <<rows, input>>,
             NoNumber(r) \/ input[r].controller = "malformed"
      PROVE  Outcome(r)
    BY <1>7 DEF Abort, NoNumber, Throws, Outcome, IsThrownOn
<1>5. ASSUME BuildClaim(r) \/ CheckSignature(r) \/ EstimateGas(r) \/ Send(r)
      PROVE  Outcome(r)
    <2>1. CASE \E step \in {"check", "estimate", "send", "wait"} : Goto(r, step) /\ UNCHANGED rows
        BY <1>3, <2>1
    <2>2. CASE AbortWith(r, "VALIDATION_FAIL") \/ AbortWith(r, "TX_FAIL")
        BY <2>2, AbortOutcome DEF EventTypes
    <2>3. CASE /\ Abort(r) /\ UNCHANGED <<rows, input>>
               /\ NoNumber(r) \/ input[r].controller = "malformed"
        BY <1>7, <2>3
    <2> QED
        BY <1>5, <2>1, <2>2, <2>3 DEF HandlerRest, BuildClaim, CheckSignature, EstimateGas, Send
<1>6. ASSUME WaitForTx(r) \/ ReturnTypedData(r)
      PROVE  Outcome(r)
    <2>4. CASE Abort(r) /\ UNCHANGED rows /\ NoNumber(r)
        BY <1>6, <1>7, <2>4 DEF WaitForTx, ReturnTypedData, HandlerRest
    <2>1. UNCHANGED input /\ Running(r)
        BY <1>6 DEF WaitForTx, ReturnTypedData, HandlerRest, Running, HandlerSteps
    <2>2. CASE \/ Accept(r, Response(r, r, FALSE))
               \/ Accept(r, Response(r, NoTx, FALSE))
               \/ pc[r] = "typed" /\ Accept(r, Response(r, NoTx, TRUE))
        BY <2>1, <2>2, AcceptOutcome
    <2>3. CASE AbortWith(r, "TX_FAIL")
        BY <2>3, AbortOutcome DEF EventTypes
    <2> QED
        BY <1>6, <2>2, <2>3, <2>4 DEF WaitForTx, Relayed, ReturnTypedData
<1> QED
    BY <1>1, <1>2, <1>4, <1>5, <1>6 DEF HandlerStep

LEMMA MoveQueue ==
    ASSUME TypeOK, QueueInv, NEW r \in Requests, Move(r), Outcome(r)
    PROVE  QueueInv'
<1>1. /\ answer \in [Requests -> [kind : {"none", "ok", "cached", "processing", "error"},
                                  response : ResponseType]]
      /\ pc \in [Requests -> Places]
      /\ rows \in [Requests -> RowType]
    BY DEF TypeOK, Places
<1>2. pc[r] # "done" /\ answer[r] = NoAnswer /\ ~IsRow(rows[r])
    <2>1. pc[r] # "done"
        BY DEF Move, Waits, Rejected, Asks, GoesOn, Fails, Succeeds, Running, HandlerSteps
    <2> QED
        BY <2>1 DEF TypeOK, QueueInv, FailuresQueued, NoAnswer
<1>3. ASSUME NEW q \in Requests, q # r
      PROVE  pc'[q] = pc[q] /\ input'[q] = input[q] /\ answer'[q] = answer[q]
    BY <1>1, <1>3 DEF TypeOK, Move, Waits, Rejected, Asks, ClaimKey, GoesOn, Fails, Abort, Succeeds,
           Goto, Reply
<1>4. ASSUME NEW q \in Requests, q # r
      PROVE  rows'[q] = rows[q]
    BY <1>1, <1>4 DEF Outcome, IsQueued, IsUnsaved, IsThrownOn, HasNotFailed, Enqueued
<1>5. /\ pc'[r] = "typed" => input'[r].path = "typed"
      /\ IsRow(rows'[r]) => answer'[r].kind = "error"
      /\ answer'[r].kind = "error" =>
            IsRow(rows'[r]) \/ input'[r].path = "typed" \/ Throws(input'[r])
    <2>1. CASE IsQueued(r)
        <3>1. pc'[r] = "done" /\ answer'[r].kind = "error"
            BY <1>1, <2>1 DEF IsQueued, Reply
        <3>2. PICK type \in EventTypes : rows' = Enqueued(r, type)
            BY <2>1 DEF IsQueued
        <3>3. rows'[r].type = type
            BY <1>1, <3>2 DEF Enqueued, NoRow
        <3> QED
            BY <3>1, <3>3 DEF IsRow
    <2>2. CASE IsUnsaved(r)
        <3>1. pc'[r] = "done" /\ answer'[r].kind = "error" /\ UNCHANGED <<rows, input>>
            BY <1>1, <2>2 DEF IsUnsaved, Reply
        <3>2. input'[r].path = "typed"
            BY <2>2, <3>1 DEF IsUnsaved, QueueInv, TypedWhenAsked
        <3> QED
            BY <3>1, <3>2
    <2>3. CASE HasNotFailed(r)
        <3>1. ~IsRow(rows'[r])
            BY <1>2, <2>3 DEF HasNotFailed
        <3>2. answer'[r].kind # "error"
            BY <1>1, <1>2, <2>3 DEF HasNotFailed, Reply, NoAnswer
        <3>3. pc'[r] = "typed" => input'[r].path = "typed"
            BY <1>1, <2>3 DEF HasNotFailed, Reply
        <3> QED
            BY <3>1, <3>2, <3>3
    <2>4. CASE IsThrownOn(r)
        <3>1. pc'[r] = "done" /\ answer'[r].kind = "error" /\ Throws(input'[r])
            BY <1>1, <2>4 DEF IsThrownOn, Reply
        <3> QED
            BY <1>2, <2>4, <3>1 DEF IsThrownOn
    <2> QED
        BY <2>1, <2>2, <2>3, <2>4 DEF Outcome
<1>6. TypedWhenAsked'
    BY <1>3, <1>5 DEF QueueInv, TypedWhenAsked
<1>7. FailuresQueued'
    BY <1>3, <1>4, <1>5 DEF QueueInv, FailuresQueued
<1>8. RowsOpen'
    <2>1. rows'[r].resolution = Unresolved
        BY <1>1 DEF Outcome, IsQueued, IsUnsaved, IsThrownOn, HasNotFailed, Enqueued, NoRow, QueueInv, RowsOpen
    <2> QED
        BY <1>4, <2>1 DEF QueueInv, RowsOpen
<1> QED
    BY <1>6, <1>7, <1>8 DEF QueueInv

LEMMA NextQueue == Safe /\ QueueInv /\ [Next]_vars => QueueInv'
<1> SUFFICES ASSUME Safe, QueueInv, [Next]_vars
             PROVE  QueueInv'
    OBVIOUS
<1>1. CASE \/ \E r \in Requests, in \in Inputs : Receive(r, in)
           \/ \E r \in Requests : HandlerStep(r)
    BY <1>1, RequestMoves, StepOutcome, MoveQueue DEF Safe
<1>2. CASE Crash \/ Cleanup \/ OnChain \/ Tick \/ UNCHANGED vars
    <2>1. UNCHANGED <<rows, input, answer>>
        BY <1>2 DEF Crash, Cleanup, OnChain, Tick, vars, requestVars
    <2>2. \A r \in Requests : pc'[r] = "typed" => pc[r] = "typed"
        BY <1>2 DEF Crash, Cleanup, OnChain, Tick, vars, requestVars
    <2>3. TypedWhenAsked'
        BY <2>1, <2>2 DEF QueueInv, TypedWhenAsked
    <2>4. FailuresQueued'
        BY <2>1 DEF QueueInv, FailuresQueued
    <2>5. RowsOpen'
        BY <2>1 DEF QueueInv, RowsOpen
    <2> QED
        BY <2>3, <2>4, <2>5 DEF QueueInv
<1> QED
    BY <1>1, <1>2 DEF Next

LEMMA InitQueue == Init => QueueInv
BY DEF Init, QueueInit, QueueInv, TypedWhenAsked, FailuresQueued, RowsOpen, IsRow, NoRow,
       NoAnswer, EventTypes

\* What getDLQStats and getIdempotencyStats count, between the sets of requests that it
\* stands for.
LEMMA MetricsTell ==
    ASSUME Safe, QueueInv
    PROVE  MetricsMatch(MetricsPage)
<1> DEFINE failed == {r \in Requests : answer[r].kind = "error"}
           relays == failed \cap Relays
           open == {r \in Requests : IsOpen(rows[r])}
           handlers == {r \in Requests : Running(r) /\ input[r].key \notin overtaken}
           pending == {k \in Keys : keys[k].status = "PENDING"}
<1>1. IsFiniteSet(failed) /\ IsFiniteSet(open) /\ IsFiniteSet(pending)
    BY SubmissionAssumption, FS_Subset
<1>2. relays \subseteq open
    BY DEF Relays, QueueInv, FailuresQueued, RowsOpen, IsOpen
<1>3. open \subseteq failed
    BY DEF QueueInv, FailuresQueued, IsOpen
<1>4. [r \in handlers |-> input[r].key] \in Injection(handlers, pending)
    <2>1. ASSUME NEW r \in handlers
          PROVE  input[r].key \in pending
        BY RunningKey DEF Safe, HandlersHoldKeys, Running, HandlerSteps
    <2>2. ASSUME NEW r \in handlers, NEW s \in handlers, input[r].key = input[s].key
          PROVE  r = s
        BY <2>2 DEF Safe, OneHandlerPerKey
    <2> QED
        BY <2>1, <2>2, Zenon DEF Injection, IsInjective
<1>5. Cardinality(relays) <= Cardinality(open) /\ Cardinality(open) <= Cardinality(failed)
    BY <1>1, <1>2, <1>3, FS_Subset
<1>6. Cardinality(handlers) <= Cardinality(pending)
    BY <1>1, <1>4, FS_Injection
<1> QED
    BY <1>5, <1>6 DEF MetricsMatch, MetricsPage, DLQStats, IdempotencyStats

\* The queue has the failed requests and no other, and each of them but those whose typed data
\* could not be saved and those on whose body the code threw; and the metrics count them so,
\* and the keys of the handlers.
THEOREM QueueCorrect == Spec => []QueueHasFailures
<1>1. Safe /\ QueueInv => QueueHasFailures
    BY MetricsTell DEF QueueInv, QueueHasFailures
<1>2. Spec => []QueueInv
    BY InitQueue, NextQueue, SafeAlways, PTL DEF Spec
<1> QED
    BY <1>1, <1>2, SafeAlways, PTL

-------------------------------------------------------------------------------
(* No response comes from nowhere *)

Submitting == {"claim", "check", "estimate", "send", "wait"}

\* What is on its way to the chain was signed.
SignedSubmit == \A r \in Requests : pc[r] \in Submitting => WantsTx(input[r])

\* By the answers a to the requests i, a handler of the key k gave the response p.
Gave(a, i, k, p) ==
    \E q \in Requests : /\ a[q] = [kind |-> "ok", response |-> p]
                        /\ i[q].key = k

RecordsGiven == \A k \in Keys : Tells(keys[k]) => Gave(answer, input, k, keys[k].response)

AnswersGiven ==
    \A r \in Requests : answer[r].kind = "cached" => Gave(answer, input, input[r].key, answer[r].response)

AnswersOwn ==
    \A r \in Requests :
        answer[r].kind = "ok" =>
            answer[r].response.txHash = IF WantsTx(input[r]) THEN r ELSE NoTx

OriginInv == SignedSubmit /\ RecordsGiven /\ AnswersGiven /\ AnswersOwn

\* What a step makes of a request.
Answered(r) ==
    /\ pc'[r] \in Submitting => WantsTx(input'[r])
    /\ answer'[r].kind = "ok" =>
            answer'[r].response.txHash = IF WantsTx(input'[r]) THEN r ELSE NoTx

LEMMA PlaceAnswered ==
    ASSUME TypeOK, NEW r \in Requests, NEW step, step \notin Submitting, pc[r] # "done",
           Goto(r, step)
    PROVE  Answered(r)
BY DEF TypeOK, Goto, Answered, NoAnswer

LEMMA ReplyAnswered ==
    ASSUME TypeOK, NEW r \in Requests, NEW kind, kind # "ok", NEW p, Reply(r, kind, p)
    PROVE  Answered(r)
BY DEF TypeOK, Reply, Answered, Submitting

LEMMA GuardAnswered ==
    ASSUME TypeOK, NEW r \in Requests, NEW in, pc[r] # "done", Guard(r, in)
    PROVE  Answered(r)
BY PlaceAnswered, ReplyAnswered DEF Guard, ClaimKey, Submitting

LEMMA AcceptAnswered ==
    ASSUME TypeOK, NEW r \in Requests, NEW hash, NEW typed \in BOOLEAN, UNCHANGED input,
           Accept(r, Response(r, hash, typed)),
           hash = IF WantsTx(input[r]) THEN r ELSE NoTx
    PROVE  Answered(r)
<1>1. CASE Reply(r, "ok", Response(r, hash, typed))
    BY <1>1 DEF TypeOK, Reply, Answered, Response, Submitting
<1>2. CASE Abort(r)
    BY <1>2, ReplyAnswered DEF Abort
<1> QED
    BY <1>1, <1>2 DEF Accept

LEMMA ProceedAnswered ==
    ASSUME TypeOK, NEW r \in Requests, pc[r] # "done", UNCHANGED input, Proceed(r)
    PROVE  Answered(r)
<1>1. CASE Goto(r, "typed")
    BY <1>1, PlaceAnswered DEF Submitting
<1>2. CASE input[r].path = "relay" /\ input[r].sig # "none" /\ Goto(r, "claim")
    BY <1>2 DEF TypeOK, Goto, Answered, NoAnswer, WantsTx
<1>3. CASE AbortWith(r, "VALIDATION_FAIL")
    BY <1>3, ReplyAnswered DEF AbortWith, Abort
<1>4. CASE input[r].sig = "none" /\ Accept(r, Response(r, NoTx, FALSE))
    BY <1>4, AcceptAnswered DEF WantsTx
<1> QED
    BY <1>1, <1>2, <1>3, <1>4 DEF Proceed, AcceptCustodial

LEMMA StepAnswered ==
    ASSUME TypeOK, TypedWhenAsked, SignedSubmit, NEW r \in Requests,
           HandlerStep(r) \/ \E in \in Inputs : Receive(r, in)
    PROVE  Answered(r)
<1>1. ASSUME NEW in \in Inputs, Receive(r, in)
      PROVE  Answered(r)
    <2>1. pc[r] # "done"
        BY <1>1 DEF Receive
    <2> QED
        BY <1>1, <2>1, PlaceAnswered, ReplyAnswered, GuardAnswered DEF Receive, Reject, Submitting
<1>2. ASSUME Lookup(r) \/ AutoRegister(r)
      PROVE  Answered(r)
    <2>1. pc[r] # "done"
        BY <1>2 DEF Lookup, AutoRegister
    <2> QED
        BY <1>2, <2>1, PlaceAnswered, ReplyAnswered, GuardAnswered
           DEF Lookup, AutoRegister, Reject, Submitting
<1>3. ASSUME NEW type, AbortWith(r, type)
      PROVE  Answered(r)
    BY <1>3, ReplyAnswered DEF AbortWith, Abort
<1>8. ASSUME Abort(r)
      PROVE  Answered(r)
    BY <1>8, ReplyAnswered DEF Abort
<1>4. ASSUME Store(r) \/ Verify(r)
      PROVE  Answered(r)
    <2>1. UNCHANGED input /\ pc[r] # "done"
        BY <1>4 DEF Store, Verify, HandlerRest
    <2>2. CASE Proceed(r)
        BY <2>1, <2>2, ProceedAnswered
    <2>3. CASE Goto(r, "verify")
        BY <2>1, <2>3, PlaceAnswered DEF Submitting
    <2> QED
        BY <1>3, <1>4, <2>2, <2>3 DEF Store, Verify, AfterStore
<1>5. ASSUME BuildClaim(r) \/ CheckSignature(r) \/ EstimateGas(r) \/ Send(r)
      PROVE  Answered(r)
    <2>1. WantsTx(input[r]) /\ UNCHANGED input /\ pc[r] # "done"
        BY <1>5 DEF SignedSubmit, Submitting, BuildClaim, CheckSignature, EstimateGas, Send,
            HandlerRest
    <2>2. ASSUME NEW step, Goto(r, step)
          PROVE  Answered(r)
        BY <2>1, <2>2 DEF TypeOK, Goto, Answered, NoAnswer
    <2> QED
        BY <1>3, <1>5, <1>8, <2>2 DEF BuildClaim, CheckSignature, EstimateGas, Send
<1>6. ASSUME WaitForTx(r)
      PROVE  Answered(r)
    <2>1. WantsTx(input[r]) /\ UNCHANGED input
        BY <1>6 DEF SignedSubmit, Submitting, WaitForTx, HandlerRest
    <2> QED
        BY <1>3, <1>6, <2>1, AcceptAnswered DEF WaitForTx, Relayed
<1>7. ASSUME ReturnTypedData(r)
      PROVE  Answered(r)
    <2>1. ~WantsTx(input[r]) /\ UNCHANGED input
        BY <1>7 DEF TypedWhenAsked, ReturnTypedData, HandlerRest, WantsTx
    <2> QED
        BY <1>7, <1>8, <2>1, AcceptAnswered DEF ReturnTypedData
<1> QED
    BY <1>1, <1>2, <1>4, <1>5, <1>6, <1>7 DEF HandlerStep

\* What was given stays given.
LEMMA GivenStays ==
    ASSUME TypeOK, NEW k, NEW p, Gave(answer, input, k, p),
           \A q \in Requests : answer[q].kind = "ok" =>
                answer'[q] = answer[q] /\ input'[q] = input[q]
    PROVE  Gave(answer', input', k, p)
BY DEF Gave

LEMMA MoveOrigin ==
    ASSUME Safe, OriginInv, NEW r \in Requests, Move(r), Answered(r)
    PROVE  OriginInv'
<1> USE DEF Safe
<1> DEFINE G(k, p) == Gave(answer', input', k, p)
           C == answer'[r].kind = "cached" => G(input'[r].key, answer'[r].response)
           R(k) == Tells(keys'[k]) => G(k, keys'[k].response)
<1>1. answer \in [Requests -> [kind : {"none", "ok", "cached", "processing", "error"},
                               response : ResponseType]]
    BY DEF TypeOK
<1>2. pc[r] # "done" /\ answer[r] = NoAnswer
    <2>1. pc[r] # "done"
        BY DEF Move, Waits, Rejected, Asks, GoesOn, Fails, Succeeds, Running, HandlerSteps
    <2> QED
        BY <2>1 DEF TypeOK
<1>3. ASSUME NEW q \in Requests, q # r
      PROVE  pc'[q] = pc[q] /\ input'[q] = input[q] /\ answer'[q] = answer[q]
    BY <1>1, <1>3 DEF TypeOK, Move, Waits, Rejected, Asks, ClaimKey, GoesOn, Fails, Abort, Succeeds,
           Goto, Reply
<1>4. SignedSubmit' /\ AnswersOwn'
    BY <1>3 DEF OriginInv, SignedSubmit, AnswersOwn, Answered
<1>5. ASSUME NEW k, NEW p, Gave(answer, input, k, p)
      PROVE  G(k, p)
    <2>1. \A q \in Requests : answer[q].kind = "ok" => answer'[q] = answer[q] /\ input'[q] = input[q]
        BY <1>2, <1>3 DEF NoAnswer
    <2> QED
        BY <1>5, <2>1, GivenStays
<1>6. ASSUME NEW k \in Keys, UNCHANGED keys \/ keys'[k] = keys[k]
      PROVE  R(k)
    BY <1>5, <1>6 DEF OriginInv, RecordsGiven
<1>7. ASSUME UNCHANGED answer
      PROVE  C
    BY <1>2, <1>7 DEF NoAnswer
<1>8. ASSUME NEW kind, kind # "cached", NEW p, Reply(r, kind, p)
      PROVE  C
    BY <1>1, <1>8 DEF Reply
<1>9. ASSUME Running(r)
      PROVE  input[r].key \in Keys /\ pc[r] # "new"
    BY <1>9, RunningKey DEF Running, HandlerSteps
<1>10. ASSUME NEW in \in Inputs, Asks(r, in)
       PROVE  C /\ \A k \in Keys : R(k)
    <2>1. in.key \in Keys /\ in.manifest \in Manifests /\ input'[r] = in
        BY <1>10, InputsType DEF Asks, TypeOK
    <2>2. CASE /\ IsCompleted(keys[in.key])
               /\ Reply(r, "cached", keys[in.key].response)
               /\ UNCHANGED keys
        <3>1. answer'[r].response = keys[in.key].response
            BY <1>1, <2>2 DEF Reply
        <3>2. Gave(answer, input, in.key, keys[in.key].response)
            BY <2>1, <2>2 DEF OriginInv, RecordsGiven, Tells
        <3> QED
            BY <1>5, <1>6, <2>1, <2>2, <3>1, <3>2
    <2>3. CASE Reply(r, "processing", NoResponse) /\ UNCHANGED keys
        BY <1>6, <1>8, <2>3
    <2>4. CASE Reply(r, "processing", NoResponse) /\ keys' = Released(in.key)
        <3>1. \A j \in Keys : j # in.key => keys'[j] = keys[j]
            BY <2>1, <2>4, GuardTyped
        <3>2. R(in.key)
            BY <1>5, <2>1, <2>4, GuardTyped DEF IsCompleted, Tells, OriginInv, RecordsGiven
        <3> QED
            BY <1>6, <1>8, <2>4, <3>1, <3>2
    <2>5. CASE /\ Goto(r, IF in.dryRun THEN "typed" ELSE "store")
               /\ keys' = Inserted(in.key, in.manifest)
        <3>1. C
            BY <1>7, <2>5 DEF Goto
        <3>2. ~Tells(keys'[in.key]) /\ \A j \in Keys : j # in.key => keys'[j] = keys[j]
            BY <2>1, <2>5, GuardTyped DEF IsCompleted, Tells
        <3> QED
            BY <1>6, <2>1, <3>1, <3>2
    <2> QED
        BY <1>10, <2>2, <2>3, <2>4, <2>5 DEF Asks, ClaimKey
<1>11. ASSUME Fails(r)
       PROVE  C /\ \A k \in Keys : R(k)
    <2>1. C
        BY <1>8, <1>11 DEF Fails, Abort
    <2>2. \A j \in Keys : j # input[r].key => keys'[j] = keys[j]
        BY <1>9, <1>11, FailedTyped DEF Fails, Abort
    <2>3. R(input[r].key)
        BY <1>5, <1>9, <1>11, FailedTyped DEF Fails, Abort, IsCompleted, Tells, OriginInv,
            RecordsGiven
    <2>4. \A k \in Keys : R(k)
        <3> TAKE k \in Keys
        <3> QED
            BY <1>6, <2>2, <2>3
    <2> QED
        BY <2>1, <2>4
<1>12. ASSUME NEW hash \in Requests \cup {NoTx}, Succeeds(r, hash)
       PROVE  C /\ \A k \in Keys : R(k)
    <2>1. /\ Running(r)
          /\ keys' = Completed(input[r].key, Response(r, hash, FALSE))
          /\ Reply(r, "ok", Response(r, hash, FALSE))
          /\ UNCHANGED input
        BY <1>12 DEF Succeeds
    <2>2. C
        BY <1>8, <2>1
    <2>3. Response(r, hash, FALSE) \in ResponseType
        BY <1>9, <2>1, ResponseShape DEF ResponseType
    <2>4. PICK p : p = Response(r, hash, FALSE)
        OBVIOUS
    <2>5. /\ \A j \in Keys : j # input[r].key => keys'[j] = keys[j]
          /\ Tells(keys'[input[r].key]) => keys'[input[r].key].response = p
        BY <1>9, <2>1, <2>3, <2>4, CompletedTyped
    <2>6. answer'[r] = [kind |-> "ok", response |-> p]
        BY <1>1, <2>1, <2>4 DEF Reply
    <2>7. G(input[r].key, p)
        BY <2>1, <2>6 DEF Gave
    <2>8. R(input[r].key)
        BY <2>5, <2>7
    <2>9. \A k \in Keys : R(k)
        <3> TAKE k \in Keys
        <3> QED
            BY <1>6, <2>5, <2>8
    <2> QED
        BY <2>2, <2>9
<1>13. ASSUME UNCHANGED <<keys, answer>>
       PROVE  C /\ \A k \in Keys : R(k)
    BY <1>6, <1>7, <1>13
<1>14. ASSUME NEW in \in Inputs, Rejected(r, in)
       PROVE  C /\ \A k \in Keys : R(k)
    <2>1. Reply(r, "error", NoResponse) /\ UNCHANGED keys
        BY <1>14 DEF Rejected
    <2> QED
        BY <1>6, <1>8, <2>1
<1> HIDE DEF C, R
<1>15. C /\ \A k \in Keys : R(k)
    BY <1>10, <1>11, <1>12, <1>13, <1>14 DEF Move, Waits, GoesOn, Goto
<1>16. AnswersGiven' /\ RecordsGiven'
    BY <1>3, <1>5, <1>15 DEF C, R, OriginInv, AnswersGiven, RecordsGiven
<1> QED
    BY <1>4, <1>16 DEF OriginInv

LEMMA NextOrigin == Safe /\ QueueInv /\ OriginInv /\ [Next]_vars => OriginInv'
<1> SUFFICES ASSUME Safe, QueueInv, OriginInv, [Next]_vars
             PROVE  OriginInv'
    OBVIOUS
<1>1. CASE \/ \E r \in Requests, in \in Inputs : Receive(r, in)
           \/ \E r \in Requests : HandlerStep(r)
    BY <1>1, RequestMoves, StepAnswered, MoveOrigin DEF Safe, QueueInv, OriginInv
<1>2. CASE Crash \/ Cleanup \/ OnChain \/ Tick \/ UNCHANGED vars
    <2>1. UNCHANGED <<input, answer>>
        BY <1>2 DEF Crash, Cleanup, OnChain, Tick, vars, requestVars
    <2>2. \A r \in Requests : pc'[r] \in Submitting => pc[r] \in Submitting
        BY <1>2 DEF Crash, Cleanup, OnChain, Tick, vars, requestVars, Submitting
    <2>3. \A k \in Keys : Tells(keys'[k]) => keys'[k] = keys[k]
        BY <1>2 DEF Crash, Cleanup, WithoutExpired, OnChain, Tick, vars, Tells, IsCompleted, NoRecord
    <2>4. SignedSubmit' /\ AnswersOwn'
        BY <2>1, <2>2 DEF OriginInv, SignedSubmit, AnswersOwn
    <2>5. AnswersGiven' /\ RecordsGiven'
        BY <2>1, <2>3 DEF OriginInv, AnswersGiven, RecordsGiven, Gave
    <2> QED
        BY <2>4, <2>5 DEF OriginInv
<1> QED
    BY <1>1, <1>2 DEF Next

LEMMA InitOrigin == Init => OriginInv
BY DEF Init, KeysInit, NoRecord, NoAnswer, OriginInv, SignedSubmit, RecordsGiven, AnswersGiven,
       AnswersOwn, Tells, IsCompleted, Submitting

LEMMA OriginAnswers == TypeOK /\ OriginInv => AnswersOfKey
<1> SUFFICES ASSUME TypeOK, OriginInv, NEW r \in Requests, answer[r].kind = "cached"
             PROVE  \E q \in Requests : /\ answer[q] = [answer[r] EXCEPT !.kind = "ok"]
                                        /\ input[q].key = input[r].key
    BY DEF AnswersOfKey, OriginInv, AnswersOwn
<1>1. answer[r] \in [kind : {"none", "ok", "cached", "processing", "error"},
                    response : ResponseType]
    BY DEF TypeOK
<1>2. [answer[r] EXCEPT !.kind = "ok"] = [kind |-> "ok", response |-> answer[r].response]
    BY <1>1
<1> QED
    BY <1>2 DEF OriginInv, AnswersGiven, Gave

\* Every response with a transaction hash, given or kept, is true: that transaction
\* completed the job with its manifest.  And every answer was given for what was asked under
\* its key, first by the handler that was asked it.  It holds of any number of requests under
\* any number of keys of the job, overtaken or not, through crashes and lost answers.
THEOREM ResponsesTrue == Spec => []ResponsesBackedByChain
<1>1. Spec => []Backed
    BY InitBacked, NextBacked, SafeAlways, PTL DEF Spec
<1>2. Spec => []QueueInv
    BY InitQueue, NextQueue, SafeAlways, PTL DEF Spec
<1>3. Spec => []OriginInv
    BY <1>2, InitOrigin, NextOrigin, SafeAlways, PTL DEF Spec
<1>4. Safe /\ Backed /\ OriginInv => ResponsesBackedByChain
    BY BackedResponses, OriginAnswers DEF ResponsesBackedByChain, Safe
<1> QED
    BY <1>1, <1>3, <1>4, SafeAlways, PTL

================================================================================
