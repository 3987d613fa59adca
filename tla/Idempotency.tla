-------------------------------- MODULE Idempotency --------------------------------
(***************************************************************************)
(* api/src/middleware/idempotency.ts: the table of idempotency keys.  Each *)
(* operator is a part of withIdempotency that runs without waiting, on the *)
(* record it read at its start.                                            *)
(***************************************************************************)
EXTENDS DeadLetterQueue

CONSTANTS
    Keys,           \* idempotency keys: those of one job under several chain ids
    StuckAfter,     \* how long a PENDING record is respected (2 minutes)
    TTL             \* IDEMPOTENCY_TTL_MS (24 hours)

ASSUME IdempotencyAssumption == {StuckAfter, TTL} \subseteq Nat

VARIABLE keys       \* idempotency_keys

NoResponse == [manifest |-> "null"]

NoRecord == [status |-> "none", manifest |-> "null", response |-> NoResponse,
             createdAt |-> 0]

KeysInit == keys = [k \in Keys |-> NoRecord]

NewRecord(m) ==
    [status |-> "PENDING", manifest |-> m, response |-> NoResponse, createdAt |-> clock]

IsCompleted(rec) == rec.status = "COMPLETED"

IsStuck(rec) == rec.status = "PENDING" /\ rec.createdAt < clock - StuckAfter

InProgress(rec) == rec.status = "PENDING" /\ ~IsStuck(rec)

IsFreeOrPending(rec) == rec.status # "COMPLETED"

\* No record, or one that failed: it is deleted, and a new one inserted.
IsFree(rec) == rec.status \in {"none", "FAILED"}

\* A stuck record is marked FAILED, but it is still there when the same call inserts a
\* new one: the insertion fails, and the call ends as if another were in progress.
Released(k) == [keys EXCEPT ![k].status = "FAILED"]

Inserted(k, m) == [keys EXCEPT ![k] = NewRecord(m)]

\* JSON.stringify of a response: the typed data holds a BigInt (the domain's chainId), on
\* which it throws.
Savable(response) == ~response.typedData

\* GET /connectors/webhook/status/:jobId shows the response whatever the status.
StatusResponse(k) == keys[k].response

\* The UPDATEs at the end: WHERE key = ?, whoever inserted the record, and nothing when
\* there is none.
Completed(k, response) ==
    IF keys[k] = NoRecord
    THEN keys
    ELSE [keys EXCEPT ![k].status = "COMPLETED", ![k].response = response]

Failed(k) ==
    IF keys[k] = NoRecord THEN keys ELSE [keys EXCEPT ![k].status = "FAILED"]

\* cleanupExpiredIdempotency
IsExpired(rec) ==
    /\ rec.status \in {"COMPLETED", "FAILED"}
    /\ rec.createdAt + TTL < clock

WithoutFinished == [k \in Keys |-> IF keys[k].status = "PENDING" THEN keys[k] ELSE NoRecord]

WithoutExpired == [k \in Keys |-> IF IsExpired(keys[k]) THEN NoRecord ELSE keys[k]]

\* getIdempotencyStats
IdempotencyStats ==
    [total |-> Cardinality({k \in Keys : keys[k].status # "none"}),
     pending |-> Cardinality({k \in Keys : keys[k].status = "PENDING"}),
     completed |-> Cardinality({k \in Keys : IsCompleted(keys[k])}),
     failed |-> Cardinality({k \in Keys : keys[k].status = "FAILED"})]
================================================================================
