----------------------------- MODULE DeadLetterQueue -----------------------------
(***************************************************************************)
(* api/src/services/dlq.ts: the table of failed completions.  The webhook  *)
(* adds at most one row per request, so a row is known by its request.     *)
(* Each operator is one synchronous call on SQLite, and gives the rows     *)
(* that the call leaves.                                                   *)
(***************************************************************************)
EXTENDS Integers, FiniteSets, WebhookRequests

CONSTANTS
    MaxRetries,     \* DLQ_MAX_RETRIES (3)
    BackoffBase,    \* DLQ_BACKOFF_BASE_MS (1 minute)
    Retention       \* the retention period of cleanupOldEvents (30 days)

ASSUME QueueAssumption ==
    /\ MaxRetries \in Nat
    /\ BackoffBase \in Nat \ {0}
    /\ Retention \in Nat

VARIABLES
    clock,      \* Date.now(), in units of the model
    rows        \* dlq_events

EventTypes == {"HASH_MISMATCH", "UPLOAD_FAIL", "TX_FAIL", "VALIDATION_FAIL"}

Resolutions == {"RETRIED", "MANUAL", "EXPIRED", "SKIPPED"}

Unresolved == "NULL"

NoRow == [type |-> "none", retries |-> 0, nextRetry |-> 0,
          resolution |-> Unresolved, resolvedAt |-> 0]

\* A deleted row: its id is never given again (AUTOINCREMENT).
GoneRow == [NoRow EXCEPT !.type = "gone"]

RowType == [type : EventTypes \cup {"none", "gone"}, retries : Nat, nextRetry : Nat,
            resolution : Resolutions \cup {Unresolved}, resolvedAt : Nat]

QueueInit ==
    /\ clock = 0
    /\ rows = [r \in Requests |-> NoRow]

IsRow(row) == row.type \in EventTypes

IsOpen(row) == IsRow(row) /\ row.resolution = Unresolved

Enqueued(r, type) ==
    [rows EXCEPT ![r] = [NoRow EXCEPT !.type = type, !.nextRetry = clock + BackoffBase]]

IsDue(row) == IsOpen(row) /\ row.nextRetry <= clock /\ row.retries < MaxRetries

IsWornOut(row) == IsRow(row) /\ row.retries >= MaxRetries

IsExhausted(row) == IsOpen(row) /\ row.retries >= MaxRetries

\* markRetrying: nothing when the row is gone, but a resolved row is retried like another.
Retrying(r) ==
    IF IsRow(rows[r])
    THEN [rows EXCEPT ![r].retries = @ + 1,
                      ![r].nextRetry = clock + BackoffBase * 2 ^ rows[r].retries]
    ELSE rows

Resolved(row, resolution) ==
    [row EXCEPT !.resolution = resolution, !.resolvedAt = clock]

\* markResolved: an UPDATE, so nothing when the row is gone.
ResolvedAs(r, resolution) ==
    IF IsRow(rows[r]) THEN [rows EXCEPT ![r] = Resolved(@, resolution)] ELSE rows

NoneExpired == rows

\* expireStuckEvents
WithExpired ==
    [r \in Requests |->
        IF IsExhausted(rows[r]) THEN Resolved(rows[r], "EXPIRED") ELSE rows[r]]

Deleted(r) == IF IsRow(rows[r]) THEN [rows EXCEPT ![r] = GoneRow] ELSE rows

\* cleanupOldEvents
WithoutOld ==
    [r \in Requests |->
        IF rows[r].resolution # Unresolved /\ rows[r].resolvedAt < clock - Retention
        THEN GoneRow
        ELSE rows[r]]

\* getDLQStats
DLQStats ==
    [total |-> Cardinality({r \in Requests : IsRow(rows[r])}),
     unresolved |-> Cardinality({r \in Requests : IsOpen(rows[r])}),
     pendingRetry |-> Cardinality({r \in Requests : IsDue(rows[r])}),
     exceededRetries |-> Cardinality({r \in Requests : IsExhausted(rows[r])}),
     byType |-> [t \in EventTypes |->
        Cardinality({r \in Requests : IsOpen(rows[r]) /\ rows[r].type = t})]]
================================================================================
