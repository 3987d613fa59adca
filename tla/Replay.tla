---------------------------------- MODULE Replay ----------------------------------
(***************************************************************************)
(* scripts/replay_dlq.ts run by hand or by a timer beside the API: each    *)
(* run is a process that takes a snapshot of the rows to replay and works  *)
(* through it.  The API adds rows and an operator resolves and deletes     *)
(* them meanwhile.  A retry is two steps when it waits for the storage.    *)
(***************************************************************************)
EXTENDS DeadLetterQueue, FiniteSets, SequencesExt

CONSTANTS
    Replayers,      \* the processes that can run the script at the same time
    Limit,          \* --limit (100)
    StorageOutcomes,\* does an upload to the storage succeed: both, or only one of them
    WithManifest,   \* the requests whose body also has a manifestHash and a manifest
    Types,          \* bound: the types of the events the API adds
    EnqueueUntil,   \* bound: when the API stops failing
    MaxTime,        \* bound: the clock
    MaxOddRuns      \* bound: runs with --id and runs killed half way, together

ASSUME ReplayAssumption ==
    /\ IsFiniteSet(Requests)
    /\ IsFiniteSet(Replayers)
    /\ Limit \in Nat
    /\ StorageOutcomes \subseteq BOOLEAN
    /\ WithManifest \subseteq Requests
    /\ Types \subseteq EventTypes
    /\ {EnqueueUntil, MaxTime, MaxOddRuns} \subseteq Nat

VARIABLES
    snapshot,   \* the events each run still has to replay, as it read them
    waiting,    \* is the run waiting for the storage, in the retry of the first of them
    forced,     \* how many runs were given --id
    kills       \* how many runs were killed

vars == <<clock, rows, snapshot, waiting, forced, kills>>

Init ==
    /\ QueueInit
    /\ snapshot = [p \in Replayers |-> << >>]
    /\ waiting = [p \in Replayers |-> FALSE]
    /\ forced = 0
    /\ kills = 0

Idle(p) == snapshot[p] = << >>

Event(r) == [id |-> r, type |-> rows[r].type]

\* What retryStorageUpload needs from the payload.  The payload is the body as it was posted
\* (webhook.ts:482); no field of CompletePayload is called manifestHash or manifest, but
\* nothing takes a field away that a caller adds.
PayloadUploadable(r) == r \in WithManifest

-------------------------------------------------------------------------------
\* getDueEvents, after the exhausted rows are expired: the oldest, at most Limit of them ...
DueSets ==
    LET due == {r \in Requests : IsDue(WithExpired[r])}
    IN  {S \in SUBSET due :
            /\ Cardinality(S) = Min({Limit, Cardinality(due)})
            /\ \A r \in S, q \in due \ S : rows[r].nextRetry <= rows[q].nextRetry}

\* ... in the order of their next retries.
InOrder(s) == \A i, j \in DOMAIN s : i < j => rows[s[i]].nextRetry <= rows[s[j]].nextRetry

Events(s) == [i \in DOMAIN s |-> Event(s[i])]

\* parseArgs: --type names one type, and without it every event is replayed.
TypeArgs == {EventTypes} \cup {{t} : t \in Types}

\* main, without --id: the type is applied after the limit.
StartRun(p, types) ==
    /\ Idle(p)
    /\ rows' = WithExpired
    /\ \E S \in DueSets : \E s \in SetToSeqs({r \in S : rows[r].type \in types}) :
        InOrder(s) /\ snapshot' = [snapshot EXCEPT ![p] = Events(s)]
    /\ UNCHANGED <<clock, waiting, forced, kills>>

\* main with --id: any row, due or not, resolved or not.
StartForced(p, r) ==
    /\ Idle(p)
    /\ forced + kills < MaxOddRuns
    /\ rows' = WithExpired
    /\ IsRow(rows[r])
    /\ snapshot' = [snapshot EXCEPT ![p] = <<Event(r)>>]
    /\ forced' = forced + 1
    /\ UNCHANGED <<clock, waiting, kills>>

\* main with --dry-run: it expires rows all the same.
DryRun ==
    /\ rows' = WithExpired
    /\ UNCHANGED <<clock, snapshot, waiting, forced, kills>>

BeginRetryAgain(p) ==
    /\ ~Idle(p)
    /\ ~waiting[p]
    /\ rows' = Retrying(Head(snapshot[p]).id)
    /\ rows'[Head(snapshot[p]).id].retries < 9
    /\ waiting' = [waiting EXCEPT ![p] = Head(snapshot[p]).type = "UPLOAD_FAIL"]
    /\ UNCHANGED <<clock, snapshot, forced, kills>>

\* The loop of main goes on to the next event whether the last succeeded or failed.
Advance(p) == snapshot' = [snapshot EXCEPT ![p] = Tail(@)]

\* retryEvent up to its first wait; only an upload waits, every other type fails at once.
BeginRetry(p) ==
    LET event == Head(snapshot[p])
    IN  /\ ~Idle(p)
        /\ ~waiting[p]
        /\ rows' = Retrying(event.id)
        /\ IF event.type = "UPLOAD_FAIL"
           THEN waiting' = [waiting EXCEPT ![p] = TRUE] /\ UNCHANGED snapshot
           ELSE Advance(p) /\ UNCHANGED waiting
        /\ UNCHANGED <<clock, forced, kills>>

\* The rest of retryEvent for an upload.
FinishRetry(p) ==
    /\ waiting[p]
    /\ \E stored \in StorageOutcomes :
        LET id == Head(snapshot[p]).id
        IN  rows' = IF PayloadUploadable(id) /\ stored THEN ResolvedAs(id, "RETRIED") ELSE rows
    /\ waiting' = [waiting EXCEPT ![p] = FALSE]
    /\ Advance(p)
    /\ UNCHANGED <<clock, forced, kills>>

Kill(p) ==
    /\ ~Idle(p)
    /\ forced + kills < MaxOddRuns
    /\ kills' = kills + 1
    /\ snapshot' = [snapshot EXCEPT ![p] = << >>]
    /\ waiting' = [waiting EXCEPT ![p] = FALSE]
    /\ UNCHANGED <<clock, rows, forced>>

-------------------------------------------------------------------------------
(* The API, the operator and time. *)

Enqueue(r, type) ==
    /\ clock <= EnqueueUntil
    /\ rows[r] = NoRow
    /\ rows' = Enqueued(r, type)
    /\ UNCHANGED <<clock, snapshot, waiting, forced, kills>>

ResolveByHand(r, resolution) ==
    /\ rows' = ResolvedAs(r, resolution)
    /\ UNCHANGED <<clock, snapshot, waiting, forced, kills>>

Tidy ==
    /\ rows' = WithoutOld \/ \E r \in Requests : rows' = Deleted(r)
    /\ UNCHANGED <<clock, snapshot, waiting, forced, kills>>

Tick ==
    /\ clock < MaxTime
    /\ clock' = clock + 1
    /\ UNCHANGED <<rows, snapshot, waiting, forced, kills>>

Next ==
    \/ \E p \in Replayers :
        \/ \E types \in TypeArgs : StartRun(p, types)
        \/ \E r \in Requests : StartForced(p, r)
        \/ BeginRetry(p)
        \/ FinishRetry(p)
        \/ Kill(p)
    \/ DryRun
    \/ \E r \in Requests :
        \/ \E t \in Types : Enqueue(r, t)
        \/ ResolveByHand(r, "MANUAL")
    \/ Tidy
    \/ Tick

Spec == Init /\ [][Next]_vars

\* The script is run again and again, what it waits for comes, and time passes.
FairSpec ==
    /\ Spec
    /\ WF_vars(Tick)
    /\ \A p \in Replayers :
        WF_vars(StartRun(p, EventTypes)) /\ WF_vars(BeginRetry(p)) /\ WF_vars(FinishRetry(p))

-------------------------------------------------------------------------------
(* Properties *)

\* DLQ_MAX_RETRIES bounds the retries of an event, but getDueEvents reads the count once
\* for a whole run: runs that read it together each add a retry, and a run given --id
\* does not look at it.  Nothing else exceeds the bound.
RetriesBounded ==
    \A r \in Requests :
        rows[r].retries # 0 =>
            rows[r].retries <= MaxRetries + forced + Cardinality(Replayers) - 1

\* A run that waited for the storage, with an event whose body has what the upload needs,
\* comes back.
UploadReturns(r) ==
    \E p \in Replayers :
        /\ waiting[p] /\ ~waiting'[p]
        /\ Head(snapshot[p]).id = r
        /\ r \in WithManifest

\* Only an upload that was done resolves an event as retried, and only that end of an upload
\* changes how an event was resolved before: line 146 writes over what an operator resolved
\* while the run waited, or before a run with --id.  No other step of the script does,
\* however old what the run had read is, and no other failure is ever taken for a success.
ResolutionKept ==
    [][\A r \in Requests :
        /\ (IsRow(rows[r]) /\ ~IsOpen(rows[r])) =>
            \/ rows'[r].resolution = rows[r].resolution
            \/ rows'[r].resolution = "MANUAL"
            \/ rows'[r] = GoneRow
            \/ rows'[r].resolution = "RETRIED" /\ UploadReturns(r)
        /\ rows'[r].resolution = "RETRIED" =>
            rows[r].resolution = "RETRIED" \/ UploadReturns(r)]_vars

\* No event stays in the queue for ever: replayed as often as it may, it is given up by
\* the next run, unless it is resolved before.  The clock stops at MaxTime, so this is
\* said of the events whose next retry comes before.
EventsEnd ==
    \A r \in Requests :
        IsOpen(rows[r]) ~> ~IsOpen(rows[r]) \/ rows[r].nextRetry > MaxTime

\* docs/dlq-replay.md:3, "VRWX stores failed completions in a DLQ for later replay", and
\* scripts/replay_dlq.ts:116, "Re-attempt storage upload": a failed upload whose replays
\* reach a storage that works is not given up, whatever the body posted.
UploadsReplayed ==
    (StorageOutcomes = {TRUE} /\ \A p \in Replayers : ~waiting[p]) =>
        \A r \in Requests :
            rows[r].type = "UPLOAD_FAIL" => rows[r].resolution # "EXPIRED"
================================================================================
