------------------------------ MODULE ReplayProofs ------------------------------
(***************************************************************************)
(* What holds of Replay for every number of events and of runs of the      *)
(* script at the same time, with any limit and any number of kills.        *)
(*                                                                         *)
(* The argument for the retries: a run that holds an event will retry it   *)
(* once more, whatever its row says by then.  So what is bounded is not    *)
(* the count of a row but the count together with the runs that still hold *)
(* the event: a run takes it only while the count is below the limit, a    *)
(* run with --id takes it in any case and is counted, and a retry moves    *)
(* one from the runs to the count.                                         *)
(***************************************************************************)
EXTENDS Replay, FiniteSetTheorems, TLAPS

EventRecord == [id : Requests, type : EventTypes]

\* The positions of a list that a run still has to retry: all, or all but the first when it
\* waits for the storage.
LeftAt(s, w) == {i \in DOMAIN s : w => i # 1}

LeftIds(s, w) == {s[i].id : i \in LeftAt(s, w)}

NoneTwice(s) == \A i, j \in DOMAIN s : s[i].id = s[j].id => i = j

\* What is left of a list has no event that the list had not.
PartOf(t, s) == \A i \in DOMAIN t : \E k \in DOMAIN s : t[i] = s[k]

Holders(r) == {p \in Replayers : r \in LeftIds(snapshot[p], waiting[p])}

-------------------------------------------------------------------------------
(* The inductive invariant *)

\* A row has these fields; times are left open.
Fields(row) ==
    [type |-> row.type, retries |-> row.retries, nextRetry |-> row.nextRetry,
     resolution |-> row.resolution, resolvedAt |-> row.resolvedAt]

RowsTypeOK ==
    /\ rows = [r \in Requests |-> rows[r]]
    /\ \A r \in Requests :
        /\ rows[r] = Fields(rows[r])
        /\ rows[r].retries \in Nat
        /\ rows[r].type \in EventTypes \cup {"none", "gone"}

RunsTypeOK ==
    /\ snapshot \in [Replayers -> Seq(EventRecord)]
    /\ waiting \in [Replayers -> BOOLEAN]
    /\ forced \in Nat

\* A run holds an event once, and only one that has a row or had one.
RunsHoldEvents ==
    \A p \in Replayers :
        /\ waiting[p] => snapshot[p] # << >>
        /\ NoneTwice(snapshot[p])
        /\ \A i \in DOMAIN snapshot[p] : rows[snapshot[p][i].id].type # "none"

\* The retries an event had and those that are still to come.
RetriesFollow ==
    \A r \in Requests :
        LET all == rows[r].retries + Cardinality(Holders(r))
        IN  all # 0 => all <= MaxRetries + forced + Cardinality(Replayers) - 1

ReplayInv ==
    /\ RowsTypeOK
    /\ RunsTypeOK
    /\ RunsHoldEvents
    /\ RetriesFollow

-------------------------------------------------------------------------------
(* Counting the runs that hold an event *)

LEMMA HoldersFinite ==
    ASSUME NEW r
    PROVE  /\ IsFiniteSet(Holders(r))
           /\ Cardinality(Holders(r)) \in Nat
           /\ Cardinality(Replayers) \in Nat
           /\ Cardinality(Holders(r)) <= Cardinality(Replayers)
<1>1. Holders(r) \subseteq Replayers
    BY DEF Holders
<1> QED
    BY <1>1, FS_Subset, FS_CardinalityType, ReplayAssumption

\* Fewer runs that hold an event, or one of them less.
LEMMA FewerHolders ==
    ASSUME NEW S, NEW T, IsFiniteSet(S), T \subseteq S
    PROVE  /\ Cardinality(T) \in Nat /\ Cardinality(S) \in Nat
           /\ Cardinality(T) <= Cardinality(S)
           /\ T # S => Cardinality(T) < Cardinality(S)
BY FS_Subset, FS_CardinalityType

\* One run more.
LEMMA OneMoreHolder ==
    ASSUME NEW S, NEW T, NEW p, IsFiniteSet(S), T \subseteq S \cup {p}
    PROVE  Cardinality(T) \in Nat /\ Cardinality(S) \in Nat /\ Cardinality(T) <= Cardinality(S) + 1
<1>1. IsFiniteSet(S \cup {p}) /\ Cardinality(S \cup {p}) \in {Cardinality(S), Cardinality(S) + 1}
    BY FS_AddElement
<1> QED
    BY <1>1, FS_Subset, FS_CardinalityType

-------------------------------------------------------------------------------
(* Lists of events *)

LEMMA ListedEvents ==
    ASSUME NEW s \in Seq(EventRecord), NEW i \in DOMAIN s
    PROVE  s[i] \in EventRecord /\ s[i].id \in Requests
<1>1. s[i] \in EventRecord
    OBVIOUS
<1> QED
    BY <1>1 DEF EventRecord

\* The head of a list is what the next retry takes off it.
LEMMA NextLeft ==
    ASSUME NEW s \in Seq(EventRecord), s # << >>, NoneTwice(s)
    PROVE  /\ Head(s) \in EventRecord
           /\ Head(s) = s[1]
           /\ Head(s).id \in LeftIds(s, FALSE)
           /\ LeftIds(s, TRUE) = LeftIds(s, FALSE) \ {Head(s).id}
           /\ Tail(s) \in Seq(EventRecord)
           /\ LeftIds(Tail(s), FALSE) = LeftIds(s, TRUE)
           /\ NoneTwice(Tail(s))
           /\ PartOf(Tail(s), s)
<1>1. /\ DOMAIN s = 1..Len(s) /\ Len(s) \in Nat /\ Len(s) # 0
      /\ DOMAIN Tail(s) = 1..(Len(s) - 1)
      /\ \A i \in 1..(Len(s) - 1) : Tail(s)[i] = s[i + 1]
      /\ Head(s) = s[1]
      /\ Tail(s) \in Seq(EventRecord)
    OBVIOUS
<1>2. 1 \in DOMAIN s /\ s[1] \in EventRecord
    BY <1>1
<1>3. s[1].id \in LeftIds(s, FALSE)
    BY <1>2 DEF LeftIds, LeftAt
<1>4. LeftIds(s, TRUE) = LeftIds(s, FALSE) \ {s[1].id}
    BY <1>2 DEF LeftIds, LeftAt, NoneTwice
<1>5. \A i \in DOMAIN Tail(s) : i + 1 \in DOMAIN s /\ i + 1 # 1 /\ Tail(s)[i] = s[i + 1]
    BY <1>1
<1>6. \A k \in DOMAIN s : k # 1 => k - 1 \in DOMAIN Tail(s) /\ Tail(s)[k - 1] = s[k]
    BY <1>1
<1>7. LeftIds(Tail(s), FALSE) = LeftIds(s, TRUE)
    <2>1. ASSUME NEW i \in DOMAIN Tail(s)
          PROVE  Tail(s)[i].id \in LeftIds(s, TRUE)
        BY <1>5, <2>1 DEF LeftIds, LeftAt
    <2>2. ASSUME NEW k \in DOMAIN s, k # 1
          PROVE  s[k].id \in LeftIds(Tail(s), FALSE)
        BY <1>6, <2>2 DEF LeftIds, LeftAt
    <2> QED
        BY <2>1, <2>2 DEF LeftIds, LeftAt
<1>8. ASSUME NEW i \in DOMAIN Tail(s), NEW j \in DOMAIN Tail(s), Tail(s)[i].id = Tail(s)[j].id
      PROVE  i = j
    <2>1. i + 1 = j + 1
        BY <1>5, <1>8 DEF NoneTwice
    <2> QED
        BY <1>1, <2>1
<1> QED
    <2>1. NoneTwice(Tail(s))
        BY <1>8 DEF NoneTwice
    <2>2. PartOf(Tail(s), s)
        BY <1>5 DEF PartOf
    <2> QED
        BY <1>1, <1>2, <1>3, <1>4, <1>7, <2>1, <2>2

-------------------------------------------------------------------------------
(* What each call does to the rows *)

\* A row that is changed keeps its fields; a retry is counted, and the other calls leave the
\* count as it is or begin a new one.
RowsQuieter ==
    /\ RowsTypeOK'
    /\ \A r \in Requests :
        /\ rows'[r].retries <= rows[r].retries
        /\ rows[r].type # "none" => rows'[r].type # "none"

LEMMA ExpiredRows ==
    ASSUME RowsTypeOK, rows' = WithExpired
    PROVE  /\ RowsQuieter
           /\ \A r \in Requests :
                /\ rows'[r].type = rows[r].type
                /\ rows'[r].resolution \in {rows[r].resolution, "EXPIRED"}
<1>1. \A r \in Requests :
        /\ rows'[r] \in {rows[r], Resolved(rows[r], "EXPIRED")}
        /\ rows[r] = Fields(rows[r]) /\ rows[r].retries \in Nat
        /\ rows[r].type \in EventTypes \cup {"none", "gone"}
    BY DEF RowsTypeOK, WithExpired
<1>2. \A r \in Requests :
        /\ rows'[r] = Fields(rows'[r])
        /\ rows'[r].retries = rows[r].retries /\ rows'[r].type = rows[r].type
        /\ rows'[r].resolution \in {rows[r].resolution, "EXPIRED"}
    <2> SUFFICES ASSUME NEW r \in Requests
                 PROVE  /\ rows'[r] = Fields(rows'[r])
                        /\ rows'[r].retries = rows[r].retries /\ rows'[r].type = rows[r].type
                        /\ rows'[r].resolution \in {rows[r].resolution, "EXPIRED"}
        OBVIOUS
    <2>1. CASE rows'[r] = rows[r]
        BY <1>1, <2>1
    <2>2. CASE rows'[r] = Resolved(rows[r], "EXPIRED")
        BY <1>1, <2>2 DEF Resolved, Fields
    <2> QED
        BY <1>1, <2>1, <2>2
<1>3. rows' = [r \in Requests |-> rows'[r]]
    BY DEF WithExpired
<1> QED
    BY <1>1, <1>2, <1>3 DEF RowsQuieter, RowsTypeOK

\* A call that replaces one row.
LEMMA OneRow ==
    ASSUME RowsTypeOK, NEW r \in Requests, NEW row, row = Fields(row), row.retries \in Nat,
           row.type \in EventTypes \cup {"none", "gone"}, rows' = [rows EXCEPT ![r] = row]
    PROVE  /\ RowsTypeOK'
           /\ rows'[r] = row
           /\ \A q \in Requests : q # r => rows'[q] = rows[q]
<1>1. rows = [q \in Requests |-> rows[q]]
    BY DEF RowsTypeOK
<1>2. /\ rows' = [q \in Requests |-> IF q = r THEN row ELSE rows[q]]
      /\ rows'[r] = row
      /\ \A q \in Requests : q # r => rows'[q] = rows[q]
    BY <1>1
<1> QED
    BY <1>2 DEF RowsTypeOK

LEMMA RetriedRow ==
    ASSUME RowsTypeOK, NEW r \in Requests, rows' = Retrying(r)
    PROVE  /\ RowsTypeOK'
           /\ rows'[r].retries <= rows[r].retries + 1
           /\ \A q \in Requests :
                /\ q # r => rows'[q] = rows[q]
                /\ rows'[q].type = rows[q].type /\ rows'[q].resolution = rows[q].resolution
<1>1. CASE IsRow(rows[r])
    <2>1. PICK after : after = clock + BackoffBase * 2 ^ rows[r].retries
        OBVIOUS
    <2>2. PICK row : row = [rows[r] EXCEPT !.retries = @ + 1, !.nextRetry = after]
        OBVIOUS
    <2>3. rows' = [rows EXCEPT ![r] = row]
        BY <1>1, <2>1, <2>2 DEF Retrying, RowsTypeOK
    <2>4. /\ rows[r] = Fields(rows[r]) /\ rows[r].retries \in Nat
          /\ rows[r].type \in EventTypes \cup {"none", "gone"}
        BY DEF RowsTypeOK
    <2>5. /\ row = Fields(row)
          /\ row.retries = rows[r].retries + 1
          /\ row.type = rows[r].type
          /\ row.resolution = rows[r].resolution
        BY <2>2, <2>4 DEF Fields
    <2>6. /\ RowsTypeOK'
          /\ rows'[r] = row
          /\ \A q \in Requests : q # r => rows'[q] = rows[q]
        <3>1. row = Fields(row) /\ row.retries \in Nat /\ row.type \in EventTypes \cup {"none", "gone"}
            BY <2>4, <2>5
        <3> QED
            BY <2>3, <3>1, OneRow
    <2> QED
        BY <2>4, <2>5, <2>6
<1>2. CASE ~IsRow(rows[r])
    <2>1. rows' = rows
        BY <1>2 DEF Retrying
    <2> QED
        BY <2>1 DEF RowsTypeOK
<1> QED
    BY <1>1, <1>2

LEMMA ResolvedRow ==
    ASSUME RowsTypeOK, NEW r \in Requests, NEW resolution, rows' = ResolvedAs(r, resolution)
    PROVE  /\ RowsQuieter
           /\ \A q \in Requests : rows'[q].resolution \in {rows[q].resolution, resolution}
<1>1. CASE IsRow(rows[r])
    <2>1. PICK row : row = Resolved(rows[r], resolution)
        OBVIOUS
    <2>2. rows' = [rows EXCEPT ![r] = row]
        BY <1>1, <2>1 DEF ResolvedAs, RowsTypeOK
    <2>3. /\ rows[r] = Fields(rows[r]) /\ rows[r].retries \in Nat
          /\ rows[r].type \in EventTypes \cup {"none", "gone"}
        BY DEF RowsTypeOK
    <2>4. /\ row = Fields(row)
          /\ row.retries = rows[r].retries
          /\ row.type = rows[r].type
          /\ row.resolution = resolution
        BY <2>1, <2>3 DEF Fields, Resolved
    <2>5. /\ RowsTypeOK'
          /\ rows'[r] = row
          /\ \A q \in Requests : q # r => rows'[q] = rows[q]
        BY <2>2, <2>3, <2>4, OneRow
    <2>6. \A q \in Requests : rows[q].retries \in Nat
        BY DEF RowsTypeOK
    <2> QED
        BY <2>4, <2>5, <2>6 DEF RowsQuieter
<1>2. CASE ~IsRow(rows[r])
    <2>1. rows' = rows
        BY <1>2 DEF ResolvedAs
    <2> QED
        BY <2>1 DEF RowsTypeOK, RowsQuieter
<1> QED
    BY <1>1, <1>2

LEMMA NewRow ==
    ASSUME RowsTypeOK, NEW r \in Requests, NEW type \in EventTypes, rows' = Enqueued(r, type)
    PROVE  /\ RowsQuieter
           /\ \A q \in Requests : rows'[q].resolution \in {rows[q].resolution, Unresolved}
<1>1. PICK row : row = [NoRow EXCEPT !.type = type, !.nextRetry = clock + BackoffBase]
    OBVIOUS
<1>2. /\ row = Fields(row) /\ row.retries = 0 /\ row.type = type
      /\ row.resolution = Unresolved
    BY <1>1 DEF NoRow, Fields
<1>3. /\ RowsTypeOK'
      /\ rows'[r] = row
      /\ \A q \in Requests : q # r => rows'[q] = rows[q]
    <2>1. rows' = [rows EXCEPT ![r] = row]
        BY <1>1 DEF Enqueued
    <2>2. row = Fields(row) /\ row.retries \in Nat /\ row.type \in EventTypes \cup {"none", "gone"}
        BY <1>2
    <2> QED
        BY <2>1, <2>2, OneRow
<1>4. type # "none" /\ \A q \in Requests : rows[q].retries \in Nat
    BY DEF RowsTypeOK, EventTypes
<1> QED
    BY <1>2, <1>3, <1>4 DEF RowsQuieter

\* Rows that are deleted are gone, and the others stay.
LEMMA TidiedRows ==
    ASSUME RowsTypeOK, Tidy
    PROVE  /\ RowsQuieter
           /\ \A q \in Requests : rows'[q] \in {rows[q], GoneRow}
           /\ GoneRow.resolution = Unresolved
<1>1. /\ rows' = [q \in Requests |-> rows'[q]]
      /\ \A q \in Requests : rows'[q] \in {rows[q], GoneRow}
    <2>1. CASE rows' = WithoutOld
        BY <2>1 DEF WithoutOld
    <2>2. ASSUME NEW r \in Requests, rows' = Deleted(r)
          PROVE  /\ rows' = [q \in Requests |-> rows'[q]]
                 /\ \A q \in Requests : rows'[q] \in {rows[q], GoneRow}
        BY <2>2 DEF Deleted, RowsTypeOK
    <2> QED
        BY <2>1, <2>2 DEF Tidy
<1>2. /\ GoneRow = Fields(GoneRow) /\ GoneRow.retries = 0 /\ GoneRow.type = "gone"
      /\ GoneRow.resolution = Unresolved
    BY DEF GoneRow, NoRow, Fields
<1>3. \A q \in Requests : /\ rows[q] = Fields(rows[q]) /\ rows[q].retries \in Nat
                          /\ rows[q].type \in EventTypes \cup {"none", "gone"}
    BY DEF RowsTypeOK
<1>4. \A q \in Requests : /\ rows'[q] = Fields(rows'[q]) /\ rows'[q].retries \in Nat
                          /\ rows'[q].type \in EventTypes \cup {"none", "gone"}
                          /\ rows'[q].retries <= rows[q].retries
                          /\ rows[q].type # "none" => rows'[q].type # "none"
    BY <1>1, <1>2, <1>3
<1> QED
    BY <1>1, <1>2, <1>4 DEF RowsQuieter, RowsTypeOK

-------------------------------------------------------------------------------
(* What each step keeps *)

LEMMA ReplayInitInv == Init => ReplayInv
<1> SUFFICES ASSUME Init
             PROVE  ReplayInv
    OBVIOUS
<1>1. RowsTypeOK
    BY DEF Init, QueueInit, RowsTypeOK, NoRow, Fields
<1>2. RunsTypeOK /\ RunsHoldEvents
    BY DEF Init, RunsTypeOK, RunsHoldEvents, NoneTwice
<1>3. ASSUME NEW r \in Requests
      PROVE  rows[r].retries = 0 /\ Cardinality(Holders(r)) = 0
    <2>1. Holders(r) = {}
        BY DEF Init, Holders, LeftIds, LeftAt
    <2> QED
        BY <2>1, FS_EmptySet DEF Init, QueueInit, NoRow
<1>4. RetriesFollow
    BY <1>3 DEF RetriesFollow
<1> QED
    BY <1>1, <1>2, <1>4 DEF ReplayInv

\* The calls that only make counts smaller.
LEMMA QuieterKeeps ==
    ASSUME ReplayInv, RowsQuieter, UNCHANGED <<snapshot, waiting, forced>>
    PROVE  ReplayInv'
<1>1. RunsTypeOK'
    BY DEF ReplayInv, RunsTypeOK
<1>2. RunsHoldEvents'
    <2>1. \A p \in Replayers : \A i \in DOMAIN snapshot[p] : snapshot[p][i].id \in Requests
        BY ListedEvents DEF ReplayInv, RunsTypeOK
    <2> QED
        BY <2>1 DEF ReplayInv, RunsHoldEvents, RowsQuieter
<1>3. RetriesFollow'
    <2> SUFFICES ASSUME NEW r \in Requests,
                        rows'[r].retries + Cardinality(Holders(r)') # 0
                 PROVE  rows'[r].retries + Cardinality(Holders(r)') <=
                            MaxRetries + forced' + Cardinality(Replayers) - 1
        BY DEF RetriesFollow
    <2>1. Holders(r)' = Holders(r)
        BY DEF Holders
    <2>2. /\ Cardinality(Holders(r)) \in Nat /\ Cardinality(Replayers) \in Nat
          /\ rows[r].retries \in Nat /\ rows'[r].retries \in Nat
          /\ rows'[r].retries <= rows[r].retries
          /\ MaxRetries \in Nat /\ forced \in Nat
        BY HoldersFinite, QueueAssumption DEF RowsQuieter, RowsTypeOK, ReplayInv, RunsTypeOK
    <2>3. rows[r].retries + Cardinality(Holders(r)) # 0 =>
            rows[r].retries + Cardinality(Holders(r)) <= MaxRetries + forced + Cardinality(Replayers) - 1
        BY DEF ReplayInv, RetriesFollow
    <2> QED
        BY <2>1, <2>2, <2>3
<1> QED
    BY <1>1, <1>2, <1>3 DEF ReplayInv, RowsQuieter

\* A run that gets another list, or begins or ends to wait: the other runs hold what they held.
LEMMA OneRun ==
    ASSUME ReplayInv, NEW p \in Replayers, NEW s \in Seq(EventRecord), NEW w \in BOOLEAN,
           snapshot' = [snapshot EXCEPT ![p] = s], waiting' = [waiting EXCEPT ![p] = w],
           forced' \in Nat, RowsTypeOK',
           \A r \in Requests : rows[r].type # "none" => rows'[r].type # "none",
           w => s # << >>,
           NoneTwice(s),
           \A i \in DOMAIN s : rows'[s[i].id].type # "none"
    PROVE  /\ RunsTypeOK'
           /\ RunsHoldEvents'
           /\ \A r \in Requests :
                /\ r \in LeftIds(s, w) => Holders(r)' = Holders(r) \cup {p}
                /\ r \notin LeftIds(s, w) => Holders(r)' = Holders(r) \ {p}
<1>1. /\ snapshot \in [Replayers -> Seq(EventRecord)]
      /\ waiting \in [Replayers -> BOOLEAN]
    BY DEF ReplayInv, RunsTypeOK
<1>2. /\ snapshot' \in [Replayers -> Seq(EventRecord)]
      /\ waiting' \in [Replayers -> BOOLEAN]
      /\ snapshot'[p] = s /\ waiting'[p] = w
      /\ \A q \in Replayers : q # p => snapshot'[q] = snapshot[q] /\ waiting'[q] = waiting[q]
    BY <1>1
<1>3. RunsTypeOK'
    BY <1>2 DEF RunsTypeOK
<1>4. RunsHoldEvents'
    <2> SUFFICES ASSUME NEW q \in Replayers
                 PROVE  /\ waiting'[q] => snapshot'[q] # << >>
                        /\ NoneTwice(snapshot'[q])
                        /\ \A i \in DOMAIN snapshot'[q] : rows'[snapshot'[q][i].id].type # "none"
        BY DEF RunsHoldEvents
    <2>1. CASE q = p
        BY <1>2, <2>1
    <2>2. CASE q # p
        <3>1. \A i \in DOMAIN snapshot[q] : snapshot[q][i].id \in Requests
            BY <1>1, ListedEvents
        <3> QED
            BY <1>2, <2>2, <3>1 DEF ReplayInv, RunsHoldEvents
    <2> QED
        BY <2>1, <2>2
<1>5. \A r \in Requests : \A q \in Replayers :
        /\ q # p => (q \in Holders(r)' <=> q \in Holders(r))
        /\ p \in Holders(r)' <=> r \in LeftIds(s, w)
    BY <1>2 DEF Holders
<1>6. \A r \in Requests : Holders(r) \subseteq Replayers /\ Holders(r)' \subseteq Replayers
    BY DEF Holders
<1> QED
    BY <1>3, <1>4, <1>5, <1>6

\* The bound on an event, by what a step does to its count and its holders.
LEMMA EventBound ==
    ASSUME ReplayInv, RowsTypeOK', forced' \in Nat, NEW r \in Requests,
           \/ /\ forced' = forced
              /\ rows'[r].retries <= rows[r].retries
              /\ Holders(r)' \subseteq Holders(r)
           \/ /\ forced' = forced
              /\ rows'[r].retries <= rows[r].retries + 1
              /\ \E p \in Holders(r) : Holders(r)' = Holders(r) \ {p}
           \/ /\ forced' = forced
              /\ rows'[r].retries < MaxRetries
           \/ /\ forced' = forced + 1
              /\ rows'[r].retries <= rows[r].retries
              /\ \E p \in Replayers : Holders(r)' \subseteq Holders(r) \cup {p}
    PROVE  rows'[r].retries + Cardinality(Holders(r)') # 0 =>
                rows'[r].retries + Cardinality(Holders(r)') <=
                    MaxRetries + forced' + Cardinality(Replayers) - 1
<1>0. /\ IsFiniteSet(Holders(r))
      /\ Cardinality(Holders(r)) \in Nat /\ Cardinality(Replayers) \in Nat
      /\ rows[r].retries \in Nat /\ rows'[r].retries \in Nat
      /\ MaxRetries \in Nat /\ forced \in Nat
      /\ rows[r].retries + Cardinality(Holders(r)) # 0 =>
            rows[r].retries + Cardinality(Holders(r)) <= MaxRetries + forced + Cardinality(Replayers) - 1
    BY HoldersFinite, QueueAssumption DEF RowsTypeOK, ReplayInv, RunsTypeOK, RetriesFollow
<1>1. PICK h : h = Holders(r)'
    OBVIOUS
<1>2. IsFiniteSet(h) /\ Cardinality(h) \in Nat /\ Cardinality(h) <= Cardinality(Replayers)
    <2>1. h \subseteq Replayers
        BY <1>1 DEF Holders
    <2> QED
        BY <2>1, FS_Subset, FS_CardinalityType, ReplayAssumption
<1>3. CASE forced' = forced /\ rows'[r].retries <= rows[r].retries /\ h \subseteq Holders(r)
    <2>1. Cardinality(h) <= Cardinality(Holders(r))
        BY <1>0, <1>3, FewerHolders
    <2> QED
        BY <1>0, <1>1, <1>2, <1>3, <2>1
<1>4. CASE /\ forced' = forced
           /\ rows'[r].retries <= rows[r].retries + 1
           /\ \E p \in Holders(r) : h = Holders(r) \ {p}
    <2>1. Cardinality(h) < Cardinality(Holders(r))
        BY <1>0, <1>4, FewerHolders
    <2> QED
        BY <1>0, <1>1, <1>2, <1>4, <2>1
<1>5. CASE forced' = forced /\ rows'[r].retries < MaxRetries
    BY <1>0, <1>1, <1>2, <1>5
<1>6. CASE /\ forced' = forced + 1
           /\ rows'[r].retries <= rows[r].retries
           /\ \E p \in Replayers : h \subseteq Holders(r) \cup {p}
    <2>1. Cardinality(h) <= Cardinality(Holders(r)) + 1
        BY <1>0, <1>6, OneMoreHolder
    <2>2. Cardinality(Replayers) # 0
        BY <1>6, FS_EmptySet, ReplayAssumption
    <2> QED
        BY <1>0, <1>1, <1>2, <1>6, <2>1, <2>2
<1> QED
    BY <1>1, <1>3, <1>4, <1>5, <1>6

-------------------------------------------------------------------------------
(* The steps of a run *)

\* A run starts with events that are due, each once.
LEMMA StartKeeps ==
    ASSUME ReplayInv, NEW p \in Replayers, NEW types, StartRun(p, types)
    PROVE  ReplayInv'
<1>0. RowsTypeOK /\ snapshot[p] = << >> /\ waiting[p] = FALSE
    BY DEF ReplayInv, RunsTypeOK, RunsHoldEvents, StartRun, Idle
<1>1. RowsQuieter /\ \A r \in Requests : rows'[r].type = rows[r].type
    BY <1>0, ExpiredRows DEF StartRun
<1>2. PICK D \in SUBSET Requests : \E s \in SetToSeqs(D) :
        /\ \A r \in D : IsDue(rows'[r])
        /\ snapshot' = [snapshot EXCEPT ![p] = Events(s)]
    <2>1. PICK S \in DueSets : \E s \in SetToSeqs({r \in S : rows[r].type \in types}) :
            snapshot' = [snapshot EXCEPT ![p] = Events(s)]
        BY DEF StartRun
    <2>2. \A r \in S : r \in Requests /\ IsDue(rows'[r])
        BY <2>1 DEF StartRun, DueSets
    <2>3. PICK D : D = {r \in S : rows[r].type \in types}
        OBVIOUS
    <2>4. D \subseteq Requests /\ \A r \in D : IsDue(rows'[r])
        BY <2>2, <2>3
    <2> QED
        BY <2>1, <2>3, <2>4
<1>3. PICK s \in SetToSeqs(D) : snapshot' = [snapshot EXCEPT ![p] = Events(s)]
    BY <1>2
<1>4. /\ DOMAIN s = 1..Cardinality(D) /\ Cardinality(D) \in Nat
      /\ \A i \in DOMAIN s : s[i] \in D
      /\ \A i, j \in DOMAIN s : s[i] = s[j] => i = j
    BY FS_Subset, FS_CardinalityType, ReplayAssumption DEF SetToSeqs
<1>5. PICK e : e = Events(s)
    OBVIOUS
<1>6. /\ DOMAIN e = DOMAIN s
      /\ \A i \in DOMAIN s : e[i].id = s[i] /\ e[i] \in EventRecord
    <2>1. \A r \in D : rows[r].type \in EventTypes
        BY <1>1, <1>2 DEF IsDue, IsOpen, IsRow
    <2> QED
        BY <1>4, <1>5, <2>1 DEF Events, Event, EventRecord
<1>7. e \in Seq(EventRecord)
    <2>1. e = [i \in 1..Cardinality(D) |-> e[i]]
        BY <1>4, <1>5 DEF Events
    <2> QED
        BY <1>4, <1>6, <2>1
<1>8. \A i \in DOMAIN e : rows'[e[i].id].type # "none"
    BY <1>2, <1>4, <1>6 DEF IsDue, IsOpen, IsRow, EventTypes
<1>9. /\ snapshot' = [snapshot EXCEPT ![p] = e]
      /\ waiting' = [waiting EXCEPT ![p] = FALSE]
      /\ forced' = forced /\ forced' \in Nat
    BY <1>0, <1>3, <1>5 DEF StartRun, ReplayInv, RunsTypeOK
<1>10. /\ RunsTypeOK' /\ RunsHoldEvents'
      /\ \A r \in Requests :
            /\ r \in LeftIds(e, FALSE) => Holders(r)' = Holders(r) \cup {p}
            /\ r \notin LeftIds(e, FALSE) => Holders(r)' = Holders(r) \ {p}
    <2>1. NoneTwice(e)
        BY <1>4, <1>6 DEF NoneTwice
    <2>2. RowsTypeOK' /\ \A r \in Requests : rows[r].type # "none" => rows'[r].type # "none"
        BY <1>1 DEF RowsQuieter
    <2> QED
        BY <1>7, <1>8, <1>9, <2>1, <2>2, OneRun
<1>11. LeftIds(e, FALSE) \subseteq D
    BY <1>4, <1>6 DEF LeftIds, LeftAt
<1>12. RetriesFollow'
    <2>1. ASSUME NEW r \in Requests
          PROVE  \/ rows'[r].retries < MaxRetries
                 \/ rows'[r].retries <= rows[r].retries /\ Holders(r)' \subseteq Holders(r)
        BY <1>1, <1>2, <1>10, <1>11 DEF RowsQuieter, IsDue
    <2> QED
        BY <1>1, <1>9, <2>1, EventBound DEF RowsQuieter, RetriesFollow
<1> QED
    BY <1>1, <1>10, <1>12 DEF ReplayInv, RowsQuieter

\* A run with --id takes any row, and is counted.
LEMMA StartForcedKeeps ==
    ASSUME ReplayInv, NEW p \in Replayers, NEW r \in Requests, StartForced(p, r)
    PROVE  ReplayInv'
<1>0. RowsTypeOK /\ snapshot[p] = << >> /\ waiting[p] = FALSE
    BY DEF ReplayInv, RunsTypeOK, RunsHoldEvents, StartForced, Idle
<1>1. RowsQuieter /\ \A q \in Requests : rows'[q].type = rows[q].type
    BY <1>0, ExpiredRows DEF StartForced
<1>2. PICK e : e = Event(r)
    OBVIOUS
<1>3. e \in EventRecord /\ e.id = r /\ rows[r].type \in EventTypes
    BY <1>2 DEF StartForced, IsRow, Event, EventRecord
<1>4. /\ snapshot' = [snapshot EXCEPT ![p] = <<e>>]
      /\ waiting' = [waiting EXCEPT ![p] = FALSE]
      /\ forced' = forced + 1 /\ forced' \in Nat
    BY <1>0, <1>2 DEF StartForced, ReplayInv, RunsTypeOK
<1>5. /\ <<e>> \in Seq(EventRecord)
      /\ DOMAIN <<e>> = {1} /\ <<e>>[1] = e
    BY <1>3
<1>6. /\ RunsTypeOK' /\ RunsHoldEvents'
      /\ \A q \in Requests :
            /\ q \in LeftIds(<<e>>, FALSE) => Holders(q)' = Holders(q) \cup {p}
            /\ q \notin LeftIds(<<e>>, FALSE) => Holders(q)' = Holders(q) \ {p}
    <2>1. \A i \in DOMAIN <<e>> : rows'[<<e>>[i].id].type # "none"
        BY <1>1, <1>3, <1>5 DEF EventTypes
    <2>2. NoneTwice(<<e>>)
        BY <1>5 DEF NoneTwice
    <2>3. RowsTypeOK' /\ \A q \in Requests : rows[q].type # "none" => rows'[q].type # "none"
        BY <1>1 DEF RowsQuieter
    <2> QED
        BY <1>4, <1>5, <2>1, <2>2, <2>3, OneRun
<1>7. RetriesFollow'
    <2>1. \A q \in Requests : /\ rows'[q].retries <= rows[q].retries
                              /\ Holders(q)' \subseteq Holders(q) \cup {p}
        BY <1>1, <1>6 DEF RowsQuieter
    <2> QED
        BY <1>1, <1>4, <2>1, EventBound DEF RowsQuieter, RetriesFollow
<1> QED
    BY <1>1, <1>6, <1>7 DEF ReplayInv, RowsQuieter

\* A retry counts, and the run does not hold the event any more.
LEMMA BeginRetryKeeps ==
    ASSUME ReplayInv, NEW p \in Replayers, BeginRetry(p)
    PROVE  ReplayInv'
<1>1. PICK s \in Seq(EventRecord), w \in BOOLEAN, t \in Seq(EventRecord) :
        /\ s = snapshot[p] /\ s # << >> /\ waiting[p] = FALSE
        /\ \/ w = TRUE /\ t = s
           \/ w = FALSE /\ t = Tail(s)
        /\ snapshot' = [snapshot EXCEPT ![p] = t]
        /\ waiting' = [waiting EXCEPT ![p] = w]
        /\ forced' = forced /\ forced \in Nat
    <2>1. /\ snapshot[p] \in Seq(EventRecord) /\ snapshot[p] # << >> /\ waiting[p] = FALSE
          /\ Tail(snapshot[p]) \in Seq(EventRecord)
          /\ snapshot \in [Replayers -> Seq(EventRecord)] /\ waiting \in [Replayers -> BOOLEAN]
          /\ forced' = forced /\ forced \in Nat
        BY DEF ReplayInv, RunsTypeOK, BeginRetry, Advance, Idle
    <2>2. CASE Head(snapshot[p]).type = "UPLOAD_FAIL"
        <3>1. /\ snapshot' = [snapshot EXCEPT ![p] = snapshot[p]]
              /\ waiting' = [waiting EXCEPT ![p] = TRUE]
            BY <2>1, <2>2 DEF BeginRetry, Advance
        <3> QED
            BY <2>1, <3>1
    <2>3. CASE Head(snapshot[p]).type # "UPLOAD_FAIL"
        <3>1. /\ snapshot' = [snapshot EXCEPT ![p] = Tail(snapshot[p])]
              /\ waiting' = [waiting EXCEPT ![p] = FALSE]
            BY <2>1, <2>3 DEF BeginRetry, Advance
        <3> QED
            BY <2>1, <3>1
    <2> QED
        BY <2>2, <2>3
<1>2. NoneTwice(s)
    BY <1>1 DEF ReplayInv, RunsHoldEvents
<1>3. PICK r \in Requests :
        /\ r = Head(s).id
        /\ r \in LeftIds(s, FALSE)
        /\ LeftIds(t, w) = LeftIds(s, FALSE) \ {r}
    <2>1. Head(s).id \in Requests
        BY <1>1, <1>2, NextLeft DEF EventRecord
    <2> QED
        BY <1>1, <1>2, <2>1, NextLeft
<1>4. /\ RowsTypeOK'
      /\ rows'[r].retries <= rows[r].retries + 1
      /\ \A q \in Requests : (q # r => rows'[q] = rows[q]) /\ rows'[q].type = rows[q].type
    <2>1. rows' = Retrying(r)
        BY <1>1, <1>3 DEF BeginRetry, Advance
    <2> QED
        BY <2>1, RetriedRow DEF ReplayInv
<1>5. /\ RunsTypeOK' /\ RunsHoldEvents'
      /\ \A q \in Requests :
            /\ q \in LeftIds(t, w) => Holders(q)' = Holders(q) \cup {p}
            /\ q \notin LeftIds(t, w) => Holders(q)' = Holders(q) \ {p}
    <2>0. PartOf(s, s)
        BY DEF PartOf
    <2>1. NoneTwice(t) /\ PartOf(t, s)
        BY <1>1, <1>2, <2>0, NextLeft
    <2>2. \A i \in DOMAIN t : rows'[t[i].id].type # "none"
        <3>1. \A k \in DOMAIN s : s[k].id \in Requests /\ rows[s[k].id].type # "none"
            BY <1>1, ListedEvents DEF ReplayInv, RunsHoldEvents
        <3> QED
            BY <1>4, <2>1, <3>1 DEF PartOf
    <2>3. w => t # << >>
        BY <1>1
    <2>4. \A q \in Requests : rows[q].type # "none" => rows'[q].type # "none"
        BY <1>4
    <2> QED
        BY <1>1, <1>4, <2>1, <2>2, <2>3, <2>4, OneRun
\* Only the event itself loses a holder.
<1>6. \A q \in Requests : p \in Holders(q) <=> q \in LeftIds(s, FALSE)
    BY <1>1 DEF Holders
<1>7. p \in Holders(r) /\ Holders(r)' = Holders(r) \ {p}
    BY <1>3, <1>5, <1>6
<1>8. \A q \in Requests : q # r => Holders(q)' \subseteq Holders(q)
    BY <1>3, <1>5, <1>6
<1>9. \A q \in Requests : rows[q].retries \in Nat
    BY DEF ReplayInv, RowsTypeOK
<1>10. RetriesFollow'
    <2>1. ASSUME NEW q \in Requests, q # r
          PROVE  rows'[q].retries <= rows[q].retries /\ Holders(q)' \subseteq Holders(q)
        BY <1>4, <1>8, <1>9, <2>1
    <2>2. forced' = forced /\ forced' \in Nat
        BY <1>1
    <2>3. ASSUME NEW q \in Requests
          PROVE  rows'[q].retries + Cardinality(Holders(q)') # 0 =>
                    rows'[q].retries + Cardinality(Holders(q)') <=
                        MaxRetries + forced' + Cardinality(Replayers) - 1
        <3>1. CASE q = r
            BY <1>4, <1>7, <2>2, <3>1, EventBound
        <3>2. CASE q # r
            BY <1>4, <2>1, <2>2, <3>2, EventBound
        <3> QED
            BY <3>1, <3>2
    <2> QED
        BY <2>3 DEF RetriesFollow
<1> QED
    BY <1>4, <1>5, <1>10 DEF ReplayInv

\* The end of a retry and a kill take events from a run.
LEMMA RunShortens ==
    ASSUME ReplayInv, NEW p \in Replayers, NEW t \in Seq(EventRecord),
           snapshot' = [snapshot EXCEPT ![p] = t], waiting' = [waiting EXCEPT ![p] = FALSE],
           RowsQuieter, forced' = forced,
           NoneTwice(t), PartOf(t, snapshot[p]),
           LeftIds(t, FALSE) \subseteq LeftIds(snapshot[p], waiting[p])
    PROVE  ReplayInv'
<1>1. RowsTypeOK' /\ forced' = forced /\ forced' \in Nat
    BY DEF ReplayInv, RowsQuieter, RunsTypeOK
<1>2. \A i \in DOMAIN t : rows'[t[i].id].type # "none"
    <2>1. \A i \in DOMAIN t : t[i].id \in Requests
        BY ListedEvents
    <2>2. \A i \in DOMAIN t : rows[t[i].id].type # "none"
        BY DEF ReplayInv, RunsHoldEvents, PartOf
    <2> QED
        BY <2>1, <2>2 DEF RowsQuieter
<1>3. /\ RunsTypeOK' /\ RunsHoldEvents'
      /\ \A r \in Requests :
            /\ r \in LeftIds(t, FALSE) => Holders(r)' = Holders(r) \cup {p}
            /\ r \notin LeftIds(t, FALSE) => Holders(r)' = Holders(r) \ {p}
    <2>1. \A r \in Requests : rows[r].type # "none" => rows'[r].type # "none"
        BY DEF RowsQuieter
    <2> QED
        BY <1>1, <1>2, <2>1, OneRun
<1>4. \A r \in Requests : Holders(r)' \subseteq Holders(r) /\ rows'[r].retries <= rows[r].retries
    <2>1. \A r \in Requests : p \in Holders(r) <=> r \in LeftIds(snapshot[p], waiting[p])
        BY DEF Holders
    <2>2. \A r \in Requests : rows'[r].retries <= rows[r].retries
        BY DEF RowsQuieter
    <2> QED
        BY <1>3, <2>1, <2>2
<1>5. RetriesFollow'
    BY <1>1, <1>4, EventBound DEF RetriesFollow
<1> QED
    BY <1>1, <1>3, <1>5 DEF ReplayInv

\* The end of an upload: the event is resolved as retried, or nothing is written.
LEMMA UploadEnd ==
    ASSUME ReplayInv, NEW p \in Replayers, FinishRetry(p)
    PROVE  /\ RowsQuieter
           /\ \/ rows' = rows
              \/ /\ Head(snapshot[p]).id \in Requests /\ UploadReturns(Head(snapshot[p]).id)
                 /\ rows' = ResolvedAs(Head(snapshot[p]).id, "RETRIED")
<1>0. RowsTypeOK
    BY DEF ReplayInv
<1>1. /\ snapshot[p] \in Seq(EventRecord) /\ snapshot[p] # << >>
      /\ NoneTwice(snapshot[p]) /\ waiting \in [Replayers -> BOOLEAN]
    BY DEF ReplayInv, RunsTypeOK, RunsHoldEvents, FinishRetry
<1>2. PICK id : id = Head(snapshot[p]).id
    OBVIOUS
<1>3. id \in Requests
    BY <1>1, <1>2, NextLeft DEF EventRecord
<1>4. CASE rows' = rows
    BY <1>0, <1>4 DEF RowsQuieter, RowsTypeOK
<1>5. CASE rows' # rows
    <2>1. /\ rows' = ResolvedAs(id, "RETRIED") /\ id \in WithManifest
          /\ waiting[p] /\ waiting' = [waiting EXCEPT ![p] = FALSE]
        BY <1>2, <1>5 DEF FinishRetry, PayloadUploadable
    <2>2. UploadReturns(id)
        BY <1>1, <1>2, <2>1 DEF UploadReturns
    <2> QED
        BY <1>0, <1>2, <1>3, <2>1, <2>2, ResolvedRow
<1> QED
    BY <1>4, <1>5

LEMMA FinishRetryKeeps ==
    ASSUME ReplayInv, NEW p \in Replayers, FinishRetry(p)
    PROVE  ReplayInv'
<1>1. /\ snapshot[p] \in Seq(EventRecord) /\ snapshot[p] # << >> /\ waiting[p] = TRUE
      /\ NoneTwice(snapshot[p])
    BY DEF ReplayInv, RunsTypeOK, RunsHoldEvents, FinishRetry, Advance
<1>2. /\ RowsQuieter /\ forced' = forced
      /\ snapshot' = [snapshot EXCEPT ![p] = Tail(snapshot[p])]
      /\ waiting' = [waiting EXCEPT ![p] = FALSE]
    BY UploadEnd DEF FinishRetry, Advance
<1>3. PICK s : s = snapshot[p]
    OBVIOUS
<1>4. /\ Tail(s) \in Seq(EventRecord)
      /\ LeftIds(Tail(s), FALSE) = LeftIds(s, TRUE)
      /\ NoneTwice(Tail(s)) /\ PartOf(Tail(s), s)
    BY <1>1, <1>3, NextLeft
<1> QED
    BY <1>1, <1>2, <1>3, <1>4, RunShortens

LEMMA KillKeeps ==
    ASSUME ReplayInv, NEW p \in Replayers, Kill(p)
    PROVE  ReplayInv'
<1>0. RowsQuieter
    BY DEF Kill, RowsQuieter, RowsTypeOK, ReplayInv
<1>1. /\ forced' = forced
      /\ snapshot' = [snapshot EXCEPT ![p] = << >>]
      /\ waiting' = [waiting EXCEPT ![p] = FALSE]
      /\ << >> \in Seq(EventRecord)
    BY DEF Kill
<1>2. LeftIds(<< >>, FALSE) = {} /\ DOMAIN << >> = {}
    BY DEF LeftIds, LeftAt
<1>3. NoneTwice(<< >>) /\ PartOf(<< >>, snapshot[p])
    BY <1>2 DEF NoneTwice, PartOf
<1> QED
    BY <1>0, <1>1, <1>2, <1>3, RunShortens

LEMMA ReplayStepKeeps == ReplayInv /\ [Next]_vars => ReplayInv'
<1> SUFFICES ASSUME ReplayInv, [Next]_vars
             PROVE  ReplayInv'
    OBVIOUS
<1>0. RowsTypeOK
    BY DEF ReplayInv
<1>1. ASSUME NEW p \in Replayers,
             \/ \E types \in TypeArgs : StartRun(p, types)
             \/ \E r \in Requests : StartForced(p, r)
             \/ BeginRetry(p)
             \/ FinishRetry(p)
             \/ Kill(p)
      PROVE  ReplayInv'
    BY <1>1, StartKeeps, StartForcedKeeps, BeginRetryKeeps, FinishRetryKeeps, KillKeeps
<1>2. CASE DryRun
    BY <1>0, <1>2, ExpiredRows, QuieterKeeps DEF DryRun
<1>3. ASSUME NEW r \in Requests, NEW t \in Types, Enqueue(r, t)
      PROVE  ReplayInv'
    BY <1>0, <1>3, NewRow, QuieterKeeps, ReplayAssumption DEF Enqueue
<1>4. ASSUME NEW r \in Requests, ResolveByHand(r, "MANUAL")
      PROVE  ReplayInv'
    BY <1>0, <1>4, ResolvedRow, QuieterKeeps DEF ResolveByHand
<1>5. CASE Tidy
    <2>1. RowsQuieter
        BY <1>0, <1>5, TidiedRows
    <2> QED
        BY <1>5, <2>1, QuieterKeeps DEF Tidy
<1>6. CASE Tick \/ UNCHANGED vars
    <2>1. UNCHANGED <<rows, snapshot, waiting, forced>>
        BY <1>6 DEF Tick, vars
    <2>2. RowsQuieter
        BY <1>0, <2>1 DEF RowsQuieter, RowsTypeOK
    <2> QED
        BY <2>1, <2>2, QuieterKeeps
<1> QED
    BY <1>1, <1>2, <1>3, <1>4, <1>5, <1>6 DEF Next

-------------------------------------------------------------------------------
(* What holds of the queue *)

LEMMA ReplayAlways == Spec => []ReplayInv
BY ReplayInitInv, ReplayStepKeeps, PTL DEF Spec

\* The retries of an event exceed the limit by no more than the runs that can read it
\* together, less one, and the runs that were given --id (dlq.ts 135-146, replay_dlq.ts).
THEOREM RetriesAlwaysBounded == Spec => []RetriesBounded
<1>1. ReplayInv => RetriesBounded
    <2> SUFFICES ASSUME ReplayInv, NEW r \in Requests, rows[r].retries # 0
                 PROVE  rows[r].retries <= MaxRetries + forced + Cardinality(Replayers) - 1
        BY DEF RetriesBounded
    <2>1. /\ rows[r].retries \in Nat /\ forced \in Nat /\ MaxRetries \in Nat
          /\ Cardinality(Holders(r)) \in Nat /\ Cardinality(Replayers) \in Nat
        BY HoldersFinite, QueueAssumption DEF ReplayInv, RowsTypeOK, RunsTypeOK
    <2>2. rows[r].retries + Cardinality(Holders(r)) # 0 =>
            rows[r].retries + Cardinality(Holders(r)) <= MaxRetries + forced + Cardinality(Replayers) - 1
        BY DEF ReplayInv, RetriesFollow
    <2> QED
        BY <2>1, <2>2
<1> QED
    BY <1>1, ReplayAlways, PTL

\* An event is resolved as retried only by an upload that was done, and but for that no step
\* of the script changes how an event was resolved (dlq.ts, replay_dlq.ts 99-180).
THEOREM ResolutionsStay == Spec => ResolutionKept
<1>1. ReplayInv /\ [Next]_vars =>
        [\A r \in Requests :
            /\ (IsRow(rows[r]) /\ ~IsOpen(rows[r])) =>
                \/ rows'[r].resolution = rows[r].resolution
                \/ rows'[r].resolution = "MANUAL"
                \/ rows'[r] = GoneRow
                \/ rows'[r].resolution = "RETRIED" /\ UploadReturns(r)
            /\ rows'[r].resolution = "RETRIED" =>
                rows[r].resolution = "RETRIED" \/ UploadReturns(r)]_vars
    <2> DEFINE Overwritten(r) ==
                    \/ rows'[r].resolution = rows[r].resolution
                    \/ rows'[r].resolution = "MANUAL"
                    \/ rows'[r] = GoneRow
                    \/ rows'[r].resolution = "RETRIED" /\ UploadReturns(r)
    <2> SUFFICES ASSUME ReplayInv, Next, NEW r \in Requests
                 PROVE  /\ (IsRow(rows[r]) /\ ~IsOpen(rows[r])) => Overwritten(r)
                        /\ rows'[r].resolution = "RETRIED" =>
                            rows[r].resolution = "RETRIED" \/ UploadReturns(r)
        OBVIOUS
    <2>0. RowsTypeOK
        BY DEF ReplayInv
    <2>1. ASSUME rows' = WithExpired
          PROVE  /\ (IsRow(rows[r]) /\ ~IsOpen(rows[r])) => rows'[r] = rows[r]
                 /\ rows'[r].resolution \in {rows[r].resolution, "EXPIRED"}
        <3>1. (IsRow(rows[r]) /\ ~IsOpen(rows[r])) => rows'[r] = rows[r]
            BY <2>1 DEF WithExpired, IsExhausted
        <3> QED
            BY <2>0, <2>1, <3>1, ExpiredRows
    <2>2. ASSUME NEW p \in Replayers, BeginRetry(p)
          PROVE  rows'[r].resolution = rows[r].resolution
        <3>1. Head(snapshot[p]).id \in Requests /\ rows' = Retrying(Head(snapshot[p]).id)
            BY <2>2, NextLeft DEF BeginRetry, Advance, Idle, ReplayInv, RunsTypeOK, RunsHoldEvents, EventRecord
        <3> QED
            BY <2>0, <3>1, RetriedRow
    <2>3. ASSUME NEW p \in Replayers, FinishRetry(p)
          PROVE  \/ rows'[r].resolution = rows[r].resolution
                 \/ rows'[r].resolution = "RETRIED" /\ UploadReturns(r)
        <3>1. PICK id : id = Head(snapshot[p]).id
            OBVIOUS
        <3>2. CASE rows' = rows
            BY <3>2
        <3>3. CASE id \in Requests /\ UploadReturns(id) /\ rows' = ResolvedAs(id, "RETRIED")
            <4>1. CASE r = id
                BY <2>0, <3>3, <4>1, ResolvedRow
            <4>2. CASE r # id
                BY <3>3, <4>2 DEF ResolvedAs
            <4> QED
                BY <4>1, <4>2
        <3> QED
            BY <2>3, <3>1, <3>2, <3>3, UploadEnd
    <2>4. ASSUME NEW q \in Requests, NEW t \in Types, Enqueue(q, t)
          PROVE  /\ IsRow(rows[r]) => rows'[r] = rows[r]
                 /\ rows'[r].resolution \in {rows[r].resolution, Unresolved}
        <3>1. rows[q] = NoRow /\ rows' = Enqueued(q, t) /\ t \in EventTypes
            BY <2>4, ReplayAssumption DEF Enqueue
        <3>2. IsRow(rows[r]) => rows'[r] = rows[r]
            BY <2>0, <3>1 DEF Enqueued, RowsTypeOK, NoRow, IsRow, EventTypes
        <3> QED
            BY <2>0, <3>1, <3>2, NewRow
    <2>5. ASSUME NEW q \in Requests, ResolveByHand(q, "MANUAL")
          PROVE  rows'[r].resolution \in {rows[r].resolution, "MANUAL"}
        BY <2>0, <2>5, ResolvedRow DEF ResolveByHand
    <2>6. CASE Tidy
        BY <2>0, <2>6, TidiedRows DEF Unresolved
    <2>7. ASSUME Tick \/ \E p \in Replayers : Kill(p)
          PROVE  rows'[r] = rows[r]
        BY <2>7 DEF Tick, Kill
    <2>8. ASSUME DryRun \/ \E p \in Replayers :
                    \/ \E types \in TypeArgs : StartRun(p, types)
                    \/ \E q \in Requests : StartForced(p, q)
          PROVE  rows' = WithExpired
        BY <2>8 DEF DryRun, StartRun, StartForced
    <2> QED
        BY <2>1, <2>2, <2>3, <2>4, <2>5, <2>6, <2>7, <2>8 DEF Next, Unresolved
<1> QED
    BY <1>1, ReplayAlways, PTL DEF Spec, ResolutionKept

================================================================================
