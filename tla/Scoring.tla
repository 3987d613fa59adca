-------------------------------- MODULE Scoring --------------------------------
(***************************************************************************)
(* How a completion is scored.  The API scores a manifest when it accepts  *)
(* it (api/src/routes/webhook.ts) and again whenever somebody verifies it  *)
(* (webhook.ts, and a copy in manifests.ts); the service modules           *)
(* (services/modules), which the proof package calls authoritative, score  *)
(* it by rules of their own.  Ratios are exact fractions here, floating    *)
(* point in the code.                                                      *)
(***************************************************************************)
EXTENDS Integers, SequencesExt

\* Math.round of n / d, for what is not negative.
Rounded(n, d) == (2 * n + d) \div (2 * d)

UpTo(cap, score) == IF score < cap THEN score ELSE cap

Bonus(points, earned) == IF earned THEN points ELSE 0

Total(s) == MapThenSumSet(LAMBDA i : s[i], DOMAIN s)

-------------------------------------------------------------------------------
(* Inspections: how much was covered, and whether there is evidence. *)

CoverageScore(visited, total, artifacts) ==
    IF total = 0
    THEN Bonus(20, artifacts > 0)
    ELSE Rounded(80 * visited + Bonus(20, artifacts > 0) * total, total)

ApiInspection(visited, total, artifacts) == UpTo(120, CoverageScore(visited, total, artifacts))

ModuleInspection(visited, total, artifacts) ==
    UpTo(100, CoverageScore(visited, total, artifacts))

-------------------------------------------------------------------------------
(* Patrols: sequences of checkpoints visited, and of seconds spent. *)

\* The API takes the average of the seconds, and counts visits, not checkpoints; without
\* seconds everything complies.
PatrolScore(visits, of, dwell) ==
    LET seconds == IF dwell = <<>> THEN 30 ELSE UpTo(30 * Len(dwell), Total(dwell))
        spent   == IF dwell = <<>> THEN 1 ELSE Len(dwell)
    IN  UpTo(120, Rounded(70 * visits * spent + seconds * of, of * spent))

\* POST /complete: against the checkpoints that the request expected, if it named any.
ApiPatrol(visited, dwell, expected) ==
    IF expected # <<>>
    THEN PatrolScore(Len(visited), Len(expected), dwell)
    ELSE PatrolScore(IF visited = <<>> THEN 0 ELSE 1, 1, dwell)

\* A plausible slip of the copy: a list that is there, though empty, sets the ratio.
VerifiedByVisits(visited, dwell) == PatrolScore(1, 1, dwell)

\* What is recomputed from the stored manifest, which does not have the expected ones.
VerifiedPatrol(visited, dwell) == ApiPatrol(visited, dwell, <<>>)

\* The module takes the required checkpoints that were visited, and the share of visits
\* that lasted long enough, as a visit without seconds did not.
ModulePatrol(visited, dwell, required, minDwell) ==
    LET reached == Cardinality({i \in DOMAIN required : Contains(visited, required[i])})
        long    == Cardinality({i \in DOMAIN visited \cap DOMAIN dwell : dwell[i] >= minDwell})
        visits  == IF visited = <<>> THEN 1 ELSE Len(visited)
    IN  IF required = <<>>
        THEN 100
        ELSE UpTo(100, Rounded(70 * reached * visits + 30 * long * Len(required),
                               Len(required) * visits))

-------------------------------------------------------------------------------
(* Deliveries: two proofs, a route, and being on time. *)

DeliveryScore(pickup, dropoff, route, onTime) ==
    Bonus(40, pickup) + Bonus(40, dropoff) + Bonus(10, route) + Bonus(10, onTime)

\* Less than two hours, in minutes.
ApiOnTime(start, end) == end > start /\ end - start < 120

\* Inside the job's window, by the time of the dropoff if the manifest has one.
ModuleOnTime(end, dropoffTs, from, to) ==
    LET at == IF dropoffTs = 0 THEN end ELSE dropoffTs IN from <= at /\ at <= to

-------------------------------------------------------------------------------
(* The proof package *)

\* verifyScores: the claim is what the module computes, and good enough for the job.  The
\* units are computed alike on both sides.
VerifyScores(quality, claimedQuality, qualityMin) ==
    claimedQuality = quality /\ quality >= qualityMin
================================================================================
