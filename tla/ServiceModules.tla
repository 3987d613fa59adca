----------------------------- MODULE ServiceModules -----------------------------
(***************************************************************************)
(* services/modules and packages/proof: a service module builds the        *)
(* manifest of a job from the events that its robot sent, and scores it;   *)
(* the proof package verifies it and prepares what goes on the chain.      *)
(* What may be left out of a job or of an event is <<>>, or <<value>>;     *)
(* evidence (an artifact, a proof, a route) is there or not.               *)
(***************************************************************************)
EXTENDS Scoring

Absent == <<>>

\* a || b, and the same for a number, which is also left out when it is 0.
OrElse(option, other) == IF option = Absent THEN other ELSE option

NumberOrElse(option, other) == IF option \in {Absent, <<0>>} THEN other ELSE option

\* The module registry.
Supported == {"inspection", "security_patrol", "delivery"}

-------------------------------------------------------------------------------
(* Events, and what each does to the manifest that is being built *)

TimeOrRoute(m, e) ==
    CASE e.type = "start" -> [m EXCEPT !.startTs = e.at]
      [] e.type = "end"   -> [m EXCEPT !.endTs = e.at]
      [] e.type = "route" -> [m EXCEPT !.route = TRUE]

NewInspection ==
    [coverageVisited |-> 0, coverageTotal |-> 10, artifacts |-> 0,
     serviceType |-> "inspection", startTs |-> 0, endTs |-> 0, route |-> FALSE]

InspectionEvent(m, e) ==
    CASE e.type = "coverage" ->
            [m EXCEPT !.coverageVisited = e.visited,
                      !.coverageTotal = IF e.total = 0 THEN 10 ELSE e.total]
      [] e.type = "artifact" -> [m EXCEPT !.artifacts = @ + 1]
      [] OTHER -> TimeOrRoute(m, e)

NewPatrol ==
    [checkpointsVisited |-> <<>>, dwellSeconds |-> <<>>, checkpointsRequired |-> Absent,
     minDwellRequired |-> Absent,
     serviceType |-> "security_patrol", startTs |-> 0, endTs |-> 0, route |-> FALSE]

PatrolEvent(m, e) ==
    CASE e.type = "checkpoint" ->
            [m EXCEPT !.checkpointsVisited = Append(@, e.id), !.dwellSeconds = Append(@, e.seconds)]
      [] e.type = "config" ->
            [m EXCEPT !.checkpointsRequired = OrElse(e.required, @),
                      !.minDwellRequired = OrElse(e.minDwell, @)]
      [] OTHER -> TimeOrRoute(m, e)

NewDelivery ==
    [pickupProof |-> FALSE, dropoffProof |-> FALSE, dropoffTs |-> 0,
     serviceType |-> "delivery", startTs |-> 0, endTs |-> 0, route |-> FALSE]

\* A pickup starts the job unless it has started; a dropoff ends it, each if it has a time.
DeliveryEvent(m, e) ==
    CASE e.type = "pickup" ->
            [m EXCEPT !.pickupProof = e.proof, !.startTs = IF @ = 0 THEN e.at ELSE @]
      [] e.type = "dropoff" ->
            [m EXCEPT !.dropoffProof = e.proof, !.dropoffTs = e.at,
                      !.endTs = IF e.at = 0 THEN @ ELSE e.at]
      [] OTHER -> TimeOrRoute(m, e)

\* Without times, a job has just ended and took a quarter of an hour, or less.
Timed(m, duration, now) ==
    [m EXCEPT !.startTs = IF @ = 0 THEN now - duration ELSE @, !.endTs = IF @ = 0 THEN now ELSE @]

BuildInspection(events, now) == Timed(FoldLeft(InspectionEvent, NewInspection, events), 300, now)

\* The job's checkpoints are written into the manifest if no event named others.
BuildPatrol(events, spec, now) ==
    [Timed(FoldLeft(PatrolEvent, NewPatrol, events), 600, now)
        EXCEPT !.checkpointsRequired = OrElse(@, spec.checkpoints)]

BuildDelivery(events, now) == Timed(FoldLeft(DeliveryEvent, NewDelivery, events), 900, now)

\* buildManifest of the module for the service.
BuildManifest(service, events, spec, now) ==
    CASE service = "inspection"      -> BuildInspection(events, now)
      [] service = "security_patrol" -> BuildPatrol(events, spec, now)
      [] service = "delivery"        -> BuildDelivery(events, now)

-------------------------------------------------------------------------------
(* Scores *)

\* Without required checkpoints, those that were visited were required.
PatrolQuality(m, spec) ==
    LET required == OrElse(OrElse(m.checkpointsRequired, spec.checkpoints),
                           <<m.checkpointsVisited>>)
        minDwell == NumberOrElse(NumberOrElse(m.minDwellRequired, spec.minDwell), <<30>>)
    IN  ModulePatrol(m.checkpointsVisited, m.dwellSeconds, required[1], minDwell[1])

DeliveryQuality(m, spec) ==
    DeliveryScore(m.pickupProof, m.dropoffProof, m.route,
                  /\ spec.timeWindow # Absent
                  /\ ModuleOnTime(m.endTs, m.dropoffTs, spec.timeWindow[1].start,
                                  spec.timeWindow[1].end))

ComputeQualityScore(m, spec) ==
    CASE m.serviceType = "inspection" ->
            ModuleInspection(m.coverageVisited, m.coverageTotal, m.artifacts)
      [] m.serviceType = "security_patrol" -> PatrolQuality(m, spec)
      [] m.serviceType = "delivery" -> DeliveryQuality(m, spec)

ComputeWorkUnits(m) ==
    CASE m.serviceType = "inspection"      -> m.coverageVisited + m.artifacts
      [] m.serviceType = "security_patrol" -> Len(m.checkpointsVisited)
      [] m.serviceType = "delivery"        -> 1

-------------------------------------------------------------------------------
(* Verification *)

ValidSpec(spec, service) ==
    spec.serviceType = service /\ spec.geoCell /\ spec.qualityMin \in 0..100

ValidInspection(m) == m.coverageTotal >= 1 /\ m.coverageVisited <= m.coverageTotal

ValidPatrol(m) == Len(m.checkpointsVisited) = Len(m.dwellSeconds)

ValidDelivery(m) == m.pickupProof /\ m.dropoffProof

ValidManifest(m) ==
    \/ m.serviceType = "inspection" /\ ValidInspection(m)
    \/ m.serviceType = "security_patrol" /\ ValidPatrol(m)
    \/ m.serviceType = "delivery" /\ ValidDelivery(m)

\* verifyCompletion of the module that the manifest names, which there always is here.
VerifyCompletion(m, spec) ==
    LET quality == ComputeQualityScore(m, spec)
    IN  IF ValidSpec(spec, m.serviceType) /\ ValidManifest(m)
        THEN [ok |-> quality >= spec.qualityMin, quality |-> quality,
              workUnits |-> ComputeWorkUnits(m)]
        ELSE [ok |-> FALSE, quality |-> 0, workUnits |-> 0]

\* buildProofData, what goes on the chain.  It does not verify.
ProofData(m, spec) == [quality |-> ComputeQualityScore(m, spec), workUnits |-> ComputeWorkUnits(m)]

-------------------------------------------------------------------------------
(* Bundles of events, and jobs *)

ListEvents == {"artifact", "checkpoint"}

At(type, t) == [type |-> type, at |-> t]

EventsOf(service) ==
    CASE service = "inspection" ->
            {[type |-> "coverage", visited |-> v, total |-> t] : v \in {3, 5}, t \in {0, 4}} \cup
            {[type |-> "artifact", nr |-> n] : n \in 1..2} \cup {At("route", 0), At("end", 9)}
      [] service = "security_patrol" ->
            {[type |-> "checkpoint", id |-> c, seconds |-> s] : c \in {"c1", "c2"}, s \in {31, 90}}
            \cup {[type |-> "config", required |-> r, minDwell |-> d] :
                    r \in {Absent, << <<>> >>, << <<"c1", "c2">> >>}, d \in {Absent, <<0>>, <<60>>}}
            \cup {At("end", 9)}
      [] service = "delivery" ->
            {[type |-> t, proof |-> p, at |-> a] :
                t \in {"pickup", "dropoff"}, p \in BOOLEAN, a \in {0, 7}}
            \cup {At("route", 0), At("start", 2), At("end", 9)}

\* Up to four events, of which those that replace one another are not two.
Bundles(service) ==
    {b \in UNION {kSubset(n, EventsOf(service)) : n \in 1..4} :
        \A e, f \in b : e.type = f.type /\ e # f => e.type \in ListEvents}

\* The orders in which a bundle may come in, one event of it possibly twice.
Arrivals(bundle) ==
    LET once == SetToSeqs(bundle)
    IN  once \cup {Append(s, e) : s \in once, e \in {f \in bundle : f.type \notin ListEvents}}

Specs(service) ==
    [serviceType : Supported, geoCell : {TRUE}, qualityMin : {70},
     checkpoints : IF service = "security_patrol" THEN {Absent, << <<"c1">> >>} ELSE {Absent},
     minDwell : IF service = "security_patrol" THEN {Absent, <<60>>} ELSE {Absent},
     timeWindow : IF service = "delivery" THEN {Absent, <<[start |-> 5, end |-> 8]>>} ELSE {Absent}]
================================================================================
