------------------------------ MODULE Calculations ------------------------------
(***************************************************************************)
(* Requests whose answer is a function of the request: a quote with its    *)
(* checkout, and a completion that is scored when it is accepted and again *)
(* when it is verified.  A behaviour asks one of them; the checks compare  *)
(* the answers of the parts of the code that compute the same thing.       *)
(***************************************************************************)
EXTENDS Pricing, ServiceModules, TypedClaims

VARIABLE asked      \* the request, and how it was answered

Nothing == [kind |-> "none"]

CalculationsInit == asked = Nothing

-------------------------------------------------------------------------------
(* Bounds of the requests *)

QuotedUnits == 1..50
Coverages == 0..12
Artifacts == 0..2
Seconds == {0, 15, 29, 30, 90}
Minutes == {0, 30, 119, 120, 121, 500}

\* Checkpoints in the order they were visited, and lists of required ones.
Routes == {<<>>, <<"c1">>, <<"c1", "c1">>, <<"c1", "c2">>, <<"c1", "c2", "c1">>}
Requirements == {<<>>, <<"c1">>, <<"c2">>, <<"c1", "c2">>}

\* Seconds for each visit, for fewer, and for one more than there were.
DwellLists(visits) == UNION {[1..n -> Seconds] : n \in 0..visits + 1}

\* How long a job may want a visit to last; 0 would stand for the default, which is 30.
MinDwells == {1, 15, 30, 90}

-------------------------------------------------------------------------------

\* POST /checkout: what Stripe is told to charge, and the part that is kept.
Checkout(s, units, t) ==
    LET total == GrossTotal(s, units, t) IN [charged |-> total, fee |-> PlatformFee(total)]

\* A customer fills in the quote page, which has read the fees or has not reached the API,
\* and pays with a card: the page sends what was filled in, not what it shows.
AskQuote(fees, s, units, t) ==
    asked' = [kind |-> "quote", estimate |-> Estimate(fees, s, units, t),
              published |-> {list[s] * units * QualityPercent[t] : list \in PriceLists},
              checkout |-> Checkout(s, units, t)]

\* A completion: the score claimed by POST /complete, the one that the stored manifest
\* gives later, and the one of the service module for the job.  "ordinary" leaves out what
\* the properties except, and "leeway" is by how much they let the module give more.
Scored(kind, ordinary, leeway, claimed, recomputed, module) ==
    asked' = [kind |-> kind, ordinary |-> ordinary, leeway |-> leeway, claimed |-> claimed,
              recomputed |-> recomputed, module |-> module]

\* The manifest of POST /complete has what the request sends for the service, but for the
\* checkpoints that it expected.
CompletionManifest(service, body) ==
    IF service = "patrol" THEN [visited |-> body.visited, dwell |-> body.dwell] ELSE body

\* computeQualityWorkUnits of routes/webhook.ts, which gets these checkpoints as well, ...
ClaimedQuality(service, m, body) ==
    CASE service = "inspection" -> ApiInspection(m.visited, m.total, m.artifacts)
      [] service = "patrol"     -> ApiPatrol(m.visited, m.dwell, body.expected)
      [] service = "delivery"   ->
            DeliveryScore(m.pickup, m.dropoff, m.route, ApiOnTime(m.start, m.end))

\* ... and its copy in routes/manifests.ts, which has the manifest alone.
RecomputedQuality(service, m) ==
    CASE service = "inspection" -> ApiInspection(m.visited, m.total, m.artifacts)
      [] service = "patrol"     -> VerifiedPatrol(m.visited, m.dwell)
      [] service = "delivery"   ->
            DeliveryScore(m.pickup, m.dropoff, m.route, ApiOnTime(m.start, m.end))

Complete(service, ordinary, leeway, body, module) ==
    LET m == CompletionManifest(service, body)
    IN  Scored(service, ordinary, leeway, ClaimedQuality(service, m, body),
               RecomputedQuality(service, m), module)

\* POST /connectors/webhook/verify: somebody claims what the stored manifest gives, or not.
VerifyClaim(claimed, recomputed) == IF claimed = recomputed THEN "verified" ELSE "refused"

ScoreInspection(visited, total, artifacts) ==
    Complete("inspection", visited <= total, 0,
             [visited |-> visited, total |-> total, artifacts |-> artifacts],
             ModuleInspection(visited, total, artifacts))

\* The API takes half a minute for long enough, whatever the job wants.
DwellLeeway(minDwell) == IF minDwell < 30 THEN 30 - minDwell ELSE 0

\* The request may name the checkpoints it expected; the job requires "required" of them.
ScorePatrol(visited, dwell, expected, required, minDwell) ==
    Complete("patrol",
             /\ required # <<>>
             /\ expected = <<>> \/ Len(expected) = Len(visited)
             /\ Len(dwell) <= Len(visited),
             DwellLeeway(minDwell),
             [visited |-> visited, dwell |-> dwell, expected |-> expected],
             ModulePatrol(visited, dwell, required, minDwell))

ScoreDelivery(pickup, dropoff, route, end, dropoffTs, from, to) ==
    Complete("delivery", 0 < end /\ end < 120, 0,
             [pickup |-> pickup, dropoff |-> dropoff, route |-> route, start |-> 0, end |-> end],
             DeliveryScore(pickup, dropoff, route, ModuleOnTime(end, dropoffTs, from, to)))

\* What comes of the events of a robot: the verdict of the service module on the manifest
\* that it builds of them, what the proof package puts on the chain, and whether it agrees.
BuiltResult(service, events, spec, now) ==
    LET m    == BuildManifest(service, events, spec, now)
        data == ProofData(m, spec)
    IN  [verdict |-> VerifyCompletion(m, spec), data |-> data,
         accepted |-> VerifyScores(ComputeQualityScore(m, spec), data.quality, spec.qualityMin)]

\* A robot sends events, which come in in whatever order.
AskBuilt(service, bundle, spec, now) ==
    asked' = [kind |-> "built",
              results |-> {BuiltResult(service, s, spec, now) : s \in Arrivals(bundle)}]

\* A claim is signed for one thing, and its signature is presented for another or the same.
AskClaim(signer, by, domain, signedType, signed, type, presented) ==
    LET signature == [by |-> by, digest |-> SignedDigest(signer, domain, signedType, signed)]
    IN  asked' = [kind |-> "claim",
                  same |-> /\ by = "controller"
                           /\ signer # "typedData" => domain = Deployed
                           /\ <<signedType, signed>> = <<type, presented>>,
                  checkers |-> Checkers(type),
                  accepted |-> {c \in Checkers(type) : Accepts(c, type, presented, signature)}]

Ask ==
    /\ asked = Nothing
    /\ \/ \E fees \in FeeLists, s \in Services, units \in QuotedUnits, t \in QualityTiers :
            AskQuote(fees, s, units, t)
       \/ \E visited, total \in Coverages, artifacts \in Artifacts :
            ScoreInspection(visited, total, artifacts)
       \/ \E visited \in Routes, required \in Requirements, minDwell \in MinDwells :
          \E dwell \in DwellLists(Len(visited)), expected \in {<<>>, required} :
            ScorePatrol(visited, dwell, expected, required, minDwell)
       \/ \E pickup, dropoff, route \in BOOLEAN, end, dropoffTs, from, to \in Minutes :
            ScoreDelivery(pickup, dropoff, route, end, dropoffTs, from, to)
       \/ \E service \in Supported, now \in {6, 20} :
          \E bundle \in Bundles(service), spec \in Specs(service) :
            AskBuilt(service, bundle, spec, now)
       \/ \E signedType, type \in Versions, by \in {"controller", "stranger"}, domain \in Domains :
          \E signer \in Signers(signedType), signed \in Claims(signedType),
             presented \in Claims(type) :
            AskClaim(signer, by, domain, signedType, signed, type, presented)

-------------------------------------------------------------------------------
(* Properties *)

Completions == {"inspection", "patrol", "delivery"}

\* By card a customer is charged, to the cent, what the quote page estimated from its own
\* prices, and what the published prices come to; the fee that is kept is the one it showed,
\* to the nearest cent; and the bond it showed is the one of the contracts for that price
\* (stripe.ts 107-112, onboard.ts 544-559, services.ts 25-53, frontend/src/pages/Quote.tsx
\* 53-135, frontend/src/lib/api.ts 65-184).
ChargedAsQuoted ==
    asked.kind = "quote" =>
        /\ asked.checkout.charged = asked.estimate.grossTotal
        /\ asked.published = {asked.checkout.charged}
        /\ 1000 * asked.checkout.fee - asked.estimate.platformFee \in -500..500
        /\ asked.estimate.bondRequired \div 1000 = CalculateMinBond(asked.checkout.charged)

\* One completion, three scores.  The one that POST /complete claims is the one that anybody
\* can verify against the stored manifest; the service module of the job never gives more, so
\* that no operator is paid less for the difference, but for one case: a patrol whose job
\* wants visits of less than half a minute may get as many points more from its module as
\* it wants seconds less; and an inspection passes verifyScores as claimed.  Excepted are a
\* patrol whose request expected another number of checkpoints than were visited, which the
\* manifest does not record, one that names seconds for more visits than there were, which
\* its module would not verify, one without required checkpoints, an inspection of more than
\* its area, and a delivery that took no time or two hours (webhook.ts 137-222, 394-449, 896;
\* manifests.ts 43-117; SecurityPatrolModule.ts 50-66, 138-173).
CompletionsAgree ==
    asked.kind \in Completions /\ asked.ordinary =>
        /\ VerifyClaim(asked.claimed, asked.recomputed) = "verified"
        /\ asked.claimed + asked.leeway >= asked.module
        /\ asked.kind = "inspection" => VerifyScores(asked.module, asked.claimed, asked.claimed)

\* The manifest that a service module builds gives one score, one number of units and one
\* verdict, in whatever order the robot's events came in and if one came twice (buildManifest
\* of services/modules).
BuiltInAnyOrder == asked.kind = "built" => Cardinality(asked.results) = 1

\* A verdict that is good reports what goes on the chain, and verifyScores accepts that
\* (verifyCompletion of services/modules; proof/src/index.ts 28-130, 174-204).
VerdictsReported ==
    asked.kind = "built" =>
        \A r \in asked.results :
            r.verdict.ok =>
                /\ r.accepted
                /\ r.data = [quality |-> r.verdict.quality, workUnits |-> r.verdict.workUnits]

\* The parts of the code that score a completion agree (webhook.ts, manifests.ts, services/
\* modules, proof/src/index.ts).
ScoresAgree == CompletionsAgree /\ BuiltInAnyOrder /\ VerdictsReported

\* A signature made by one part of the code opens, for every other part that checks it, just
\* what it was made for: the same version of the claim with the same values, on the same
\* chain, for the same escrow (EIP712Types.sol 5-78, JobEscrow.sol 361-380, 412-433,
\* signing.ts, relayer.ts 60-71, 130-195, 411-451, proof-pack.ts 340-395).
ClaimsAgree ==
    asked.kind = "claim" => asked.accepted = IF asked.same THEN asked.checkers ELSE {}
================================================================================
