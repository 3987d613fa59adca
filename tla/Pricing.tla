-------------------------------- MODULE Pricing --------------------------------
(***************************************************************************)
(* What things cost, as computed in places that no code connects: the      *)
(* checkout (api/src/routes/stripe.ts), the published rates (onboard.ts),  *)
(* the service registry (services.ts), the quote page                      *)
(* (frontend/src/pages/Quote.tsx) with the lists it falls back on          *)
(* (frontend/src/lib/api.ts), and the SDK (sdk/src/index.ts), which        *)
(* repeats the arithmetic of the contracts for POST /quote (quote.ts).     *)
(***************************************************************************)
EXTENDS Integers

Services == {"inspection", "security_patrol", "delivery"}
QualityTiers == {"standard", "premium", "elite"}

-------------------------------------------------------------------------------
(* Checkout and quote page.  Amounts are in cents, floating point in the   *)
(* code.                                                                   *)

\* SERVICE_PRICES of the checkout.
BaseCents ==
    [s \in Services |-> CASE s = "inspection" -> 10000
                          [] s = "security_patrol" -> 15000
                          [] s = "delivery" -> 20000]

\* QUALITY_MULT, in percent; checkout and page have a copy each.
QualityPercent ==
    [t \in QualityTiers |-> CASE t = "standard" -> 100 [] t = "premium" -> 115 [] t = "elite" -> 130]

\* Math.round of a fraction of cents.
RoundedCents(n, d) == (2 * n + d) \div (2 * d)

Subtotal(s, units) == BaseCents[s] * units

\* A plausible slip: the adjustment is rounded to dollars.
GrossTotalRounded(s, units, t) ==
    Subtotal(s, units) + 100 * RoundedCents(Subtotal(s, units) * (QualityPercent[t] - 100), 10000)

\* What Stripe is told to charge.
GrossTotal(s, units, t) ==
    Subtotal(s, units) + RoundedCents(Subtotal(s, units) * (QualityPercent[t] - 100), 100)

PlatformFee(total) == RoundedCents(total * 25, 1000)

\* Prices in dollars: what GET /v1/rates publishes, ...
RateUsd ==
    [s \in Services |-> CASE s = "inspection" -> 100
                          [] s = "security_patrol" -> 150
                          [] s = "delivery" -> 200]

\* ... SERVICE_REGISTRY, which GET /services publishes and POST /quote counts with, ...
RegistryUsd ==
    [s \in Services |-> CASE s = "inspection" -> 100
                          [] s = "security_patrol" -> 150
                          [] s = "delivery" -> 200]

PriceLists == {RateUsd, RegistryUsd}

\* ... and the quote page's own.  getServices takes these whenever it fails, and it always
\* does: GET /services answers with an object that has the list in it, not with the list.
PageUsd ==
    [s \in Services |-> CASE s = "inspection" -> 100
                          [] s = "security_patrol" -> 150
                          [] s = "delivery" -> 200]

\* platformBps and minBondRatio of GET /v1/rates, and the page's own if that fails: per
\* mille here.
RateFees == [platform |-> 25, minBond |-> 100]

FallbackFees == [platform |-> 25, minBond |-> 100]

FeeLists == {RateFees, FallbackFees}

\* The estimate of the page: grossTotal in cents, and the fee, of at least five cents, and
\* the bond in thousandths of a cent.
Estimate(fees, s, units, t) ==
    LET gross == PageUsd[s] * units * QualityPercent[t]
        fee   == gross * fees.platform
    IN  [grossTotal |-> gross, platformFee |-> IF fee < 5000 THEN 5000 ELSE fee,
         bondRequired |-> gross * fees.minBond]

-------------------------------------------------------------------------------
(* The SDK *)

\* CONSTANTS and DEPIN_CONSTANTS: ratios in basis points, tokens in VRWX, times in seconds.
\* The base reward is a parameter, as it is in the contracts' module.
SdkConstants ==
    [tau |-> 250, challengeWindow |-> 24 * 3600, minBondRatio |-> 1000,
     minStake |-> 1000, unlockDelay |-> 7 * 24 * 3600, slashPercent |-> 2500,
     minQualityMult |-> 8000, maxQualityMult |-> 12000,
     minReliabilityMult |-> 5000, maxReliabilityMult |-> 15000,
     disputePenalty |-> 500, slashPenalty |-> 1000,
     maxDisputePenalty |-> 5000, maxSlashPenalty |-> 5000, listingFee |-> 10]

CalculateMinBond(price) == (price * SdkConstants.minBondRatio) \div 10000

CalculateSettlement(price) ==
    LET fee == (price * SdkConstants.tau) \div 10000 IN [fee |-> fee, payout |-> price - fee]

CalculateQualityMultiplier(score) ==
    IF score < 80 THEN SdkConstants.minQualityMult
    ELSE IF score >= 120 THEN SdkConstants.maxQualityMult
    ELSE SdkConstants.minQualityMult + (score - 80) * 100

CalculateReliabilityMultiplier(bps) ==
    LET range == SdkConstants.maxReliabilityMult - SdkConstants.minReliabilityMult
    IN  SdkConstants.minReliabilityMult + (bps * range) \div 10000

EstimateReward(baseReward, units, score, bps) ==
    (baseReward * units * CalculateQualityMultiplier(score) * CalculateReliabilityMultiplier(bps))
        \div (10000 * 10000)

\* The function has numbers of its own, not those of DEPIN_CONSTANTS.
CappedPenalty(count, each) == IF count * each > 5000 THEN 5000 ELSE count * each

\* A plausible slip: slashes only.
SlashReliabilityScore(disputes, slashes) == 10000 - CappedPenalty(slashes, 1000)

CalculateReliabilityScore(disputes, slashes) ==
    LET total == CappedPenalty(disputes, 500) + CappedPenalty(slashes, 1000)
    IN  IF total >= 10000 THEN 0 ELSE 10000 - total

-------------------------------------------------------------------------------
(* POST /quote and GET /quote/parameters.  Prices are in cents; the code   *)
(* multiplies by 10^18, as a token with 18 decimals would need.            *)

SuggestedPrice(s, units, qualityMin) == RegistryUsd[s] * units * (100 + (qualityMin - 80))

\* The answer to POST /quote, for a robot with so many disputes and slashes.
Quote(baseReward, s, units, qualityMin, disputes, slashes) ==
    LET price == SuggestedPrice(s, units, qualityMin)
        settlement == CalculateSettlement(price)
        bps == CalculateReliabilityScore(disputes, slashes)
    IN  [price |-> price, minBond |-> CalculateMinBond(price),
         fee |-> settlement.fee, payout |-> settlement.payout,
         reward |-> EstimateReward(baseReward, units, qualityMin, bps),
         reliabilityMultiplier |-> CalculateReliabilityMultiplier(bps),
         reliabilityBps |-> bps,
         recommendedStake |-> 2 * SdkConstants.minStake,
         slashRisk |-> (SdkConstants.minStake * SdkConstants.slashPercent) \div 10000]

\* The ranges and the penalties that GET /quote/parameters publishes, which a quote
\* repeats for the quality.
QualityRange == SdkConstants.minQualityMult .. SdkConstants.maxQualityMult

ReliabilityRange == SdkConstants.minReliabilityMult .. SdkConstants.maxReliabilityMult

MaxPenalties == SdkConstants.maxDisputePenalty + SdkConstants.maxSlashPenalty
================================================================================
