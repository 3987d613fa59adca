--------------------------------- MODULE Quotes ---------------------------------
(***************************************************************************)
(* The settlement core next to the arithmetic that quotes are computed     *)
(* with: the SDK and POST /quote repeat the formulas of the contracts in   *)
(* TypeScript, and no code compares the two.                               *)
(***************************************************************************)
EXTENDS Settlement, Pricing

\* Bound: the quality scores that are compared, around the steps of the formula, and the
\* qualities and work units that quotes are asked for.
ComparedScores == {0, 79, 80, 81, 119, 120, 255}
QuotedQualities == {0, 80, 95, 120}
QuotedUnits == {1, 3, 5}

\* The quotes that can be asked for a new robot, in the bound.
AskedQuotes ==
    {Quote(BaseReward, s, u, q, 0, 0) : s \in Services, u \in QuotedUnits, q \in QuotedQualities}

\* What a quote promises for its price is what the escrow will lock, keep and pay.
QuotesHonoured ==
    \A q \in AskedQuotes :
        /\ q.minBond = MinBond(q.price)
        /\ q.fee = Fee(q.price)
        /\ q.payout = Payout(q.price)

\* A quote for a robot with this record: its reliability is what the ledger answers, within
\* the penalties that are published; the multipliers are in the ranges that are published,
\* and if the distributor asks a ledger at all, its multiplier and reward are the quote's.
RewardHonoured(rep, score) ==
    LET bps == ReliabilityScoreBps(rep)
        q == Quote(BaseReward, "inspection", 3, score, rep.totalDisputes, rep.totalSlashes)
    IN  /\ RewardsReputation # NoAddress =>
            /\ q.reward = Reward(score, 3, RobotMultiplier(rep))
            /\ q.reliabilityMultiplier = RobotMultiplier(rep)
        /\ q.reliabilityBps = bps
        /\ RobotMultiplier(rep) \in ReliabilityRange
        /\ QualityMultiplier(score) \in QualityRange
        /\ 10000 - bps <= MaxPenalties

\* Quotes agree with the contracts at every point of a robot's history: bond, fee and payout
\* of every suggested price and of every job, and, where the distributor has its ledger,
\* the reward for every quality at the reliability that the ledger keeps, within what is
\* published (quote.ts 53-186; sdk/src/index.ts 54-147; RewardsDistributor 72-113, with 1x
\* and not the quote's 1.5x if no ledger was set; ReputationLedger 84-120).
QuotesMatchContracts ==
    /\ QuotesHonoured
    /\ \A j \in JobIds :
        LET price == jobs[j].price
        IN  /\ CalculateMinBond(price) = MinBond(price)
            /\ CalculateSettlement(price) = [fee |-> Fee(price), payout |-> Payout(price)]
    /\ \A r \in Robots, score \in ComparedScores : RewardHonoured(reputation[r], score)
================================================================================
