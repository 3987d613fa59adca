SPECIFICATION MCSpec
CONSTANTS
    PaymentIds = {p1, p2}
    Tenants = {t1}
    WebhookSecret = FALSE
    MaxChanges = 2
    MaxPosts = 1
    DemoPrices = {3, 40}
    DemoDeadlines = {1, 3}
    DemoWindow = 2
    MaxDemoJobs = 2
    MaxDemoTime = 5
    OfferOperators = {u1, u2}
    OfferBuyers = {u2, u3}
    NoOfferParty = nobody
    OfferTerms = {a1}
    OfferDurations = {1, 2}
    MinStake = 2
    PostedStakes <- MCPostedStakes
    MaxStake = 2
    MaxDemoOffers = 2
    MaxOfferTime = 3
    Servers = {api}
    Scripts = {replay}
    MaxStarts = 4
INVARIANTS
    PaymentsMatchStripe
    PlanWasBought
    ChargedAsQuoted
    ScoresAgree
    ClaimsAgree
    DeploymentComplete
    SchemaFollowsMigrations
PROPERTIES
    PaidGetsCompleted
    DemoImplementsPromises
CHECK_DEADLOCK FALSE
