-------------------------------- MODULE Payments --------------------------------
(***************************************************************************)
(* Card payments and plans: api/src/routes/stripe.ts, with Stripe as the   *)
(* route uses it.  Stripe keeps sessions and subscriptions and reports     *)
(* what happened to them by events, each delivered until it is answered    *)
(* with success, perhaps more than once, and in any order.  The route is   *)
(* public: somebody else may post an event too.                            *)
(***************************************************************************)
EXTENDS Integers, FiniteSets

CONSTANTS
    PaymentIds,     \* ids for payments; Stripe's session has the same id here
    Tenants,        \* tenants with a subscription by hand
    WebhookSecret,  \* whether config.STRIPE_WEBHOOK_SECRET is set
    MaxChanges,     \* bound: changes of a subscription
    MaxPosts        \* bound: different events that somebody else posts

ASSUME PaymentsAssumption == WebhookSecret \in BOOLEAN /\ {MaxChanges, MaxPosts} \subseteq Nat

VARIABLES
    checkout,       \* requests that await Stripe's session
    payments,       \* status of each row of payments; "none" without a row
    checkoutUrls,   \* payments whose checkoutUrl reached the customer
    sessions,       \* what Stripe knows of each payment's session
    plans,          \* plan and limits in each row of tenants
    subscriptions,  \* plan of each tenant's subscription at Stripe, "none" without one
    changes,        \* changes of subscriptions so far
    due,            \* events that were not answered with success
    sent,           \* all events of Stripe so far
    posted          \* the events that somebody else posted: history

stripeVars == <<sessions, subscriptions, changes, due, sent, posted>>
payVars == <<checkout, payments, checkoutUrls, plans, stripeVars>>

-------------------------------------------------------------------------------
(* Plans *)

\* SUBSCRIPTION_PLANS: the limits that a plan brings.
PlanLimits ==
    [p \in {"launch", "fleet", "network"} |->
        CASE p = "launch"  -> [robots |-> 3, completions |-> 5000]
          [] p = "fleet"   -> [robots |-> 25, completions |-> 100000]
          [] p = "network" -> [robots |-> 250, completions |-> 1000000]]

OnPlan(p) == [plan |-> p, limits |-> PlanLimits[p]]

\* Plans that can stand in the metadata of a subscription: none, or one unknown here.
MetadataPlans == {"", "fleet", "network", "enterprise"}

PaymentEvents == [type : {"completed", "expired"}, payment : PaymentIds]
PlanEvents == [type : {"subscribed"}, tenant : Tenants, plan : MetadataPlans]
EndEvents == [type : {"deleted"}, tenant : Tenants]

\* Events of what POST /subscribe starts: its metadata stays on the session, without a
\* payment, and the subscription has none.
OnlineEvents == [type : {"completed", "subscribed"}]

\* Events that change a row of payments or of tenants.
EventsWithRow == PaymentEvents \cup PlanEvents \cup EndEvents

PaymentsInit ==
    /\ checkout = {}
    /\ payments = [p \in PaymentIds |-> "none"]
    /\ checkoutUrls = {}
    /\ sessions = [p \in PaymentIds |-> "none"]
    /\ plans = [t \in Tenants |-> OnPlan("launch")]
    /\ subscriptions = [t \in Tenants |-> "none"]
    /\ changes = 0
    /\ due = {}
    /\ sent = {}
    /\ posted = {}

-------------------------------------------------------------------------------
(* POST /v1/payments/checkout *)

\* await stripe.checkout.sessions.create: the session is made, the answer is awaited.
AskForSession(p) ==
    /\ sessions[p] = "none"
    /\ sessions' = [sessions EXCEPT ![p] = "open"]
    /\ checkout' = checkout \cup {p}
    /\ UNCHANGED <<payments, checkoutUrls, plans, subscriptions, changes, due, sent,
                   posted>>

NothingStored(p) == payments

Stored(p) == [payments EXCEPT ![p] = "pending"]

\* Then the row is stored and the URL answered.
AnswerCheckout(p, answered) ==
    /\ p \in checkout
    /\ checkout' = checkout \ {p}
    /\ payments' = Stored(p)
    /\ checkoutUrls' = IF answered THEN checkoutUrls \cup {p} ELSE checkoutUrls
    /\ UNCHANGED <<plans, stripeVars>>

\* Stripe failed after all, or the process ended: no row, and no URL.
LoseCheckout(p) ==
    /\ p \in checkout
    /\ checkout' = checkout \ {p}
    /\ UNCHANGED <<payments, checkoutUrls, plans, stripeVars>>

-------------------------------------------------------------------------------
(* POST /v1/payments/webhook *)

\* A request that is let through.  With a secret, the signature in its header is computed
\* over a raw body that nothing in the server keeps, so that a signed request is refused;
\* one without the header is not verified, whether there is a secret or not.
LetThrough(signed) == ~(WebhookSecret /\ signed)

PlanOf(e) == IF e.plan = "" THEN "fleet" ELSE e.plan

PaymentsAfterExpiry(e) ==
    CASE e \in PaymentEvents /\ e.type = "expired" /\ payments[e.payment] # "none" ->
            [payments EXCEPT ![e.payment] = e.type]
      [] OTHER -> payments

PaymentsAfter(e) ==
    CASE e \in PaymentEvents /\ payments[e.payment] # "none" ->
            [payments EXCEPT ![e.payment] = e.type]
      [] OTHER -> payments

PlansAfterLimitsKept(e) ==
    CASE e \in PlanEvents /\ PlanOf(e) \in DOMAIN PlanLimits ->
            [plans EXCEPT ![e.tenant] = OnPlan(PlanOf(e))]
      [] e \in EndEvents -> [plans EXCEPT ![e.tenant].plan = "launch"]
      [] OTHER -> plans

PlansAfter(e) ==
    CASE e \in PlanEvents /\ PlanOf(e) \in DOMAIN PlanLimits ->
            [plans EXCEPT ![e.tenant] = OnPlan(PlanOf(e))]
      [] e \in EndEvents -> [plans EXCEPT ![e.tenant] = OnPlan("launch")]
      [] OTHER -> plans

Handle(e) == payments' = PaymentsAfter(e) /\ plans' = PlansAfter(e)

\* One delivery by Stripe, which signs all it sends, of an event that is due or of one
\* already answered; when the answer is lost the event stays due.
Deliver(e, answered) ==
    /\ LetThrough(TRUE)
    /\ e \in sent
    /\ Handle(e)
    /\ due' = IF answered THEN due \ {e} ELSE due
    /\ UNCHANGED <<checkout, checkoutUrls, sessions, subscriptions, changes, sent, posted>>

\* The same event in a request without the header, from somebody else.
PostUnsigned(e) ==
    /\ LetThrough(FALSE)
    /\ posted' = posted \cup {e}
    /\ Cardinality(posted') <= MaxPosts
    /\ Handle(e)
    /\ UNCHANGED <<checkout, checkoutUrls, sessions, subscriptions, changes, due, sent>>

-------------------------------------------------------------------------------
(* What customers and tenants are shown *)

\* GET /v1/payments/session/:sessionId, for a session that Stripe has: Stripe's view of it,
\* and the row.
SessionAnswer(p) ==
    [status |-> IF sessions[p] = "paid" THEN "paid" ELSE "unpaid", payment |-> payments[p]]

\* The page to which Stripe sends a customer back.
SuccessPage(p) == IF SessionAnswer(p).status = "paid" THEN "success" ELSE "error"

\* GET /v1/payments/:paymentId; "none" is answered with 404.
PaymentStatus(p) == payments[p]

\* GET /v1/payments/subscription/:tenantId: the plan of the row, and the limits of SUBSCRIPTION_PLANS.
Subscription(t) == OnPlan(plans[t].plan)

-------------------------------------------------------------------------------
(* Stripe and its customers *)

Emit(e) == sent' = sent \cup {e} /\ due' = due \cup {e}

\* A customer needs the URL to pay.
CustomerPays(p) ==
    /\ p \in checkoutUrls
    /\ sessions[p] = "open"
    /\ sessions' = [sessions EXCEPT ![p] = "paid"]
    /\ Emit([type |-> "completed", payment |-> p])
    /\ UNCHANGED <<checkout, payments, checkoutUrls, plans, subscriptions, changes, posted>>

\* Timing assumption: a session outlives the request that made it by hours.
SessionExpires(p) ==
    /\ p \notin checkout
    /\ sessions[p] = "open"
    /\ sessions' = [sessions EXCEPT ![p] = "expired"]
    /\ Emit([type |-> "expired", payment |-> p])
    /\ UNCHANGED <<checkout, payments, checkoutUrls, plans, subscriptions, changes, posted>>

\* POST /v1/payments/subscribe, for a plan that exists and is not free, and what Stripe
\* reports of it.
SubscribeOnline(plan) ==
    /\ plan \in DOMAIN PlanLimits \ {"launch"}
    /\ changes < MaxChanges
    /\ changes' = changes + 1
    /\ \E e \in OnlineEvents : Emit(e)
    /\ UNCHANGED <<checkout, payments, checkoutUrls, sessions, plans, subscriptions, posted>>

\* A subscription whose metadata names a tenant is one made or changed by hand.
Subscribe(t, plan) ==
    /\ changes < MaxChanges
    /\ changes' = changes + 1
    /\ subscriptions' = [subscriptions EXCEPT ![t] = plan]
    /\ Emit([type |-> "subscribed", tenant |-> t, plan |-> plan])
    /\ UNCHANGED <<checkout, payments, checkoutUrls, sessions, plans, posted>>

Unsubscribe(t) ==
    /\ changes < MaxChanges
    /\ subscriptions[t] # "none"
    /\ changes' = changes + 1
    /\ subscriptions' = [subscriptions EXCEPT ![t] = "none"]
    /\ Emit([type |-> "deleted", tenant |-> t])
    /\ UNCHANGED <<checkout, payments, checkoutUrls, sessions, plans, posted>>

CheckoutStep(p) ==
    \/ AskForSession(p)
    \/ \E answered \in BOOLEAN : AnswerCheckout(p, answered)
    \/ LoseCheckout(p)

StripeStep ==
    \/ \E p \in PaymentIds : CustomerPays(p) \/ SessionExpires(p)
    \/ \E plan \in MetadataPlans : SubscribeOnline(plan)
    \/ \E t \in Tenants :
        \/ \E plan \in MetadataPlans : Subscribe(t, plan)
        \/ Unsubscribe(t)

PaymentsNext ==
    \/ \E p \in PaymentIds : CheckoutStep(p)
    \/ \E e \in sent, answered \in BOOLEAN : Deliver(e, answered)
    \/ \E e \in EventsWithRow : PostUnsigned(e)
    \/ StripeStep

\* Stripe delivers a due event again, for days, until it is answered with success.
Redelivery ==
    \A e \in PaymentEvents : WF_payVars(e \in due /\ Deliver(e, TRUE))

PaymentsSpec == PaymentsInit /\ [][PaymentsNext]_payVars /\ Redelivery

-------------------------------------------------------------------------------
(* Properties *)

Reports(type, p) == [type |-> type, payment |-> p]

\* The row of a payment agrees with its session however often and in whatever order the
\* events arrive: it says completed only if the customer paid and expired only if the
\* session ran out, and once the event was answered it says so; a customer whom the page
\* tells of success has a row that is paid or about to be.  Excepted is what somebody
\* else's post said of the same payment: no handler looks at the status before
\* (stripe.ts 150-155, 190-219, 238-281, frontend/src/pages/PaymentSuccess.tsx 12-26).
PaymentsMatchStripe ==
    \A p \in PaymentIds :
        /\ SuccessPage(p) = "success" /\ Reports("expired", p) \notin posted =>
                SessionAnswer(p).payment \in {"pending", "completed"}
        /\ payments[p] = "completed" =>
                sessions[p] = "paid" \/ Reports("completed", p) \in posted
        /\ payments[p] = "expired" =>
                sessions[p] = "expired" \/ Reports("expired", p) \in posted
        /\ sessions[p] = "paid" /\ Reports("completed", p) \notin due =>
                payments[p] = "completed" \/ Reports("expired", p) \in posted
        /\ sessions[p] = "expired" /\ Reports("expired", p) \notin due =>
                payments[p] \in {"none", "expired"} \/ Reports("completed", p) \in posted

\* A tenant is on a plan other than the free one only if a subscription once put it there
\* (one that names no plan means fleet), or somebody else's post that named the tenant and
\* the plan; and the limits it is shown, which are that plan's, are the stored ones
\* (stripe.ts 238-250, 284-329, 464-494).
PlanWasBought ==
    \A t \in Tenants :
        /\ Subscription(t) = plans[t]
        /\ plans[t].plan # "launch" =>
            \E e \in (sent \cup posted) \cap PlanEvents :
                e.tenant = t /\ PlanOf(e) = plans[t].plan

\* A payment that the customer made ends as completed and reads so from then on, unless
\* somebody else's post said that it expired (stripe.ts 238-281, 343-369).
PaidGetsCompleted ==
    \A p \in PaymentIds :
        sessions[p] = "paid" ~>
            [](PaymentStatus(p) = "completed" \/ Reports("expired", p) \in posted)
================================================================================
