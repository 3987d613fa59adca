------------------------------ MODULE RoutesProofs ------------------------------
(***************************************************************************)
(* What holds of the parts that MCRoutes puts side by side, for every      *)
(* value of their constants.  A step of MCNext is a step of one part, or   *)
(* leaves its variables alone (StepOfParts); the rest is about the parts.  *)
(*                                                                         *)
(* Payments: a session is paid only by a customer who has its URL, and the *)
(* URL is answered after the row is stored, so the event of a paid session *)
(* always finds its row; and one session is never both paid and expired,   *)
(* so no two events of Stripe write different things to its row, and what  *)
(* the row says against its session, somebody else posted.                 *)
(*                                                                         *)
(* Start-up: what a process read of the marks was true when it read it,    *)
(* and a mark never goes; so what it wants to apply is wanted still, or    *)
(* fails as a whole.                                                       *)
(*                                                                         *)
(* Calculations: the arithmetic of the page and of the checkout is the     *)
(* same for any number of units; the encodings of two claims are equal     *)
(* only if their fields are; rounding keeps the order of two fractions, so *)
(* no score of a module is above the claimed one; and what a module makes  *)
(* of events counts them, or has the last of their kind, of which a bundle *)
(* has one, so their order does not matter.                                *)
(*                                                                         *)
(* Demonstrations: each route maps to the step of EscrowPromise or of      *)
(* OfferPromise that the contracts' function of that name maps to.         *)
(***************************************************************************)
EXTENDS MCRoutes, SumTheorems, SequenceTheorems

Paid(p) == [type |-> "completed", payment |-> p]
Expired(p) == [type |-> "expired", payment |-> p]

Statuses == {"none", "pending", "completed", "expired"}
SessionStates == {"none", "open", "paid", "expired"}

AllEvents == PaymentEvents \cup PlanEvents \cup EndEvents \cup OnlineEvents

-------------------------------------------------------------------------------
(* The inductive invariant *)

PaymentsTypeOK ==
    /\ checkout \subseteq PaymentIds
    /\ payments \in [PaymentIds -> Statuses]
    /\ checkoutUrls \subseteq PaymentIds
    /\ sessions \in [PaymentIds -> SessionStates]
    /\ sent \subseteq AllEvents
    /\ due \subseteq sent

\* A request that awaits Stripe has an open session, and no row.
AwaitedIsOpen == \A p \in checkout : sessions[p] = "open" /\ payments[p] = "none"

\* A URL that was answered has a row, and so has a session that was paid.
UrlHasRow ==
    /\ \A p \in checkoutUrls : payments[p] # "none"
    /\ \A p \in PaymentIds : sessions[p] = "paid" => payments[p] # "none"

\* A row has a session.
RowHasSession == \A p \in PaymentIds : payments[p] # "none" => sessions[p] # "none"

\* An event was sent for a session that is in the state it reports.
EventsTrue ==
    \A p \in PaymentIds :
        /\ Paid(p) \in sent => sessions[p] = "paid"
        /\ Expired(p) \in sent => sessions[p] = "expired"

\* A row says what became of its session, once the event was answered in any case, but for
\* what somebody else posted of it.
RowsAgree ==
    \A p \in PaymentIds :
        /\ payments[p] = "completed" => sessions[p] = "paid" \/ Paid(p) \in posted
        /\ payments[p] = "expired" => sessions[p] = "expired" \/ Expired(p) \in posted
        /\ sessions[p] = "paid" /\ Paid(p) \notin due =>
                payments[p] = "completed" \/ Expired(p) \in posted
        /\ sessions[p] = "expired" /\ Expired(p) \notin due =>
                payments[p] \in {"none", "expired"} \/ Paid(p) \in posted

PaymentsInv ==
    /\ PaymentsTypeOK
    /\ AwaitedIsOpen
    /\ UrlHasRow
    /\ RowHasSession
    /\ EventsTrue
    /\ RowsAgree

-------------------------------------------------------------------------------
(* Lemmas *)

LEMMA EventShape ==
    ASSUME NEW e \in PaymentEvents
    PROVE  /\ e.payment \in PaymentIds
           /\ e.type = "completed" => e = Paid(e.payment)
           /\ e.type = "expired" => e = Expired(e.payment)
           /\ e.type \in {"completed", "expired"}
BY DEF PaymentEvents, Paid, Expired

LEMMA PaymentEventTypes ==
    ASSUME NEW p \in PaymentIds
    PROVE  /\ Paid(p) \in PaymentEvents /\ Expired(p) \in PaymentEvents
           /\ Paid(p).payment = p /\ Expired(p).payment = p
           /\ Paid(p).type = "completed" /\ Expired(p).type = "expired"
           /\ \A q \in PaymentIds : Paid(p) # Expired(q)
           /\ \A q \in PaymentIds : Paid(p) = Paid(q) => p = q
           /\ \A q \in PaymentIds : Expired(p) = Expired(q) => p = q
BY DEF PaymentEvents, Paid, Expired

LEMMA PlanEventsApart ==
    ASSUME NEW p \in PaymentIds
    PROVE  /\ Paid(p) \notin PlanEvents \cup EndEvents \cup OnlineEvents
           /\ Expired(p) \notin PlanEvents \cup EndEvents \cup OnlineEvents
<1>1. Paid(p).type = "completed" /\ Expired(p).type = "expired"
    BY PaymentEventTypes
<1>2. \A e \in PlanEvents \cup EndEvents : e.type \in {"subscribed", "deleted"}
    BY DEF PlanEvents, EndEvents
<1>3. DOMAIN Paid(p) = {"type", "payment"} /\ DOMAIN Expired(p) = {"type", "payment"}
    BY DEF Paid, Expired
<1>4. \A e \in OnlineEvents : DOMAIN e = {"type"}
    BY DEF OnlineEvents
<1> QED
    BY <1>1, <1>2, <1>3, <1>4

\* What a delivery does to the row of a payment.
LEMMA DeliveredRow ==
    ASSUME PaymentsTypeOK, NEW e, NEW p \in PaymentIds
    PROVE  /\ PaymentsAfter(e) \in [PaymentIds -> Statuses]
           /\ e = Paid(p) /\ payments[p] # "none" => PaymentsAfter(e)[p] = "completed"
           /\ e = Expired(p) /\ payments[p] # "none" => PaymentsAfter(e)[p] = "expired"
           /\ e \notin {Paid(p), Expired(p)} => PaymentsAfter(e)[p] = payments[p]
           /\ payments[p] = "none" => PaymentsAfter(e)[p] = "none"
<1>1. CASE e \in PaymentEvents /\ payments[e.payment] # "none"
    <2>1. PaymentsAfter(e) = [payments EXCEPT ![e.payment] = e.type]
        BY <1>1 DEF PaymentsAfter
    <2>2. payments \in [PaymentIds -> Statuses]
        BY DEF PaymentsTypeOK
    <2> QED
        BY <1>1, <2>1, <2>2, EventShape, PaymentEventTypes DEF Statuses
<1>2. CASE ~(e \in PaymentEvents /\ payments[e.payment] # "none")
    <2>1. PaymentsAfter(e) = payments
        BY <1>2 DEF PaymentsAfter
    <2> QED
        BY <1>2, <2>1, PaymentEventTypes DEF PaymentsTypeOK
<1> QED
    BY <1>1, <1>2

-------------------------------------------------------------------------------
(* Initially *)

LEMMA InitInv == PaymentsInit => PaymentsInv
BY DEF PaymentsInit, PaymentsInv, PaymentsTypeOK, AwaitedIsOpen, UrlHasRow, RowHasSession,
       EventsTrue, RowsAgree, Statuses, SessionStates

-------------------------------------------------------------------------------
(* The steps *)

LEMMA AskKeeps ==
    ASSUME PaymentsInv, NEW p \in PaymentIds, AskForSession(p)
    PROVE  PaymentsInv'
BY DEF PaymentsInv, PaymentsTypeOK, AwaitedIsOpen, UrlHasRow, RowHasSession,
       EventsTrue, RowsAgree, Statuses, SessionStates, AskForSession

LEMMA AnswerKeeps ==
    ASSUME PaymentsInv, NEW p \in PaymentIds, NEW answered \in BOOLEAN,
           AnswerCheckout(p, answered)
    PROVE  PaymentsInv'
BY DEF PaymentsInv, PaymentsTypeOK, AwaitedIsOpen, UrlHasRow, RowHasSession,
       EventsTrue, RowsAgree, Statuses, SessionStates, AnswerCheckout, Stored,
       stripeVars

LEMMA LoseKeeps ==
    ASSUME PaymentsInv, NEW p \in PaymentIds, LoseCheckout(p)
    PROVE  PaymentsInv'
BY DEF PaymentsInv, PaymentsTypeOK, AwaitedIsOpen, UrlHasRow, RowHasSession,
       EventsTrue, RowsAgree, Statuses, SessionStates, LoseCheckout, stripeVars

\* The rows that there are stay, and no others come.
LEMMA HandledRows ==
    ASSUME PaymentsInv, NEW e, Handle(e)
    PROVE  /\ payments' = PaymentsAfter(e)
           /\ payments' \in [PaymentIds -> Statuses]
           /\ \A p \in PaymentIds : payments[p] = "none" <=> payments'[p] = "none"
<1>1. payments' = PaymentsAfter(e) /\ PaymentsTypeOK
    BY DEF Handle, PaymentsInv
<1>2. payments' \in [PaymentIds -> Statuses]
    <2>1. CASE PaymentIds = {}
        <3>1. e \notin PaymentEvents
            BY <2>1, EventShape
        <3> QED
            BY <1>1, <3>1 DEF PaymentsAfter, PaymentsTypeOK
    <2>2. CASE PaymentIds # {}
        BY <1>1, <2>2, DeliveredRow
    <2> QED
        BY <2>1, <2>2
<1> QED
    BY <1>1, <1>2, DeliveredRow

LEMMA DeliverKeeps ==
    ASSUME PaymentsInv, NEW e \in sent, NEW answered \in BOOLEAN, Deliver(e, answered)
    PROVE  PaymentsInv'
<1> USE DEF PaymentsInv
<1>1. /\ Handle(e)
      /\ due' = IF answered THEN due \ {e} ELSE due
      /\ UNCHANGED <<checkout, checkoutUrls, sessions, sent, posted>>
    BY DEF Deliver
<1>2. PaymentsTypeOK'
    BY <1>1, HandledRows DEF PaymentsTypeOK
<1>3. payments' = PaymentsAfter(e)
    BY <1>1, HandledRows
<1>4. AwaitedIsOpen' /\ UrlHasRow' /\ RowHasSession' /\ EventsTrue'
    <2>1. \A p \in PaymentIds : payments[p] = "none" <=> payments'[p] = "none"
        BY <1>1, HandledRows
    <2>2. AwaitedIsOpen'
        BY <1>1, <2>1 DEF AwaitedIsOpen, PaymentsTypeOK
    <2>3. UrlHasRow' /\ RowHasSession'
        BY <1>1, <2>1 DEF UrlHasRow, RowHasSession, PaymentsTypeOK
    <2>4. EventsTrue'
        BY <1>1 DEF EventsTrue
    <2> QED
        BY <2>2, <2>3, <2>4
<1>5. RowsAgree'
    <2> SUFFICES ASSUME NEW p \in PaymentIds
        PROVE  /\ payments'[p] = "completed" => sessions[p] = "paid" \/ Paid(p) \in posted
               /\ payments'[p] = "expired" => sessions[p] = "expired" \/ Expired(p) \in posted
               /\ sessions[p] = "paid" /\ Paid(p) \notin due' =>
                        payments'[p] = "completed" \/ Expired(p) \in posted
               /\ sessions[p] = "expired" /\ Expired(p) \notin due' =>
                        payments'[p] \in {"none", "expired"} \/ Paid(p) \in posted
        BY <1>1 DEF RowsAgree, Paid, Expired
    <2>0. /\ payments[p] = "completed" => sessions[p] = "paid" \/ Paid(p) \in posted
          /\ payments[p] = "expired" => sessions[p] = "expired" \/ Expired(p) \in posted
          /\ sessions[p] = "paid" /\ Paid(p) \notin due =>
                payments[p] = "completed" \/ Expired(p) \in posted
          /\ sessions[p] = "expired" /\ Expired(p) \notin due =>
                payments[p] \in {"none", "expired"} \/ Paid(p) \in posted
        BY DEF RowsAgree, Paid, Expired
    <2>1. CASE e = Paid(p)
        <3>1. sessions[p] = "paid" /\ payments[p] # "none"
            BY <2>1 DEF EventsTrue, UrlHasRow
        <3>2. payments'[p] = "completed"
            BY <1>3, <2>1, <3>1, DeliveredRow
        <3> QED
            BY <3>1, <3>2
    <2>2. CASE e = Expired(p)
        <3>1. sessions[p] = "expired"
            BY <2>2 DEF EventsTrue
        <3>2. payments'[p] \in {"none", "expired"}
            BY <1>3, <2>2, DeliveredRow
        <3> QED
            BY <3>1, <3>2
    <2>3. CASE e \notin {Paid(p), Expired(p)}
        <3>1. payments'[p] = payments[p]
            BY <1>3, <2>3, DeliveredRow
        <3>2. (Paid(p) \in due' <=> Paid(p) \in due) /\ (Expired(p) \in due' <=> Expired(p) \in due)
            BY <1>1, <2>3
        <3> QED
            BY <2>0, <3>1, <3>2
    <2> QED
        BY <2>1, <2>2, <2>3
<1> QED
    BY <1>2, <1>4, <1>5

LEMMA PostKeeps ==
    ASSUME PaymentsInv, NEW e \in EventsWithRow, PostUnsigned(e)
    PROVE  PaymentsInv'
<1> USE DEF PaymentsInv
<1>1. /\ Handle(e)
      /\ posted' = posted \cup {e}
      /\ UNCHANGED <<checkout, checkoutUrls, sessions, due, sent>>
    BY DEF PostUnsigned
<1>2. PaymentsTypeOK'
    BY <1>1, HandledRows DEF PaymentsTypeOK
<1>3. payments' = PaymentsAfter(e)
    BY <1>1, HandledRows
<1>4. AwaitedIsOpen' /\ UrlHasRow' /\ RowHasSession' /\ EventsTrue'
    <2>1. \A p \in PaymentIds : payments[p] = "none" <=> payments'[p] = "none"
        BY <1>1, HandledRows
    <2>2. AwaitedIsOpen'
        BY <1>1, <2>1 DEF AwaitedIsOpen, PaymentsTypeOK
    <2>3. UrlHasRow' /\ RowHasSession'
        BY <1>1, <2>1 DEF UrlHasRow, RowHasSession, PaymentsTypeOK
    <2>4. EventsTrue'
        BY <1>1 DEF EventsTrue
    <2> QED
        BY <2>2, <2>3, <2>4
<1>5. RowsAgree'
    <2> SUFFICES ASSUME NEW p \in PaymentIds
        PROVE  /\ payments'[p] = "completed" => sessions[p] = "paid" \/ Paid(p) \in posted'
               /\ payments'[p] = "expired" => sessions[p] = "expired" \/ Expired(p) \in posted'
               /\ sessions[p] = "paid" /\ Paid(p) \notin due =>
                        payments'[p] = "completed" \/ Expired(p) \in posted'
               /\ sessions[p] = "expired" /\ Expired(p) \notin due =>
                        payments'[p] \in {"none", "expired"} \/ Paid(p) \in posted'
        BY <1>1 DEF RowsAgree, Paid, Expired
    <2>0. /\ payments[p] = "completed" => sessions[p] = "paid" \/ Paid(p) \in posted
          /\ payments[p] = "expired" => sessions[p] = "expired" \/ Expired(p) \in posted
          /\ sessions[p] = "paid" /\ Paid(p) \notin due =>
                payments[p] = "completed" \/ Expired(p) \in posted
          /\ sessions[p] = "expired" /\ Expired(p) \notin due =>
                payments[p] \in {"none", "expired"} \/ Paid(p) \in posted
        BY DEF RowsAgree, Paid, Expired
    <2>1. CASE e = Paid(p)
        <3>1. payments'[p] \in {"none", "completed"}
            BY <1>3, <2>1, DeliveredRow
        <3>2. sessions[p] = "paid" => payments'[p] = "completed"
            BY <1>3, <2>1, DeliveredRow DEF UrlHasRow
        <3> QED
            BY <1>1, <2>1, <3>1, <3>2
    <2>2. CASE e = Expired(p)
        <3>1. payments'[p] \in {"none", "expired"}
            BY <1>3, <2>2, DeliveredRow
        <3> QED
            BY <1>1, <2>2, <3>1
    <2>3. CASE e \notin {Paid(p), Expired(p)}
        <3>1. payments'[p] = payments[p]
            BY <1>3, <2>3, DeliveredRow
        <3> QED
            BY <1>1, <2>0, <3>1
    <2> QED
        BY <2>1, <2>2, <2>3
<1> QED
    BY <1>2, <1>4, <1>5

LEMMA PaysKeeps ==
    ASSUME PaymentsInv, NEW p \in PaymentIds, CustomerPays(p)
    PROVE  PaymentsInv'
<1> USE DEF PaymentsInv
<1>1. /\ sessions' = [sessions EXCEPT ![p] = "paid"]
      /\ sent' = sent \cup {Paid(p)}
      /\ due' = due \cup {Paid(p)}
      /\ UNCHANGED <<checkout, payments, checkoutUrls, posted>>
      /\ sessions[p] = "open" /\ payments[p] # "none"
    BY DEF CustomerPays, Emit, Paid, UrlHasRow
<1>2. PaymentsTypeOK'
    BY <1>1, PaymentEventTypes DEF PaymentsTypeOK, SessionStates, AllEvents
<1>3. AwaitedIsOpen' /\ UrlHasRow' /\ RowHasSession'
    BY <1>1 DEF AwaitedIsOpen, UrlHasRow, RowHasSession, PaymentsTypeOK
<1>4. EventsTrue'
    BY <1>1, PaymentEventTypes DEF EventsTrue, PaymentsTypeOK
<1>5. RowsAgree'
    BY <1>1, PaymentEventTypes DEF RowsAgree, PaymentsTypeOK, Paid, Expired
<1> QED
    BY <1>2, <1>3, <1>4, <1>5

LEMMA ExpiresKeeps ==
    ASSUME PaymentsInv, NEW p \in PaymentIds, SessionExpires(p)
    PROVE  PaymentsInv'
<1> USE DEF PaymentsInv
<1>1. /\ sessions' = [sessions EXCEPT ![p] = "expired"]
      /\ sent' = sent \cup {Expired(p)}
      /\ due' = due \cup {Expired(p)}
      /\ UNCHANGED <<checkout, payments, checkoutUrls, posted>>
      /\ sessions[p] = "open" /\ p \notin checkout
    BY DEF SessionExpires, Emit, Expired
<1>2. PaymentsTypeOK'
    BY <1>1, PaymentEventTypes DEF PaymentsTypeOK, SessionStates, AllEvents
<1>3. AwaitedIsOpen' /\ UrlHasRow' /\ RowHasSession'
    BY <1>1 DEF AwaitedIsOpen, UrlHasRow, RowHasSession, PaymentsTypeOK
<1>4. EventsTrue'
    BY <1>1, PaymentEventTypes DEF EventsTrue, PaymentsTypeOK
<1>5. RowsAgree'
    BY <1>1, PaymentEventTypes DEF RowsAgree, PaymentsTypeOK, Paid, Expired
<1> QED
    BY <1>2, <1>3, <1>4, <1>5

LEMMA PlanEventKeeps ==
    ASSUME PaymentsInv, NEW e \in PlanEvents \cup EndEvents \cup OnlineEvents, Emit(e),
           UNCHANGED <<checkout, payments, checkoutUrls, sessions, posted>>
    PROVE  PaymentsInv'
<1> USE DEF PaymentsInv
<1>1. sent' = sent \cup {e} /\ due' = due \cup {e}
    BY DEF Emit
<1>2. \A p \in PaymentIds : e # Paid(p) /\ e # Expired(p)
    BY PlanEventsApart
<1>3. PaymentsTypeOK'
    BY <1>1 DEF PaymentsTypeOK, AllEvents
<1>4. AwaitedIsOpen' /\ UrlHasRow' /\ RowHasSession'
    BY DEF AwaitedIsOpen, UrlHasRow, RowHasSession
<1>5. EventsTrue'
    BY <1>1, <1>2 DEF EventsTrue
<1>6. RowsAgree'
    BY <1>1, <1>2 DEF RowsAgree, Paid, Expired
<1> QED
    BY <1>3, <1>4, <1>5, <1>6

LEMMA StepKeeps == PaymentsInv /\ [PaymentsNext]_payVars => PaymentsInv'
<1> SUFFICES ASSUME PaymentsInv, [PaymentsNext]_payVars
    PROVE  PaymentsInv'
    OBVIOUS
<1>1. ASSUME NEW p \in PaymentIds, CheckoutStep(p)
      PROVE  PaymentsInv'
    BY <1>1, AskKeeps, AnswerKeeps, LoseKeeps DEF CheckoutStep
<1>2. ASSUME NEW e \in sent, NEW answered \in BOOLEAN, Deliver(e, answered)
      PROVE  PaymentsInv'
    BY <1>2, DeliverKeeps
<1>3. ASSUME NEW p \in PaymentIds, CustomerPays(p) \/ SessionExpires(p)
      PROVE  PaymentsInv'
    BY <1>3, PaysKeeps, ExpiresKeeps
<1>4. ASSUME NEW t \in Tenants, NEW plan \in MetadataPlans, Subscribe(t, plan)
      PROVE  PaymentsInv'
    <2>1. [type |-> "subscribed", tenant |-> t, plan |-> plan] \in PlanEvents
        BY DEF PlanEvents
    <2> QED
        BY <1>4, <2>1, PlanEventKeeps DEF Subscribe
<1>5. ASSUME NEW t \in Tenants, Unsubscribe(t)
      PROVE  PaymentsInv'
    <2>1. [type |-> "deleted", tenant |-> t] \in EndEvents
        BY DEF EndEvents
    <2> QED
        BY <1>5, <2>1, PlanEventKeeps DEF Unsubscribe
<1>6. ASSUME NEW plan \in MetadataPlans, SubscribeOnline(plan)
      PROVE  PaymentsInv'
    BY <1>6, PlanEventKeeps DEF SubscribeOnline
<1>7. ASSUME NEW e \in EventsWithRow, PostUnsigned(e)
      PROVE  PaymentsInv'
    BY <1>7, PostKeeps
<1>8. CASE UNCHANGED payVars
    BY <1>8 DEF payVars, stripeVars, PaymentsInv, PaymentsTypeOK, AwaitedIsOpen, UrlHasRow,
                RowHasSession, EventsTrue, RowsAgree
<1> QED
    BY <1>1, <1>2, <1>3, <1>4, <1>5, <1>6, <1>7, <1>8 DEF PaymentsNext, StripeStep

-------------------------------------------------------------------------------
(* Theorems *)

\* Rows and sessions agree however often and in whatever order Stripe reports them, but for
\* what others posted of the same payment, for any number of payments and of posts and with or
\* without the secret (stripe.ts 150-155, 227-336).
THEOREM RowsMatchStripe == PaymentsSpec => []PaymentsMatchStripe
<1>1. PaymentsInv => PaymentsMatchStripe
    BY DEF PaymentsInv, PaymentsTypeOK, UrlHasRow, RowsAgree, PaymentsMatchStripe, SuccessPage,
           SessionAnswer, Statuses, Paid, Expired, Reports
<1> QED
    BY InitInv, StepKeeps, <1>1, PTL DEF PaymentsSpec

-------------------------------------------------------------------------------
(* Plans *)

LEMMA OnPlanShape == ASSUME NEW p PROVE OnPlan(p).plan = p
BY DEF OnPlan

LEMMA PlanEventShape ==
    ASSUME NEW e \in PlanEvents
    PROVE  e.tenant \in Tenants /\ e \notin EndEvents /\ e \notin PaymentEvents
BY DEF PlanEvents, EndEvents, PaymentEvents

LEMMA EndEventShape ==
    ASSUME NEW e \in EndEvents
    PROVE  e.tenant \in Tenants /\ e \notin PlanEvents /\ e \notin PaymentEvents
BY DEF PlanEvents, EndEvents, PaymentEvents

PlansInv == DOMAIN plans = Tenants /\ PlanWasBought

LEMMA PlansInitInv == PaymentsInit => PlansInv
<1> SUFFICES ASSUME PaymentsInit PROVE PlansInv
    OBVIOUS
<1>1. plans = [t \in Tenants |-> OnPlan("launch")]
    BY DEF PaymentsInit
<1>2. \A t \in Tenants : plans[t] = OnPlan("launch") /\ plans[t].plan = "launch"
    BY <1>1, OnPlanShape
<1> QED
    BY <1>1, <1>2 DEF PlansInv, PlanWasBought, Subscription

LEMMA PlansStepKeeps == PlansInv /\ [PaymentsNext]_payVars => PlansInv'
<1> SUFFICES ASSUME PlansInv, [PaymentsNext]_payVars
    PROVE  PlansInv'
    OBVIOUS
<1> USE DEF PlansInv
<1>1. CASE plans' = plans /\ sent \cup posted \subseteq sent' \cup posted'
    BY <1>1 DEF PlanWasBought, Subscription
<1>2. ASSUME NEW e, Handle(e), sent \cup posted \cup {e} = sent' \cup posted'
      PROVE  PlansInv'
    <2>0. plans' = PlansAfter(e) /\ sent \cup posted \cup {e} = sent' \cup posted'
        BY <1>2 DEF Handle
    <2>1. CASE e \in PlanEvents /\ PlanOf(e) \in DOMAIN PlanLimits
        <3>1. plans' = [plans EXCEPT ![e.tenant] = OnPlan(PlanOf(e))]
            BY <2>0, <2>1, PlanEventShape DEF PlansAfter
        <3>2. e.tenant \in Tenants
            BY <2>1, PlanEventShape
        <3>3. OnPlan(PlanOf(e)).plan = PlanOf(e)
            BY OnPlanShape
        <3> QED
            BY <2>0, <2>1, <3>1, <3>2, <3>3 DEF PlanWasBought, Subscription
    <2>2. CASE e \in EndEvents
        <3>1. plans' = [plans EXCEPT ![e.tenant] = OnPlan("launch")]
            BY <2>0, <2>2, EndEventShape DEF PlansAfter
        <3>2. OnPlan("launch").plan = "launch"
            BY OnPlanShape
        <3> QED
            BY <2>0, <2>2, <3>1, <3>2, EndEventShape DEF PlanWasBought, Subscription
    <2>3. CASE ~(e \in PlanEvents /\ PlanOf(e) \in DOMAIN PlanLimits) /\ e \notin EndEvents
        <3>1. plans' = plans
            BY <2>0, <2>3 DEF PlansAfter
        <3> QED
            BY <2>0, <3>1, <1>1
    <2> QED
        BY <2>1, <2>2, <2>3
<1>3. ASSUME NEW p \in PaymentIds, CheckoutStep(p)
      PROVE  plans' = plans /\ sent' = sent /\ posted' = posted
    BY <1>3 DEF CheckoutStep, AskForSession, AnswerCheckout, LoseCheckout, stripeVars
<1>4. ASSUME StripeStep
      PROVE  plans' = plans /\ sent \subseteq sent' /\ posted' = posted
    BY <1>4 DEF StripeStep, CustomerPays, SessionExpires, Subscribe, SubscribeOnline,
                Unsubscribe, Emit
<1>5. CASE UNCHANGED payVars
    BY <1>1, <1>5 DEF payVars, stripeVars
<1>6. ASSUME NEW e \in sent, NEW answered \in BOOLEAN, Deliver(e, answered)
      PROVE  PlansInv'
    BY <1>2, <1>6 DEF Deliver
<1>7. ASSUME NEW e \in EventsWithRow, PostUnsigned(e)
      PROVE  PlansInv'
    BY <1>2, <1>7 DEF PostUnsigned
<1> QED
    BY <1>1, <1>3, <1>4, <1>5, <1>6, <1>7 DEF PaymentsNext

\* Nobody is on a plan, or has limits, that no subscription and no post of another asked for,
\* whatever the order and number of the events, for any number of tenants and of posts
\* (stripe.ts 238-250, 284-329).
THEOREM PlansBought == PaymentsSpec => []PlanWasBought
<1>1. PlansInv => PlanWasBought
    BY DEF PlansInv
<1> QED
    BY PlansInitInv, PlansStepKeeps, <1>1, PTL DEF PaymentsSpec

-------------------------------------------------------------------------------
(* The parts of MCRoutes: a step of the whole is a step of one of them, and the others rest *)

LEMMA StepOfParts ==
    ASSUME [MCNext]_<<payVars, demoVars, demoOfferVars, asked, deploymentVars, startupVars, part>>
    PROVE  /\ [DemoNext]_demoVars
           /\ [DemoOfferNext]_demoOfferVars
           /\ [Ask]_asked
           /\ [StartupNext]_startupVars
BY DEF MCNext

-------------------------------------------------------------------------------
(* Start-up: what is recorded is always the files up to some one of them, and what a       *)
(* process read, which may be older, likewise; so the next file that it does not know is   *)
(* the next of all, unless another process was faster, when it fails.                      *)

Upto(n) == {Files[i] : i \in 1..n}

Phases == {"down", "opening", "migrating", "purging", "relayer", "up"}

StartupTypeOK ==
    /\ phase \in [Processes -> Phases]
    /\ release \in [Processes -> Releases]
    /\ config \in [Processes -> [relay : BOOLEAN, key : BOOLEAN]]
    /\ DOMAIN applied = Processes

\* The tables are those of the recorded files, and these have no gap.
WholeFiles ==
    /\ tables \ {"_migrations"} = recorded
    /\ \E n \in 0..7 : recorded = Upto(n)

\* What each process read and did since.
ReadFiles ==
    \A p \in Processes : applied[p] \subseteq recorded /\ \E m \in 0..7 : applied[p] = Upto(m)

\* A process that has passed its migrations applied or read all of them.
MigratedProcesses ==
    \A p \in Processes :
        phase[p] \in {"purging", "relayer", "up"} => Upto(release[p]) \subseteq applied[p]

CheckedServers == \A p \in Servers : phase[p] # "down" => ValidConfig(config[p])

StartupInv ==
    StartupTypeOK /\ WholeFiles /\ ReadFiles /\ MigratedProcesses /\ CheckedServers

LEMMA SevenFiles ==
    /\ Len(Files) = 7
    /\ \A i \in 1..7 : Files[i] # "_migrations"
    /\ \A i, j \in 1..7 : Files[i] = Files[j] => i = j
<1>1. Len(Files) = 7
    BY DEF Files
<1>2. \A i \in 1..7 : i = 1 \/ i = 2 \/ i = 3 \/ i = 4 \/ i = 5 \/ i = 6 \/ i = 7
    OBVIOUS
<1>3. /\ Files[1] = "001_idempotency" /\ Files[2] = "002_dlq" /\ Files[3] = "003_tenants"
      /\ Files[4] = "004_connect_tokens" /\ Files[5] = "005_job_completions"
      /\ Files[6] = "006_payments" /\ Files[7] = "007_tenant_plans"
    BY DEF Files
<1> QED
    BY <1>1, <1>2, <1>3

\* Which of the files are among the first n.
LEMMA AmongFirst ==
    ASSUME NEW n \in 0..7, NEW i \in 1..7
    PROVE  Files[i] \in Upto(n) <=> i <= n
<1>1. \A j \in 1..n : j \in 1..7
    OBVIOUS
<1> QED
    BY <1>1, SevenFiles DEF Upto

LEMMA UptoMonotone ==
    ASSUME NEW m \in 0..7, NEW n \in 0..7
    PROVE  Upto(m) \subseteq Upto(n) <=> m <= n
<1>1. CASE m <= n
    BY <1>1 DEF Upto
<1>2. CASE ~(m <= n)
    <2>1. m \in 1..7
        BY <1>2
    <2>2. Files[m] \in Upto(m) /\ Files[m] \notin Upto(n)
        BY <1>2, <2>1, AmongFirst
    <2> QED
        BY <1>2, <2>2
<1> QED
    BY <1>1, <1>2

LEMMA OneMore ==
    ASSUME NEW n \in 0..6
    PROVE  Upto(n + 1) = Upto(n) \cup {Files[n + 1]}
<1>1. 1..(n + 1) = 1..n \cup {n + 1}
    OBVIOUS
<1> QED
    BY <1>1 DEF Upto

\* A process that knows the first m files goes on with the one after them.
LEMMA NextIsAfter ==
    ASSUME NEW p \in Processes, release[p] \in Releases, NEW m \in 0..7, applied[p] = Upto(m)
    PROVE  /\ Pending(p) = {i \in 1..release[p] : m < i}
           /\ Pending(p) # {} => m \in 0..6 /\ NextFile(p) = Files[m + 1]
<1>1. release[p] \in 1..7
    BY DEF Releases
<1>2. Pending(p) = {i \in 1..release[p] : m < i}
    BY <1>1, AmongFirst DEF Pending
<1>3. ASSUME Pending(p) # {}
      PROVE  m \in 0..6 /\ NextFile(p) = Files[m + 1]
    <2>1. m < release[p]
        BY <1>1, <1>2, <1>3
    <2>2. m + 1 \in Pending(p) /\ \A j \in Pending(p) : m + 1 <= j
        BY <1>1, <1>2, <2>1
    <2>3. \A i \in Pending(p) : (\A j \in Pending(p) : i <= j) => i = m + 1
        BY <1>1, <1>2, <2>2
    <2>4. (CHOOSE i \in Pending(p) : \A j \in Pending(p) : i <= j) = m + 1
        BY <2>2, <2>3
    <2>5. NextFile(p) = Files[m + 1]
        BY <2>4, Zenon DEF NextFile
    <2> QED
        BY <1>1, <2>1, <2>5
<1> QED
    BY <1>2, <1>3

LEMMA StartupInitInv == StartupInit => StartupInv
<1> SUFFICES ASSUME StartupInit
             PROVE  StartupInv
    OBVIOUS
<1>1. Upto(0) = {} /\ 0 \in 0..7
    BY DEF Upto
<1>2. StartupTypeOK
    BY DEF StartupInit, StartupTypeOK, Phases, Releases
<1>3. WholeFiles /\ ReadFiles
    BY <1>1 DEF StartupInit, WholeFiles, ReadFiles
<1>4. MigratedProcesses /\ CheckedServers
    BY DEF StartupInit, MigratedProcesses, CheckedServers, Processes
<1> QED
    BY <1>2, <1>3, <1>4 DEF StartupInv

\* Steps of one process that leave the database and what the process read of it alone.
LEMMA QuietStep ==
    ASSUME StartupInv, NEW p \in Processes, NEW next \in Phases,
           Enter(p, next), UNCHANGED <<release, config, applied, tables, recorded>>,
           next \in {"purging", "relayer", "up"} => Upto(release[p]) \subseteq applied[p],
           phase[p] # "down"
    PROVE  StartupInv'
<1> USE DEF StartupInv
<1>1. StartupTypeOK'
    BY DEF StartupTypeOK, Enter
<1>2. WholeFiles' /\ ReadFiles'
    BY DEF WholeFiles, ReadFiles
<1>3. \A q \in Processes : phase'[q] = IF q = p THEN next ELSE phase[q]
    BY DEF Enter, StartupTypeOK
<1>4. MigratedProcesses'
    BY <1>3 DEF MigratedProcesses
<1>5. CheckedServers'
    BY <1>3 DEF CheckedServers, Processes
<1> QED
    BY <1>1, <1>2, <1>4, <1>5

\* A process that ends forgets what it read.
LEMMA DownKeeps ==
    ASSUME StartupInv, NEW p \in Processes, Down(p), UNCHANGED <<release, config, tables, recorded>>
    PROVE  StartupInv'
<1> USE DEF StartupInv
<1>1. \A q \in Processes : /\ phase'[q] = IF q = p THEN "down" ELSE phase[q]
                           /\ applied'[q] = IF q = p THEN {} ELSE applied[q]
    BY DEF Down, Enter, StartupTypeOK
<1>2. StartupTypeOK'
    BY DEF StartupTypeOK, Down, Enter, Phases
<1>3. WholeFiles'
    BY DEF WholeFiles
<1>4. Upto(0) = {} /\ 0 \in 0..7
    BY DEF Upto
<1>5. ReadFiles'
    BY <1>1, <1>4 DEF ReadFiles
<1>6. MigratedProcesses'
    BY <1>1 DEF MigratedProcesses
<1>7. CheckedServers'
    BY <1>1 DEF CheckedServers, Processes
<1> QED
    BY <1>2, <1>3, <1>5, <1>6, <1>7

LEMMA StartKeeps ==
    ASSUME StartupInv, NEW p \in Processes, NEW r \in Releases,
           NEW c \in [relay : BOOLEAN, key : BOOLEAN], StartProcess(p, r, c)
    PROVE  StartupInv'
<1> USE DEF StartupInv, StartProcess
<1>1. \A q \in Processes : /\ phase'[q] = IF q = p THEN "opening" ELSE phase[q]
                           /\ release'[q] = IF q = p THEN r ELSE release[q]
                           /\ config'[q] = IF q = p THEN c ELSE config[q]
    BY DEF Enter, StartupTypeOK
<1>2. StartupTypeOK'
    BY DEF StartupTypeOK, Enter, Phases
<1>3. WholeFiles' /\ ReadFiles'
    BY DEF WholeFiles, ReadFiles
<1>4. MigratedProcesses'
    BY <1>1 DEF MigratedProcesses
<1>5. CheckedServers'
    BY <1>1 DEF CheckedServers, Processes
<1> QED
    BY <1>2, <1>3, <1>4, <1>5

LEMMA CreateListKeeps ==
    ASSUME StartupInv, NEW p \in Processes, CreateList(p)
    PROVE  StartupInv'
<1> USE DEF StartupInv, CreateList
<1>1. StartupTypeOK' /\ MigratedProcesses' /\ CheckedServers' /\ ReadFiles'
    BY DEF StartupTypeOK, MigratedProcesses, CheckedServers, ReadFiles
<1>2. WholeFiles'
    BY DEF WholeFiles
<1> QED
    BY <1>1, <1>2

LEMMA ReadKeeps ==
    ASSUME StartupInv, NEW p \in Processes, ReadApplied(p)
    PROVE  StartupInv'
<1> USE DEF StartupInv, ReadApplied
<1>1. \A q \in Processes : /\ phase'[q] = IF q = p THEN "migrating" ELSE phase[q]
                           /\ applied'[q] = IF q = p THEN recorded ELSE applied[q]
    BY DEF Enter, StartupTypeOK
<1>2. StartupTypeOK'
    BY DEF StartupTypeOK, Enter, Phases
<1>3. WholeFiles'
    BY DEF WholeFiles
<1>4. ReadFiles'
    BY <1>1 DEF ReadFiles, WholeFiles
<1>5. MigratedProcesses'
    BY <1>1 DEF MigratedProcesses
<1>6. CheckedServers'
    BY <1>1 DEF CheckedServers, Processes
<1> QED
    BY <1>2, <1>3, <1>4, <1>5, <1>6

LEMMA MigrateKeeps ==
    ASSUME StartupInv, NEW p \in Processes, phase[p] = "migrating", Pending(p) # {},
           Runs(NextFile(p)), Migrate(p, NextFile(p)), UNCHANGED <<release, config>>
    PROVE  StartupInv'
<1> USE DEF StartupInv
<1>1. PICK n \in 0..7 : recorded = Upto(n)
    BY DEF WholeFiles
<1>2. PICK m \in 0..7 : applied[p] = Upto(m)
    BY DEF ReadFiles
<1>3. m \in 0..6 /\ NextFile(p) = Files[m + 1]
    BY <1>2, NextIsAfter DEF StartupTypeOK
<1>4. m <= n
    BY <1>1, <1>2, UptoMonotone DEF ReadFiles
<1>5. Files[m + 1] \notin recorded
    BY <1>3 DEF Runs
<1>6. m = n
    BY <1>1, <1>3, <1>4, <1>5, AmongFirst
<1> DEFINE file == Files[m + 1]
<1>7. file # "_migrations"
    BY <1>3, SevenFiles
<1> HIDE DEF file
<1>8. /\ tables' = tables \cup {file}
      /\ recorded' = recorded \cup {file}
      /\ applied' = [applied EXCEPT ![p] = @ \cup {file}]
      /\ phase' = phase
    BY <1>3 DEF Migrate, file
<1>9. recorded' = Upto(m + 1) /\ applied'[p] = Upto(m + 1) /\ m + 1 \in 0..7
    BY <1>1, <1>2, <1>3, <1>6, <1>8, OneMore DEF file, StartupTypeOK
<1>10. \A q \in Processes \ {p} : applied'[q] = applied[q]
    BY <1>8 DEF StartupTypeOK
<1>11. StartupTypeOK'
    BY <1>8 DEF StartupTypeOK
<1>12. WholeFiles'
    BY <1>7, <1>8, <1>9 DEF WholeFiles
<1>13. ReadFiles'
    BY <1>8, <1>9, <1>10 DEF ReadFiles
<1>14. \A q \in Processes : applied[q] \subseteq applied'[q]
    BY <1>8, <1>10 DEF StartupTypeOK
<1>15. MigratedProcesses'
    BY <1>8, <1>14 DEF MigratedProcesses
<1>16. CheckedServers'
    BY <1>8 DEF CheckedServers
<1> QED
    BY <1>11, <1>12, <1>13, <1>15, <1>16

LEMMA StartupStepKeeps == StartupInv /\ [StartupNext]_startupVars => StartupInv'
<1> SUFFICES ASSUME StartupInv, [StartupNext]_startupVars
             PROVE  StartupInv'
    OBVIOUS
<1>1. CASE UNCHANGED startupVars
    BY <1>1 DEF startupVars, StartupInv, StartupTypeOK, WholeFiles, ReadFiles, MigratedProcesses,
                CheckedServers
<1>2. ASSUME NEW p \in Processes, NEW r \in Releases, NEW relay \in BOOLEAN, NEW key \in BOOLEAN,
             StartProcess(p, r, [relay |-> relay, key |-> key])
      PROVE  StartupInv'
    <2>1. [relay |-> relay, key |-> key] \in [relay : BOOLEAN, key : BOOLEAN]
        OBVIOUS
    <2> QED
        BY <1>2, <2>1, StartKeeps
<1>3. ASSUME NEW p \in Processes, ApplyNext(p)
      PROVE  StartupInv'
    BY <1>3, MigrateKeeps, DownKeeps DEF ApplyNext
<1>4. ASSUME NEW p \in Processes, AllApplied(p)
      PROVE  StartupInv'
    <2>1. PICK m \in 0..7 : applied[p] = Upto(m)
        BY DEF StartupInv, ReadFiles
    <2>2. release[p] \in Releases
        BY DEF StartupInv, StartupTypeOK
    <2>3. release[p] \in 0..7 /\ {i \in 1..release[p] : m < i} = {}
        BY <1>4, <2>1, <2>2, NextIsAfter DEF AllApplied, Releases
    <2>4. release[p] <= m
        BY <2>3
    <2>5. Upto(release[p]) \subseteq applied[p]
        BY <2>1, <2>3, <2>4, UptoMonotone
    <2> QED
        BY <1>4, <2>5, QuietStep DEF AllApplied, Phases
<1>5. ASSUME NEW p \in Processes, PurgeExpiredTokens(p) \/ Listen(p)
      PROVE  StartupInv'
    <2>1. Upto(release[p]) \subseteq applied[p]
        BY <1>5 DEF StartupInv, MigratedProcesses, PurgeExpiredTokens, Listen
    <2> QED
        BY <1>5, <2>1, QuietStep DEF PurgeExpiredTokens, Listen, Phases
<1>6. ASSUME NEW p \in Processes, Stop(p)
      PROVE  StartupInv'
    BY <1>6, DownKeeps DEF Stop
<1> QED
    BY <1>1, <1>2, <1>3, <1>4, <1>5, <1>6, CreateListKeeps, ReadKeeps DEF StartupNext

\* The schema is that of the files recorded, these have no gap, and who is up finds all of
\* its own, whatever processes of whatever releases start, migrate and are killed at once
\* (db/index.ts 79-139).
THEOREM SchemaFollows == MCSpec => []SchemaFollowsMigrations
<1>1. StartupInv => SchemaFollowsMigrations
    <2> SUFFICES ASSUME StartupInv
                 PROVE  SchemaFollowsMigrations
        OBVIOUS
    <2>1. Len(Files) = 7
        BY SevenFiles
    <2>2. tables \ {"_migrations"} = recorded /\ \E n \in 0..7 : recorded = Upto(n)
        BY DEF StartupInv, WholeFiles
    <2>3. \A p \in Processes : phase[p] = "up" => Upto(release[p]) \subseteq tables
        BY <2>2 DEF StartupInv, MigratedProcesses, ReadFiles
    <2>4. \A p \in Processes : phase[p] = "up" /\ p \in Servers /\ config[p].relay => config[p].key
        BY DEF StartupInv, CheckedServers, ValidConfig
    <2> QED
        BY <2>1, <2>2, <2>3, <2>4 DEF SchemaFollowsMigrations, Upto
<1>2. MCInit => StartupInv
    BY StartupInitInv DEF MCInit
<1>3. StartupInv /\ [MCNext]_<<payVars, demoVars, demoOfferVars, asked, deploymentVars,
                               startupVars, part>> => StartupInv'
    BY StepOfParts, StartupStepKeeps
<1> QED
    BY <1>1, <1>2, <1>3, PTL DEF MCSpec

-------------------------------------------------------------------------------
(* Calculations *)

\* An adjustment in percent of an amount in whole dollars has no fraction of a cent to round.
LEMMA NoFraction ==
    ASSUME NEW k \in Nat
    PROVE  RoundedCents(100 * k, 100) = k
<1>1. RoundedCents(100 * k, 100) = (200 * k + 100) \div 200
    BY DEF RoundedCents
<1>2. (200 * k + 100) \div 200 = k
    OBVIOUS
<1> QED
    BY <1>1, <1>2

\* The lists of prices and of fees that are written out in different places are the same.
LEMMA SameLists ==
    /\ PageUsd = RateUsd
    /\ \A list \in PriceLists : list = RateUsd
    /\ \A fees \in FeeLists : fees = RateFees
BY DEF PageUsd, PriceLists, FeeLists, RegistryUsd, RateUsd, RateFees, FallbackFees

\* The price by card is the published price, for any number of units.
LEMMA SameGrossTotal ==
    ASSUME NEW s \in Services, NEW units \in Nat, NEW t \in QualityTiers
    PROVE  /\ GrossTotal(s, units, t) \in Nat
           /\ GrossTotal(s, units, t) = RateUsd[s] * units * QualityPercent[t]
           /\ units # 0 => GrossTotal(s, units, t) >= 10000
<1>1. RateUsd[s] \in Nat /\ RateUsd[s] >= 100 /\ BaseCents[s] = 100 * RateUsd[s]
    BY DEF RateUsd, BaseCents, Services
<1>2. QualityPercent[t] \in {100, 115, 130}
    BY DEF QualityPercent, QualityTiers
<1> DEFINE dollars == RateUsd[s] * units
           percent == QualityPercent[t] - 100
<1>3. dollars \in Nat /\ percent \in {0, 15, 30} /\ QualityPercent[t] = 100 + percent
    BY <1>1, <1>2
<1>4. Subtotal(s, units) = 100 * dollars
    BY <1>1 DEF Subtotal
<1>5. RateUsd[s] * units * QualityPercent[t] = dollars * (100 + percent)
    BY <1>3
<1>6. GrossTotal(s, units, t) = 100 * dollars + RoundedCents((100 * dollars) * percent, 100)
    BY <1>4 DEF GrossTotal
<1>7. units # 0 => dollars >= 100
    BY <1>1
<1> HIDE DEF dollars, percent
<1>8. (100 * dollars) * percent = 100 * (dollars * percent) /\ dollars * percent \in Nat
    BY <1>3
<1>9. RoundedCents((100 * dollars) * percent, 100) = dollars * percent
    BY <1>8, NoFraction
<1>10. dollars * (100 + percent) = 100 * dollars + dollars * percent
    BY <1>3
<1>11. GrossTotal(s, units, t) = 100 * dollars + dollars * percent
    BY <1>6, <1>9
<1> QED
    BY <1>3, <1>5, <1>7, <1>8, <1>10, <1>11

\* The fee is a fortieth, to the nearest cent.
LEMMA FeeIsNearest ==
    ASSUME NEW total \in Nat
    PROVE  1000 * PlatformFee(total) - 25 * total \in -500..500
<1>1. PlatformFee(total) = (2 * (total * 25) + 1000) \div 2000
    BY DEF PlatformFee, RoundedCents
<1> DEFINE fee == (2 * (total * 25) + 1000) \div 2000
<1>2. fee \in Int /\ 2000 * fee <= 50 * total + 1000 /\ 50 * total + 1000 < 2000 * fee + 2000
    OBVIOUS
<1> HIDE DEF fee
<1>3. 1000 * fee - 25 * total \in -500..500
    BY <1>2
<1> QED
    BY <1>1, <1>3 DEF fee

\* What is asked: a quote is answered by AskQuote, and every other request is of another kind.
LEMMA WhatIsAsked ==
    ASSUME Ask
    PROVE  \/ \E fees \in FeeLists, s \in Services, units \in QuotedUnits, t \in QualityTiers :
                AskQuote(fees, s, units, t)
           \/ asked'.kind \in Completions \cup {"built"}
           \/ \E signedType, type \in Versions, by \in {"controller", "stranger"}, domain \in Domains :
              \E signer \in Signers(signedType), signed \in Claims(signedType),
                 presented \in Claims(type) :
                AskClaim(signer, by, domain, signedType, signed, type, presented)
<1>1. ASSUME NEW kind, NEW ordinary, NEW leeway, NEW claimed, NEW recomputed, NEW module,
             Scored(kind, ordinary, leeway, claimed, recomputed, module)
      PROVE  asked'.kind = kind
    BY <1>1 DEF Scored
<1>2. ASSUME NEW visited, NEW total, NEW artifacts, ScoreInspection(visited, total, artifacts)
      PROVE  asked'.kind \in Completions
    BY <1>1, <1>2 DEF ScoreInspection, Complete, Completions
<1>3. ASSUME NEW visited, NEW dwell, NEW expected, NEW required, NEW minDwell,
             ScorePatrol(visited, dwell, expected, required, minDwell)
      PROVE  asked'.kind \in Completions
    BY <1>1, <1>3 DEF ScorePatrol, Complete, Completions
<1>4. ASSUME NEW pickup, NEW dropoff, NEW route, NEW end, NEW dropoffTs, NEW from, NEW to,
             ScoreDelivery(pickup, dropoff, route, end, dropoffTs, from, to)
      PROVE  asked'.kind \in Completions
    BY <1>1, <1>4 DEF ScoreDelivery, Complete, Completions
<1>5. ASSUME NEW service, NEW bundle, NEW spec, NEW time, AskBuilt(service, bundle, spec, time)
      PROVE  asked'.kind = "built"
    BY <1>5 DEF AskBuilt
<1> QED
    BY <1>2, <1>3, <1>4, <1>5 DEF Ask

\* The bond that the page shows is a tenth of the price, as in the SDK and the contracts.
LEMMA SameBond ==
    ASSUME NEW total \in Nat
    PROVE  (total * 100) \div 1000 = CalculateMinBond(total)
<1>1. (total * 100) \div 1000 = (total * 1000) \div 10000
    OBVIOUS
<1> QED
    BY <1>1 DEF CalculateMinBond, SdkConstants

\* A card is charged what the quote page showed, whichever fees it had, for any quote that
\* can be asked for (stripe.ts 107-112, Quote.tsx 53-135); by SameGrossTotal, FeeIsNearest
\* and SameBond for any number of units at all.
THEOREM QuotesAreCharged == MCSpec => []ChargedAsQuoted
<1>1. CalculationsInit => ChargedAsQuoted
    BY DEF CalculationsInit, Nothing, ChargedAsQuoted
<1>2. ASSUME ChargedAsQuoted, [Ask]_asked
      PROVE  ChargedAsQuoted'
    <2>1. CASE UNCHANGED asked
        BY <1>2, <2>1 DEF ChargedAsQuoted
    <2>2. ASSUME NEW fees \in FeeLists, NEW s \in Services, NEW units \in QuotedUnits,
                 NEW t \in QualityTiers, AskQuote(fees, s, units, t)
          PROVE  ChargedAsQuoted'
        <3> DEFINE total == GrossTotal(s, units, t)
                   gross == RateUsd[s] * units * QualityPercent[t]
        <3>1. units \in Nat /\ units # 0
            BY DEF QuotedUnits
        <3>2. total \in Nat /\ total = gross /\ total >= 10000
            BY <3>1, SameGrossTotal
        <3>3. Checkout(s, units, t) = [charged |-> total, fee |-> PlatformFee(total)]
            BY DEF Checkout
        <3>4. PageUsd = RateUsd /\ fees.platform = 25 /\ fees.minBond = 100
            BY SameLists DEF RateFees
        <3> HIDE DEF total
        <3>5. Estimate(fees, s, units, t) =
                [grossTotal |-> gross,
                 platformFee |-> IF gross * 25 < 5000 THEN 5000 ELSE gross * 25,
                 bondRequired |-> gross * 100]
            BY <3>4 DEF Estimate
        <3>6. {list[s] * units * QualityPercent[t] : list \in PriceLists} = {gross}
            BY SameLists DEF PriceLists
        <3>7. asked' = [kind |-> "quote", estimate |-> Estimate(fees, s, units, t),
                        published |-> {gross}, checkout |-> Checkout(s, units, t)]
            BY <2>2, <3>6 DEF AskQuote
        <3> HIDE DEF gross
        <3>8. gross * 25 >= 5000
            BY <3>2
        <3>9. /\ 1000 * PlatformFee(total) - 25 * total \in -500..500
              /\ (total * 100) \div 1000 = CalculateMinBond(total)
            <4>1. total \in Nat
                BY <3>2
            <4> HIDE DEF total
            <4>2. 1000 * PlatformFee(total) - 25 * total \in -500..500
                BY <4>1, FeeIsNearest
            <4>3. (total * 100) \div 1000 = CalculateMinBond(total)
                BY <4>1, SameBond
            <4> QED
                BY <4>2, <4>3
        <3>10. /\ asked'.checkout.charged = total /\ asked'.checkout.fee = PlatformFee(total)
               /\ asked'.published = {total}
               /\ asked'.estimate.grossTotal = total
               /\ asked'.estimate.platformFee = 25 * total
               /\ asked'.estimate.bondRequired = total * 100
            BY <3>2, <3>3, <3>5, <3>7, <3>8
        <3> QED
            BY <3>9, <3>10 DEF ChargedAsQuoted
    <2>3. CASE asked'.kind # "quote"
        BY <2>3 DEF ChargedAsQuoted
    <2>4. ASSUME NEW signedType, NEW type, NEW by, NEW domain, NEW signer, NEW signed, NEW presented,
                 AskClaim(signer, by, domain, signedType, signed, type, presented)
          PROVE  asked'.kind # "quote"
        BY <2>4 DEF AskClaim
    <2> QED
        BY <1>2, <2>1, <2>2, <2>3, <2>4, WhatIsAsked DEF Completions
<1>3. MCInit => ChargedAsQuoted
    BY <1>1 DEF MCInit
<1>4. ChargedAsQuoted /\ [MCNext]_<<payVars, demoVars, demoOfferVars, asked, deploymentVars,
                                    startupVars, part>> => ChargedAsQuoted'
    BY <1>2, StepOfParts
<1> QED
    BY <1>3, <1>4, PTL DEF MCSpec

-------------------------------------------------------------------------------
(* Claims: the copies of the fields are the same, so a digest is the domain, the type, the *)
(* fields and the values in their order, whoever makes it; and these tell claims apart.    *)

LEMMA SameFields ==
    /\ \A type \in Versions : SDKFields(type) = SolidityFields(type)
    /\ RelayerFields = SolidityFields("CompletionClaimV2")
    /\ ProofPackFields = SolidityFields("CompletionClaim")
BY DEF SDKFields, SolidityFields, RelayerFields, ProofPackFields, Versions

LEMMA SixAndTwo ==
    ASSUME NEW V, NEW s \in Seq(V), NEW t \in Seq(V), Len(s) = 6, Len(t) = 2
    PROVE  s \o t = <<s[1], s[2], s[3], s[4], s[5], s[6], t[1], t[2]>>
<1>1. PICK u : u = s \o t
    OBVIOUS
<1>2. /\ u \in Seq(V) /\ Len(u) = 8
      /\ \A i \in 1..8 : u[i] = IF i <= 6 THEN s[i] ELSE t[i - 6]
    <2>1. /\ s \o t \in Seq(V)
          /\ Len(s \o t) = Len(s) + Len(t)
          /\ \A i \in 1..Len(s) + Len(t) : (s \o t)[i] =
                    IF i <= Len(s) THEN s[i] ELSE t[i - Len(s)]
        BY ConcatProperties, Zenon
    <2> QED
        BY <1>1, <2>1
<1>3. u[1] = s[1] /\ u[2] = s[2] /\ u[3] = s[3] /\ u[4] = s[4] /\ u[5] = s[5] /\ u[6] = s[6]
    BY <1>2
<1>4. u[7] = t[1] /\ u[8] = t[2]
    BY <1>2
<1>5. u = <<u[1], u[2], u[3], u[4], u[5], u[6], u[7], u[8]>>
    <2>1. PICK v : v = <<u[1], u[2], u[3], u[4], u[5], u[6], u[7], u[8]>>
        OBVIOUS
    <2>2. v \in Seq(V) /\ Len(v) = 8
        <3>1. \A i \in 1..8 : u[i] \in V
            BY <1>2, ElementOfSeq
        <3> QED
            BY <2>1, <3>1
    <2>3. \A i \in 1..8 : v[i] = u[i]
        <3>1. \A i \in 1..8 :
                i = 1 \/ i = 2 \/ i = 3 \/ i = 4 \/ i = 5 \/ i = 6 \/ i = 7 \/ i = 8
            OBVIOUS
        <3> QED
            BY <2>1, <3>1
    <2> QED
        BY <1>2, <2>1, <2>2, <2>3, SeqEqual
<1> QED
    BY <1>1, <1>3, <1>4, <1>5

LEMMA EightValues ==
    ASSUME NEW a, NEW b, NEW c, NEW d, NEW e, NEW f, NEW g, NEW h
    PROVE  <<a, b, c, d, e, f>> \o <<g, h>> = <<a, b, c, d, e, f, g, h>>
<1>1. PICK s, t : s = <<a, b, c, d, e, f>> /\ t = <<g, h>>
    OBVIOUS
<1>2. PICK V : V = {a, b, c, d, e, f, g, h}
    OBVIOUS
<1>3. s \in Seq(V) /\ t \in Seq(V) /\ Len(s) = 6 /\ Len(t) = 2
    BY <1>1, <1>2
<1>4. s \o t = <<s[1], s[2], s[3], s[4], s[5], s[6], t[1], t[2]>>
    BY <1>3, SixAndTwo
<1>5. /\ s[1] = a /\ s[2] = b /\ s[3] = c /\ s[4] = d /\ s[5] = e /\ s[6] = f
      /\ t[1] = g /\ t[2] = h
    BY <1>1
<1>6. s \o t = <<a, b, c, d, e, f, g, h>>
    BY <1>4, <1>5
<1> QED
    BY <1>1, <1>6

\* Taking the values by the names of the fields gives what abi.encode puts one after another.
LEMMA ValuesByName ==
    ASSUME NEW type \in Versions, NEW domain, NEW claim
    PROVE  TypedDigest(domain, type, SolidityFields(type), claim) =
                <<domain, type, SolidityFields(type), Encoded(type, claim)>>
<1> DEFINE fields == SolidityFields(type)
           values == [i \in DOMAIN fields |-> claim[fields[i][1]]]
<1>1. CASE type = "CompletionClaim"
    <2>1. fields = << <<"jobId", "uint256">>, <<"jobSpecHash", "bytes32">>,
                      <<"completionHash", "bytes32">>, <<"robotId", "bytes32">>,
                      <<"controller", "address">>, <<"deadline", "uint256">> >>
        BY <1>1 DEF SolidityFields
    <2>2. values = <<claim.jobId, claim.jobSpecHash, claim.completionHash, claim.robotId,
                     claim.controller, claim.deadline>>
        BY <2>1
    <2> QED
        BY <1>1, <2>2 DEF TypedDigest, Digest, Encoded, HashCompletionClaim
<1>2. CASE type = "CompletionClaimV2"
    <2>1. fields = << <<"jobId", "uint256">>, <<"jobSpecHash", "bytes32">>,
                      <<"completionHash", "bytes32">>, <<"robotId", "bytes32">>,
                      <<"controller", "address">>, <<"deadline", "uint256">>,
                      <<"qualityScore", "uint8">>, <<"workUnits", "uint32">> >>
        BY <1>2 DEF SolidityFields
    <2>2. values = <<claim.jobId, claim.jobSpecHash, claim.completionHash, claim.robotId,
                     claim.controller, claim.deadline, claim.qualityScore, claim.workUnits>>
        BY <2>1
    <2>3. Encoded(type, claim) = values
        BY <1>2, <2>2, EightValues DEF Encoded, HashCompletionClaimV2, HashCompletionClaim
    <2> QED
        BY <2>3 DEF TypedDigest, Digest
<1>3. CASE type = "WitnessClaim"
    <2>1. fields = << <<"jobId", "uint256">>, <<"completionHash", "bytes32">>,
                      <<"witness", "address">>, <<"issuedAt", "uint256">> >>
        BY <1>3 DEF SolidityFields
    <2>2. values = <<claim.jobId, claim.completionHash, claim.witness, claim.issuedAt>>
        BY <2>1
    <2> QED
        BY <1>3, <2>2 DEF TypedDigest, Digest, Encoded, HashWitnessClaim
<1> QED
    BY <1>1, <1>2, <1>3 DEF Versions

\* Every signer hashes the same; the typed data of the API are for the configured escrow.
LEMMA OneDigest ==
    ASSUME NEW type \in Versions, NEW signer \in Signers(type), NEW domain, NEW claim
    PROVE  SignedDigest(signer, domain, type, claim) =
                <<IF signer = "typedData" THEN Deployed ELSE domain, type, SolidityFields(type),
                  Encoded(type, claim)>>
<1>1. CASE signer = "sdk"
    BY <1>1, SameFields, ValuesByName DEF SignedDigest, SDKDigest
<1>2. CASE signer = "proof-pack"
    <2>1. type = "CompletionClaim"
        BY <1>2 DEF Signers
    <2> QED
        BY <1>2, <2>1, SameFields, ValuesByName DEF SignedDigest, ProofPackDigest
<1>3. CASE signer = "typedData"
    <2>1. type = "CompletionClaimV2"
        BY <1>3 DEF Signers
    <2> QED
        BY <1>3, <2>1, SameFields, ValuesByName DEF SignedDigest, RelayerDigest
<1> QED
    BY <1>1, <1>2, <1>3 DEF Signers

\* The values in their order are the claim.
LEMMA EncodingInjective ==
    ASSUME NEW type \in Versions, NEW c \in Claims(type), NEW d \in Claims(type),
           Encoded(type, c) = Encoded(type, d)
    PROVE  c = d
<1>1. CASE type = "CompletionClaim"
    <2>1. HashCompletionClaim(c) = HashCompletionClaim(d)
        BY <1>1 DEF Encoded
    <2>2. /\ c.jobId = d.jobId /\ c.jobSpecHash = d.jobSpecHash
          /\ c.completionHash = d.completionHash /\ c.robotId = d.robotId
          /\ c.controller = d.controller /\ c.deadline = d.deadline
        BY <2>1 DEF HashCompletionClaim
    <2> QED
        BY <1>1, <2>2 DEF Claims
<1>2. CASE type = "CompletionClaimV2"
    <2>1. <<c.jobId, c.jobSpecHash, c.completionHash, c.robotId, c.controller, c.deadline,
            c.qualityScore, c.workUnits>> =
          <<d.jobId, d.jobSpecHash, d.completionHash, d.robotId, d.controller, d.deadline,
            d.qualityScore, d.workUnits>>
        BY <1>2, EightValues DEF Encoded, HashCompletionClaimV2, HashCompletionClaim
    <2>2. /\ c.jobId = d.jobId /\ c.jobSpecHash = d.jobSpecHash
          /\ c.completionHash = d.completionHash /\ c.robotId = d.robotId
          /\ c.controller = d.controller /\ c.deadline = d.deadline
          /\ c.qualityScore = d.qualityScore /\ c.workUnits = d.workUnits
        BY <2>1
    <2> QED
        BY <1>2, <2>2 DEF Claims
<1>3. CASE type = "WitnessClaim"
    <2>1. HashWitnessClaim(c) = HashWitnessClaim(d)
        BY <1>3 DEF Encoded
    <2>2. /\ c.jobId = d.jobId /\ c.completionHash = d.completionHash
          /\ c.witness = d.witness /\ c.issuedAt = d.issuedAt
        BY <2>1 DEF HashWitnessClaim
    <2> QED
        BY <1>3, <2>2 DEF Claims
<1> QED
    BY <1>1, <1>2, <1>3 DEF Versions

\* Every checker compares the same digest, and asks for the robot's controller or witness.
LEMMA OneCheck ==
    ASSUME NEW type \in Versions, NEW checker \in Checkers(type), NEW claim \in Claims(type),
           NEW signature
    PROVE  Accepts(checker, type, claim, signature) <=>
                /\ signature.by = "controller"
                /\ signature.digest =
                        <<Deployed, type, SolidityFields(type), Encoded(type, claim)>>
<1>1. IF type = "WitnessClaim" THEN claim.witness = "controller" ELSE claim.controller = "controller"
    BY DEF Claims
<1>2. CASE checker = "contract"
    BY <1>1, <1>2 DEF Accepts, EscrowAccepts, ContractDigest, Digest
<1>3. CASE checker = "sdk"
    BY <1>1, <1>3, SameFields, ValuesByName DEF Accepts, SDKRecovers, SDKDigest
<1>4. CASE checker = "relayer"
    <2>1. type = "CompletionClaimV2"
        BY <1>4 DEF Checkers
    <2> QED
        BY <1>1, <1>4, <2>1, SameFields, ValuesByName DEF Accepts, RelayerAccepts, RelayerDigest
<1> QED
    BY <1>2, <1>3, <1>4 DEF Checkers

LEMMA ClaimChecked ==
    ASSUME NEW signedType \in Versions, NEW type \in Versions, NEW by, NEW domain,
           NEW signer \in Signers(signedType), NEW signed \in Claims(signedType),
           NEW presented \in Claims(type),
           AskClaim(signer, by, domain, signedType, signed, type, presented)
    PROVE  ClaimsAgree'
<1> DEFINE for == IF signer = "typedData" THEN Deployed ELSE domain
           digest == SignedDigest(signer, domain, signedType, signed)
           signature == [by |-> by, digest |-> digest]
           same == /\ by = "controller"
                   /\ signer # "typedData" => domain = Deployed
                   /\ <<signedType, signed>> = <<type, presented>>
<1>1. /\ asked'.kind = "claim"
      /\ asked'.same = same
      /\ asked'.checkers = Checkers(type)
      /\ asked'.accepted = {c \in Checkers(type) : Accepts(c, type, presented, signature)}
    BY DEF AskClaim
<1>2. digest = <<for, signedType, SolidityFields(signedType), Encoded(signedType, signed)>>
    BY OneDigest
<1>3. digest = <<Deployed, type, SolidityFields(type), Encoded(type, presented)>> <=>
        for = Deployed /\ signedType = type /\ signed = presented
    <2> HIDE DEF digest, for
    <2>1. digest = <<Deployed, type, SolidityFields(type), Encoded(type, presented)>> =>
            for = Deployed /\ signedType = type /\ Encoded(signedType, signed) = Encoded(type, presented)
        BY <1>2
    <2>2. signedType = type /\ Encoded(signedType, signed) = Encoded(type, presented)
            => signed = presented
        BY EncodingInjective
    <2> QED
        BY <1>2, <2>1, <2>2
<1>4. for = Deployed <=> (signer # "typedData" => domain = Deployed)
    OBVIOUS
<1>5. signature.by = by /\ signature.digest = digest
    OBVIOUS
<1>6. \A c \in Checkers(type) : Accepts(c, type, presented, signature) <=> same
    <2> HIDE DEF digest, for, signature
    <2> QED
        BY <1>3, <1>4, <1>5, OneCheck
<1> HIDE DEF same, signature
<1> QED
    BY <1>1, <1>6 DEF ClaimsAgree

\* A signature opens just what it was made for, whichever copies of the types made and
\* checked it (EIP712Types.sol, signing.ts, relayer.ts, proof-pack.ts).
THEOREM SignaturesOpenWhatWasSigned == MCSpec => []ClaimsAgree
<1>1. CalculationsInit => ClaimsAgree
    BY DEF CalculationsInit, Nothing, ClaimsAgree
<1>2. ASSUME ClaimsAgree, [Ask]_asked
      PROVE  ClaimsAgree'
    <2>1. CASE UNCHANGED asked
        BY <1>2, <2>1 DEF ClaimsAgree
    <2>2. CASE asked'.kind # "claim"
        BY <2>2 DEF ClaimsAgree
    <2>3. ASSUME NEW fees, NEW s, NEW units, NEW t, AskQuote(fees, s, units, t)
          PROVE  asked'.kind # "claim"
        BY <2>3 DEF AskQuote
    <2> QED
        BY <1>2, <2>1, <2>2, <2>3, WhatIsAsked, ClaimChecked DEF Completions
<1>3. MCInit => ClaimsAgree
    BY <1>1 DEF MCInit
<1>4. ClaimsAgree /\ [MCNext]_<<payVars, demoVars, demoOfferVars, asked, deploymentVars,
                                startupVars, part>> => ClaimsAgree'
    BY <1>2, StepOfParts
<1> QED
    BY <1>3, <1>4, PTL DEF MCSpec

-------------------------------------------------------------------------------
(* Scores: rounding keeps the order of what it rounds, so scores are compared as fractions. *)

\* What Math.round(n / d) is: the whole number that is at most half away.
LEMMA RoundedIs ==
    ASSUME NEW n \in Nat, NEW d \in Nat \ {0}
    PROVE  /\ Rounded(n, d) \in Nat
           /\ 2 * (d * Rounded(n, d)) <= 2 * n + d
           /\ 2 * n + d < 2 * (d * Rounded(n, d)) + 2 * d
<1> DEFINE q == Rounded(n, d)
           b == 2 * d
           a == 2 * n + d
<1>1. a \in Nat /\ b \in Nat \ {0}
    OBVIOUS
<1>2. q = a \div b
    BY DEF Rounded
<1> HIDE DEF q, a, b
<1>3. a \div b \in Nat /\ b * (a \div b) <= a /\ a < b * (a \div b) + b
    BY <1>1
<1>4. q \in Nat /\ b * q <= a /\ a < b * q + b
    BY <1>2, <1>3
<1>5. b * q = 2 * (d * q)
    BY <1>4 DEF b
<1> QED
    BY <1>4, <1>5 DEF a, b, q

\* A larger fraction is not rounded to less.
LEMMA RoundedMonotone ==
    ASSUME NEW n \in Nat, NEW d \in Nat \ {0}, NEW m \in Nat, NEW e \in Nat \ {0},
           n * e <= m * d
    PROVE  Rounded(n, d) <= Rounded(m, e)
<1> DEFINE p == Rounded(n, d)
           q == Rounded(m, e)
<1>1. p \in Nat /\ 2 * (d * p) <= 2 * n + d
    BY RoundedIs
<1>2. q \in Nat /\ 2 * m + e < 2 * (e * q) + 2 * e
    BY RoundedIs
<1> HIDE DEF p, q
<1> SUFFICES ASSUME q + 1 <= p
             PROVE  FALSE
    BY <1>1, <1>2 DEF p, q
<1> DEFINE de == d * e
           deq == de * q
           dep == de * p
<1>3. de \in Nat /\ de > 0
    OBVIOUS
<1>4. deq \in Nat /\ dep \in Nat /\ deq + de <= dep
    <2>1. de * (p - q) >= de * 1
        BY <1>1, <1>2, <1>3
    <2> QED
        BY <1>1, <1>2, <1>3, <2>1
<1>5. 2 * dep <= 2 * (n * e) + de
    <2>1. e * (2 * (d * p)) <= e * (2 * n + d)
        BY <1>1
    <2> QED
        BY <1>1, <2>1
<1>6. 2 * (m * d) + de < 2 * deq + 2 * de
    <2>1. d * (2 * m + e) < d * (2 * (e * q) + 2 * e)
        BY <1>2
    <2> QED
        BY <1>2, <2>1
<1>7. n * e \in Nat /\ m * d \in Nat
    OBVIOUS
<1> HIDE DEF de, deq, dep
<1> QED
    BY <1>3, <1>4, <1>5, <1>6, <1>7

\* Whole numbers stay what they are.
LEMMA RoundedWhole ==
    ASSUME NEW k \in Nat, NEW d \in Nat \ {0}
    PROVE  Rounded(k * d, d) = k
<1> DEFINE q == Rounded(k * d, d)
<1>1. k * d \in Nat
    OBVIOUS
<1>2. q \in Nat /\ 2 * (d * q) <= 2 * (k * d) + d /\ 2 * (k * d) + d < 2 * (d * q) + 2 * d
    BY <1>1, RoundedIs
<1> SUFFICES q = k
    OBVIOUS
<1> HIDE DEF q
<1>3. CASE q <= k - 1
    <2>1. d * q <= d * (k - 1)
        BY <1>2, <1>3
    <2> QED
        BY <1>2, <2>1
<1>4. CASE k + 1 <= q
    <2>1. d * (k + 1) <= d * q
        BY <1>2, <1>4
    <2> QED
        BY <1>2, <2>1
<1> QED
    BY ONLY <1>2, <1>3, <1>4, k \in Nat

\* ... and stay beside what is rounded.
LEMMA RoundedShift ==
    ASSUME NEW n \in Nat, NEW k \in Nat, NEW d \in Nat \ {0}
    PROVE  Rounded(n + k * d, d) = Rounded(n, d) + k
<1> DEFINE p == Rounded(n + k * d, d)
           q == Rounded(n, d)
<1>1. n + k * d \in Nat
    OBVIOUS
<1>2. p \in Nat /\ 2 * (d * p) <= 2 * (n + k * d) + d /\ 2 * (n + k * d) + d < 2 * (d * p) + 2 * d
    BY <1>1, RoundedIs
<1>3. q \in Nat /\ 2 * (d * q) <= 2 * n + d /\ 2 * n + d < 2 * (d * q) + 2 * d
    BY RoundedIs
<1> SUFFICES p = q + k
    OBVIOUS
<1> HIDE DEF p, q
<1> DEFINE r == q + k
<1>4. r \in Nat /\ d * r = d * q + k * d
    BY <1>3
<1>5. 2 * (d * r) <= 2 * (n + k * d) + d /\ 2 * (n + k * d) + d < 2 * (d * r) + 2 * d
    BY <1>3, <1>4
<1> HIDE DEF r
<1>6. CASE p <= r - 1
    <2>1. d * p <= d * (r - 1)
        BY <1>2, <1>4, <1>6
    <2> QED
        BY <1>2, <1>4, <1>5, <2>1
<1>7. CASE r + 1 <= p
    <2>1. d * (r + 1) <= d * p
        BY <1>2, <1>4, <1>7
    <2> QED
        BY <1>2, <1>4, <1>5, <2>1
<1> QED
    BY ONLY <1>2, <1>4, <1>6, <1>7 DEF r

\* The seconds of a patrol, as a sum over its visits.
LEMMA TotalIsSum == \A s : Total(s) = SumFunctionOnSet(s, DOMAIN s)
BY DEF Total, MapThenSumSet, SumFunctionOnSet, FoldFunctionOnSet, MapThenFoldSet

\* Each visit that lasted long enough counts for as much at least.
LEMMA LongVisits ==
    ASSUME NEW dwell \in Seq(Nat), NEW minDwell \in Nat, NEW least \in Nat, least <= minDwell
    PROVE  LET long == Cardinality({i \in DOMAIN dwell : dwell[i] >= minDwell})
           IN  /\ Total(dwell) \in Nat
               /\ long \in 0..Len(dwell)
               /\ least * long <= Total(dwell)
<1> DEFINE D == DOMAIN dwell
           Sum(T) == SumFunctionOnSet(dwell, T)
           Long(T) == {i \in T : dwell[i] >= minDwell}
           Good == {T \in SUBSET D : least * Cardinality(Long(T)) <= Sum(T)}
<1>1. D = 1..Len(dwell) /\ Len(dwell) \in Nat /\ \A i \in D : dwell[i] \in Nat
    OBVIOUS
<1>2. IsFiniteSet(D) /\ Cardinality(D) = Len(dwell)
    <2>1. /\ IsFiniteSet(1..Len(dwell))
          /\ Cardinality(1..Len(dwell)) = IF 1 > Len(dwell) THEN 0 ELSE Len(dwell) - 1 + 1
        BY FS_Interval
    <2> QED
        BY <1>1, <2>1
<1>3. \A T \in SUBSET D : Sum(T) \in Nat /\ IsFiniteSet(T)
    BY <1>1, <1>2, SumType, FS_Subset
<1> HIDE DEF D
<1>4. \A T \in SUBSET D : (\A U \in SUBSET T : U # T => U \in Good) => T \in Good
    <2> SUFFICES ASSUME NEW T \in SUBSET D, \A U \in SUBSET T : U # T => U \in Good
                 PROVE  least * Cardinality(Long(T)) <= Sum(T)
        OBVIOUS
    <2>1. Sum(T) = IF T = {} THEN 0 ELSE dwell[First(T)] + Sum(T \ {First(T)})
        BY <1>3, SumEquation
    <2>2. CASE T = {}
        <3>1. Long(T) = {}
            BY <2>2
        <3> QED
            BY <2>1, <2>2, <3>1, FS_EmptySet
    <2>3. CASE T # {}
        <3> DEFINE x == First(T)
                   U == T \ {x}
        <3>1. x \in T /\ U \in SUBSET D /\ U # T
            BY <2>3, FirstIn
        <3>2. least * Cardinality(Long(U)) <= Sum(U)
            BY <3>1
        <3>3. /\ IsFiniteSet(Long(U)) /\ Cardinality(Long(U)) \in Nat
              /\ Long(T) = IF dwell[x] >= minDwell THEN Long(U) \cup {x} ELSE Long(U)
            BY <1>3, <3>1, FS_Subset, FS_CardinalityType
        <3>4. x \notin Long(U)
            OBVIOUS
        <3>5. /\ dwell[x] >= minDwell => Cardinality(Long(T)) = Cardinality(Long(U)) + 1
              /\ ~(dwell[x] >= minDwell) => Cardinality(Long(T)) = Cardinality(Long(U))
            BY <3>3, <3>4, FS_AddElement
        <3>6. Sum(T) = dwell[x] + Sum(U) /\ dwell[x] \in Nat /\ Sum(U) \in Nat
            BY <1>1, <1>3, <2>1, <2>3, <3>1
        <3> HIDE DEF x, U, Long, Sum
        <3>7. least * (Cardinality(Long(U)) + 1) = least * Cardinality(Long(U)) + least
            BY <3>3
        <3> QED
            BY <3>2, <3>3, <3>5, <3>6, <3>7
    <2> QED
        BY <2>2, <2>3
<1> HIDE DEF Good
<1>5. SUBSET D \subseteq Good
    BY <1>2, <1>4, SubsetInduction
<1>6. least * Cardinality(Long(D)) <= Sum(D) /\ Sum(D) \in Nat
    BY <1>3, <1>5 DEF Good
<1>7. Cardinality(Long(D)) \in 0..Len(dwell)
    BY <1>1, <1>2, FS_Subset, FS_CardinalityType
<1> QED
    BY <1>6, <1>7, TotalIsSum DEF D

\* They are a number.
LEMMA TotalTyped ==
    ASSUME NEW dwell \in Seq(Nat)
    PROVE  Total(dwell) \in Nat
BY LongVisits, 30 \in Nat, 30 <= 30

\* The score of a patrol depends on the share of checkpoints, not on their number.
LEMMA WholeShare ==
    ASSUME NEW dwell \in Seq(Nat), NEW n \in Nat \ {0}
    PROVE  PatrolScore(n, n, dwell) = PatrolScore(1, 1, dwell)
<1> DEFINE seconds == IF dwell = <<>> THEN 30 ELSE UpTo(30 * Len(dwell), Total(dwell))
           spent == IF dwell = <<>> THEN 1 ELSE Len(dwell)
<1>1. seconds \in Nat /\ spent \in Nat \ {0}
    BY TotalTyped DEF UpTo
<1> HIDE DEF seconds, spent
<1> DEFINE a == 70 * n * spent + seconds * n
           b == n * spent
           c == 70 * 1 * spent + seconds * 1
           d == 1 * spent
<1>2. a \in Nat /\ b \in Nat \ {0} /\ c \in Nat /\ d \in Nat \ {0}
    BY <1>1
<1>3. a * d = c * b
    BY <1>1
<1> HIDE DEF a, b, c, d
<1>4. Rounded(a, b) <= Rounded(c, d) /\ Rounded(c, d) <= Rounded(a, b)
    <2>1. a * d <= c * b /\ c * b <= a * d
        BY <1>2, <1>3
    <2> QED
        BY <1>2, <2>1, RoundedMonotone
<1>5. Rounded(a, b) = Rounded(c, d)
    <2>1. Rounded(a, b) \in Nat /\ Rounded(c, d) \in Nat
        BY <1>2, RoundedIs
    <2> QED
        BY <1>4, <2>1
<1>6. PatrolScore(n, n, dwell) = UpTo(120, Rounded(a, b))
    BY Zenon DEF PatrolScore, a, b, seconds, spent
<1>7. PatrolScore(1, 1, dwell) = UpTo(120, Rounded(c, d))
    BY Zenon DEF PatrolScore, c, d, seconds, spent
<1> QED
    BY <1>5, <1>6, <1>7

\* The score of a patrol that visited anything is at least that of the module, which takes
\* the required checkpoints that were reached and the visits that were long enough, but for
\* the seconds that the job wants less than the API.
LEMMA PatrolNotBelow ==
    ASSUME NEW n \in Nat \ {0}, NEW dwell \in Seq(Nat), Len(dwell) <= n, NEW minDwell \in Nat,
           NEW of \in Nat \ {0}, NEW reached \in 0..of
    PROVE  LET long == Cardinality({i \in DOMAIN dwell : dwell[i] >= minDwell})
           IN  PatrolScore(1, 1, dwell) + DwellLeeway(minDwell) >=
                    UpTo(100, Rounded(70 * reached * n + 30 * long * of, of * n))
<1> DEFINE long == Cardinality({i \in DOMAIN dwell : dwell[i] >= minDwell})
           l == Len(dwell)
           least == UpTo(30, minDwell)
           more == DwellLeeway(minDwell)
           seconds == UpTo(30 * l, Total(dwell))
<1>1. least \in Nat /\ least <= minDwell /\ more \in Nat /\ least + more = 30
    BY DEF UpTo, DwellLeeway
<1> HIDE DEF least
<1>2. Total(dwell) \in Nat /\ long \in 0..l /\ least * long <= Total(dwell) /\ l \in Nat
    BY <1>1, LongVisits
<1> HIDE DEF long, more
<1>3. seconds \in Nat /\ least * long <= seconds
    <2>1. least * long <= 30 * l
        <3>1. least * long <= 30 * long
            BY <1>1, <1>2
        <3> QED
            BY <1>1, <1>2, <3>1
    <2> QED
        BY <1>1, <1>2, <2>1 DEF UpTo
<1> DEFINE a == 70 * reached * n + 30 * long * of
           b == of * n
<1>4. a \in Nat /\ b \in Nat \ {0}
    BY <1>2
<1>5. CASE l = 0
    <2>1. dwell = <<>>
        BY <1>5, EmptySeq
    <2>2. PatrolScore(1, 1, dwell) = 100
        BY <2>1 DEF PatrolScore, UpTo, Rounded
    <2>3. Rounded(a, b) \in Nat
        BY <1>4, RoundedIs
    <2> HIDE DEF a, b
    <2>4. UpTo(100, Rounded(a, b)) <= 100
        BY <2>3 DEF UpTo
    <2> QED
        BY <1>1, <2>2, <2>3, <2>4 DEF a, b, long, UpTo, more
<1>6. CASE l # 0
    <2>1. PatrolScore(1, 1, dwell) = UpTo(120, Rounded(70 * 1 * l + seconds * 1, 1 * l))
        <3>1. dwell # <<>>
            BY <1>6
        <3> QED
            BY <3>1 DEF PatrolScore
    <2> HIDE DEF seconds, l
    <2> DEFINE c == 70 * 1 * l + seconds * 1
               d == 1 * l
               e == c + more * d
    <2>2. c \in Nat /\ d \in Nat \ {0} /\ e \in Nat /\ d = l /\ c = 70 * l + seconds
        BY <1>1, <1>2, <1>3, <1>6
    <2>3. 30 * long <= seconds + more * l
        <3>1. more * long <= more * l
            BY <1>1, <1>2
        <3>2. 30 * long = least * long + more * long
            BY <1>1, <1>2
        <3>3. least * long \in Nat /\ more * long \in Nat /\ more * l \in Nat
            BY <1>1, <1>2
        <3> QED
            BY <1>2, <1>3, <3>1, <3>2, <3>3
    <2>4. a * d <= e * b
        <3> DEFINE s == seconds + more * l
        <3>1. s \in Nat /\ e = 70 * l + s
            BY <1>1, <1>2, <1>3, <2>2
        <3> HIDE DEF c, d, e, s
        <3>2. reached * (n * l) <= of * (n * l)
            BY <1>2
        <3>3. (30 * long) * (of * l) <= s * (of * n)
            <4>1. 30 * long <= s
                BY <2>3 DEF s
            <4>2. of * l <= of * n /\ of * l \in Nat /\ of * n \in Nat
                BY <1>2 DEF l
            <4>3. (30 * long) * (of * l) <= s * (of * l)
                BY <1>2, <3>1, <4>1, <4>2
            <4>4. s * (of * l) <= s * (of * n)
                BY <3>1, <4>2
            <4> QED
                BY <1>2, <3>1, <4>2, <4>3, <4>4
        <3>4. a * d = 70 * (reached * (n * l)) + (30 * long) * (of * l)
            BY <1>2, <2>2
        <3>5. e * b = 70 * (of * (n * l)) + s * (of * n)
            BY <1>2, <3>1
        <3>6. /\ reached * (n * l) \in Nat /\ of * (n * l) \in Nat
              /\ (30 * long) * (of * l) \in Nat /\ s * (of * n) \in Nat
            BY <1>2, <3>1
        <3> HIDE DEF a, b
        <3> QED
            BY <3>2, <3>3, <3>4, <3>5, <3>6
    <2>5. Rounded(e, d) = Rounded(c, d) + more
        BY <1>1, <2>2, RoundedShift
    <2> HIDE DEF a, b, c, d, e
    <2>6. /\ Rounded(a, b) \in Nat /\ Rounded(c, d) \in Nat
          /\ Rounded(a, b) <= Rounded(c, d) + more
        <3>1. Rounded(a, b) \in Nat /\ Rounded(c, d) \in Nat
            BY <1>4, <2>2, RoundedIs
        <3>2. Rounded(a, b) <= Rounded(e, d)
            BY <1>4, <2>2, <2>4, RoundedMonotone
        <3> QED
            BY <2>5, <3>1, <3>2
    <2>7. UpTo(120, Rounded(c, d)) + more >= UpTo(100, Rounded(a, b))
        BY <1>1, <2>6 DEF UpTo
    <2> QED
        BY <2>1, <2>7 DEF a, b, c, d, long, more, l
<1> QED
    BY <1>2, <1>5, <1>6

\* How many positions of a sequence have what is asked of them.
LEMMA CountBound ==
    ASSUME NEW n \in Nat, NEW T \in SUBSET (1..n)
    PROVE  IsFiniteSet(T) /\ Cardinality(T) \in 0..n
<1>1. /\ IsFiniteSet(1..n)
      /\ Cardinality(1..n) = IF 1 > n THEN 0 ELSE n - 1 + 1
    BY FS_Interval
<1>2. IsFiniteSet(T) /\ Cardinality(T) <= Cardinality(1..n)
    BY <1>1, FS_Subset
<1>3. Cardinality(T) \in Nat
    BY <1>2, FS_CardinalityType
<1> QED
    BY <1>1, <1>2, <1>3

\* An inspection of its area and no more is scored alike everywhere, and never above 100.
LEMMA InspectionsAgree ==
    ASSUME NEW visited \in Nat, NEW total \in Nat, visited <= total, NEW artifacts \in Nat
    PROVE  /\ ApiInspection(visited, total, artifacts) = ModuleInspection(visited, total, artifacts)
           /\ ModuleInspection(visited, total, artifacts) \in 0..100
<1> DEFINE score == CoverageScore(visited, total, artifacts)
<1>1. score \in 0..100
    <2>1. CASE total = 0
        BY <2>1 DEF CoverageScore, Bonus
    <2>2. CASE total # 0
        <3> DEFINE n == 80 * visited + Bonus(20, artifacts > 0) * total
        <3>1. n \in Nat /\ n <= 100 * total
            BY DEF Bonus
        <3>2. 100 * total \in Nat /\ n * total <= (100 * total) * total
            BY <3>1
        <3>3. Rounded(100 * total, total) = 100 /\ 100 * total \in Nat
            BY <2>2, RoundedWhole
        <3>4. score = Rounded(n, total)
            BY <2>2 DEF CoverageScore
        <3> HIDE DEF n, score
        <3>5. Rounded(n, total) \in Nat /\ Rounded(n, total) <= Rounded(100 * total, total)
            BY <2>2, <3>1, <3>2, RoundedIs, RoundedMonotone
        <3> QED
            BY <3>3, <3>4, <3>5
    <2> QED
        BY <2>1, <2>2
<1> HIDE DEF score
<1>2. UpTo(120, score) = score /\ UpTo(100, score) = score
    BY <1>1 DEF UpTo
<1> QED
    BY <1>1, <1>2 DEF ApiInspection, ModuleInspection, score

\* A patrol whose request named as many checkpoints as were visited, or none, is claimed at
\* what its manifest gives, and at no less than what its module gives, but for the seconds
\* that its job wants less than the API.
LEMMA PatrolsAgree ==
    ASSUME NEW S, NEW visited \in Seq(S), NEW dwell \in Seq(Nat), Len(dwell) <= Len(visited),
           NEW expected, expected = <<>> \/ Len(expected) = Len(visited), expected \in Seq(S),
           NEW required \in Seq(S), required # <<>>, NEW minDwell \in Nat
    PROVE  /\ ApiPatrol(visited, dwell, expected) = VerifiedPatrol(visited, dwell)
           /\ ApiPatrol(visited, dwell, expected) + DwellLeeway(minDwell) >=
                    ModulePatrol(visited, dwell, required, minDwell)
<1> DEFINE n == Len(visited)
           of == Len(required)
           reached == Cardinality({i \in DOMAIN required : Contains(visited, required[i])})
           long == Cardinality({i \in DOMAIN dwell : dwell[i] >= minDwell})
<1>1. n \in Nat /\ Len(dwell) \in Nat /\ DwellLeeway(minDwell) \in Nat
    BY DEF DwellLeeway
<1>2. of \in Nat \ {0} /\ DOMAIN required = 1..of
    BY EmptySeq
<1>3. reached \in 0..of
    BY <1>2, CountBound
<1>4. visited = <<>> <=> n = 0
    BY EmptySeq
<1>5. DOMAIN visited \cap DOMAIN dwell = DOMAIN dwell
    <2>1. DOMAIN visited = 1..n /\ DOMAIN dwell = 1..Len(dwell)
        OBVIOUS
    <2> QED
        BY <1>1, <2>1
<1> HIDE DEF reached, long
<1>6. CASE n = 0
    <2>1. dwell = <<>> /\ visited = <<>> /\ expected = <<>>
        BY <1>1, <1>4, <1>6, EmptySeq
    <2>2. long = 0 /\ reached = 0
        <3>1. {i \in DOMAIN dwell : dwell[i] >= minDwell} = {}
            BY <2>1
        <3>2. {i \in DOMAIN required : Contains(visited, required[i])} = {}
            BY <1>6 DEF Contains
        <3> QED
            BY <3>1, <3>2, FS_EmptySet DEF reached, long
    <2>3. ModulePatrol(visited, dwell, required, minDwell) = UpTo(100, Rounded(0 * of, of))
        <3>1. ModulePatrol(visited, dwell, required, minDwell) =
                UpTo(100, Rounded(70 * reached * 1 + 30 * long * of, of * 1))
            <4>1. visited = <<>>
                BY <2>1
            <4> QED
                BY ONLY required # <<>>, <1>5, <4>1, Zenon DEF ModulePatrol, reached, long
        <3> HIDE DEF of
        <3>2. 70 * 0 * 1 + 30 * 0 * of = 0 * of /\ of * 1 = of
            BY <1>2
        <3> QED
            BY <2>2, <3>1, <3>2
    <2>4. ModulePatrol(visited, dwell, required, minDwell) = 0
        BY <1>2, <2>3, RoundedWhole DEF UpTo
    <2>5. PatrolScore(0, 1, <<>>) = 30
        BY DEF PatrolScore, UpTo, Rounded
    <2>6. ApiPatrol(visited, dwell, expected) = 30 /\ VerifiedPatrol(visited, dwell) = 30
        BY <2>1, <2>5 DEF ApiPatrol, VerifiedPatrol
    <2> QED
        BY <1>1, <2>4, <2>6
<1>7. CASE n # 0
    <2>1. VerifiedPatrol(visited, dwell) = PatrolScore(1, 1, dwell)
        BY <1>4, <1>7 DEF VerifiedPatrol, ApiPatrol
    <2>2. ApiPatrol(visited, dwell, expected) = PatrolScore(1, 1, dwell)
        BY <1>1, <1>4, <1>7, WholeShare DEF ApiPatrol
    <2>3. ModulePatrol(visited, dwell, required, minDwell) =
            UpTo(100, Rounded(70 * reached * n + 30 * long * of, of * n))
        BY <1>4, <1>5, <1>7 DEF ModulePatrol, reached, long
    <2>4. PatrolScore(1, 1, dwell) + DwellLeeway(minDwell) >=
            UpTo(100, Rounded(70 * reached * n + 30 * long * of, of * n))
        BY <1>1, <1>2, <1>3, <1>7, PatrolNotBelow DEF long
    <2> QED
        BY <2>1, <2>2, <2>3, <2>4
<1> QED
    BY <1>6, <1>7

\* Being on time counts for ten, so a delivery that the API calls on time has no less.
LEMMA DeliveriesAgree ==
    ASSUME NEW pickup \in BOOLEAN, NEW dropoff \in BOOLEAN, NEW route \in BOOLEAN,
           NEW onTime \in BOOLEAN
    PROVE  DeliveryScore(pickup, dropoff, route, TRUE) >=
                DeliveryScore(pickup, dropoff, route, onTime)
BY DEF DeliveryScore, Bonus

-------------------------------------------------------------------------------
(* Manifests: folding an operator over the events of a service is going through a table that *)
(* has what was built of every set of positions; so what a manifest tells of the events of   *)
(* the set holds of all sets once it holds of none and of each with one more (...SoFar), and *)
(* two orders of one bundle tell the same (...Once).                                         *)

\* What the service modules read of the events of a robot, any number of them, ...
OtherEvents == [type : {"start", "end", "route"}, at : Nat]

InspectionEvents ==
    [type : {"coverage"}, visited : Nat, total : Nat] \cup [type : {"artifact"}, nr : Nat]
        \cup OtherEvents

\* ... and what they make of it.
InspectionManifests ==
    [coverageVisited : Nat, coverageTotal : Nat, artifacts : Nat,
     serviceType : {"inspection"}, startTs : Nat, endTs : Nat, route : BOOLEAN]

\* An event leaves a manifest of the service.
LEMMA InspectionTyped ==
    /\ NewInspection \in InspectionManifests
    /\ \A m \in InspectionManifests, e \in InspectionEvents :
            InspectionEvent(m, e) \in InspectionManifests
<1>1. NewInspection \in InspectionManifests
    BY DEF NewInspection, InspectionManifests
<1>2. ASSUME NEW m \in InspectionManifests, NEW e \in InspectionEvents
      PROVE  InspectionEvent(m, e) \in InspectionManifests
    <2>1. CASE e.type = "coverage"
        BY <2>1 DEF InspectionEvent, InspectionManifests, InspectionEvents, OtherEvents
    <2>2. CASE e.type = "artifact"
        BY <2>2 DEF InspectionEvent, InspectionManifests, InspectionEvents, OtherEvents
    <2>3. CASE e.type = "start"
        BY <2>3 DEF InspectionEvent, TimeOrRoute, InspectionManifests, InspectionEvents, OtherEvents
    <2>4. CASE e.type = "end"
        BY <2>4 DEF InspectionEvent, TimeOrRoute, InspectionManifests, InspectionEvents, OtherEvents
    <2>5. CASE e.type = "route"
        BY <2>5 DEF InspectionEvent, TimeOrRoute, InspectionManifests, InspectionEvents, OtherEvents
    <2> QED
        BY <2>1, <2>2, <2>3, <2>4, <2>5 DEF InspectionEvents, OtherEvents
<1> QED
    BY <1>1, <1>2

\* The table of what is built of every set of positions.
LEMMA InspectionFold ==
    ASSUME NEW s \in Seq(InspectionEvents)
    PROVE  \E g : /\ g = [T \in SUBSET DOMAIN s |->
                            IF T = {} THEN NewInspection
                            ELSE InspectionEvent(g[T \ {Max(T)}], s[Max(T)])]
                  /\ FoldLeft(InspectionEvent, NewInspection, s) = g[DOMAIN s]
<1> DEFINE E == InspectionEvents
           M == InspectionManifests
           F == [p \in M \X E |-> InspectionEvent(p[1], p[2])]
           n == Len(s)
<1>1. n \in Nat /\ DOMAIN s = 1..n /\ \A i \in 1..n : s[i] \in E
    OBVIOUS
<1>2. F \in [M \X E -> M]
    BY InspectionTyped
<1>3. \A m \in M, e \in E : F[<<m, e>>] = InspectionEvent(m, e)
    OBVIOUS
<1> HIDE DEF E, M, F, n
<1>4. PICK g : LeftTable(F, NewInspection, s, 1..n, g)
    BY <1>1, LeftTableExists
<1>5. NewInspection \in M
    BY InspectionTyped DEF M
<1>6. \A T \in SUBSET (1..n) : g[T] \in M /\ (T # {} => Max(T) \in T)
    BY <1>1, <1>2, <1>4, <1>5, LeftTableTyped
<1> DEFINE Table(h) == h = [T \in SUBSET DOMAIN s |->
                                IF T = {} THEN NewInspection
                                ELSE InspectionEvent(h[T \ {Max(T)}], s[Max(T)])]
           c == CHOOSE h : Table(h)
<1>7. ASSUME NEW T \in SUBSET (1..n)
      PROVE  g[T] = IF T = {} THEN NewInspection
                    ELSE InspectionEvent(g[T \ {Max(T)}], s[Max(T)])
    <2>1. CASE T = {}
        BY <1>4, <2>1 DEF LeftTable
    <2>2. CASE T # {}
        <3>1. Max(T) \in 1..n /\ T \ {Max(T)} \in SUBSET (1..n)
            BY <1>6, <2>2
        <3>2. g[T] = F[<<g[T \ {Max(T)}], s[Max(T)]>>]
            BY <1>4, <2>2 DEF LeftTable
        <3> QED
            BY <1>1, <1>3, <1>6, <2>2, <3>1, <3>2
    <2> QED
        BY <2>1, <2>2
<1>8. Table(g)
    BY <1>1, <1>4, <1>7 DEF LeftTable
<1>9. FoldLeft(InspectionEvent, NewInspection, s) = c[DOMAIN s]
    BY DEF FoldLeft, MapThenFoldSet, c, Table
<1> HIDE DEF Table
<1>10. Table(c)
    BY <1>8 DEF c
<1> QED
    BY <1>9, <1>10 DEF Table

\* A bundle of events comes in: each of them, those of a list once.
ArrivesAs(s, bundle) ==
    /\ s \in Seq(bundle)
    /\ \A e \in bundle : \E i \in DOMAIN s : s[i] = e
    /\ \A i, j \in DOMAIN s : s[i] = s[j] /\ s[i].type \in ListEvents => i = j

\* Other events than those of a list replace one another, so a bundle has one of a type.
Replaces(bundle) ==
    \A e, f \in bundle : e.type = f.type /\ e # f => e.type \in ListEvents

\* One event of a type came in, as often as it did.
OneOfType(s, type) ==
    \A i, j \in DOMAIN s : s[i].type = type /\ s[j].type = type => s[i] = s[j]

\* As many events of a list came in as the bundle has.
LEMMA CountOnce ==
    ASSUME NEW bundle, NEW s, ArrivesAs(s, bundle), NEW Q \in SUBSET bundle,
           \A e \in Q : e.type \in ListEvents
    PROVE  Cardinality({i \in DOMAIN s : s[i] \in Q}) = Cardinality(Q)
<1> DEFINE I == {i \in DOMAIN s : s[i] \in Q}
           f == [i \in I |-> s[i]]
<1>1. DOMAIN s = 1..Len(s) /\ Len(s) \in Nat
    BY DEF ArrivesAs
<1>2. IsFiniteSet(I)
    BY <1>1, CountBound
<1>3. f \in Bijection(I, Q)
    <2>1. f \in [I -> Q]
        OBVIOUS
    <2>2. \A i, j \in I : f[i] = f[j] => i = j
        BY DEF ArrivesAs
    <2>3. \A e \in Q : \E i \in I : f[i] = e
        BY DEF ArrivesAs
    <2> QED
        BY <2>1, <2>2, <2>3 DEF Bijection, Injection, Surjection, IsInjective
<1>4. ExistsBijection(I, Q)
    BY <1>3 DEF ExistsBijection
<1> HIDE DEF I
<1>5. Cardinality(Q) = Cardinality(I)
    BY <1>2, <1>4, FS_Bijection
<1> QED
    BY <1>5 DEF I

\* The area of an event that names none is ten.
CoverageTotal(e) == IF e.total = 0 THEN 10 ELSE e.total

\* What the manifest of an inspection tells of the events of T: how many artifacts, and the
\* coverage, if one came.
InspectionSoFar(s, T, m) ==
    /\ m \in InspectionManifests
    /\ m.artifacts = Cardinality({i \in T : s[i].type = "artifact"})
    /\ (\A i \in T : s[i].type # "coverage") => m.coverageVisited = 0 /\ m.coverageTotal = 10
    /\ \A i \in T : s[i].type = "coverage" =>
            m.coverageVisited = s[i].visited /\ m.coverageTotal = CoverageTotal(s[i])

\* ... with one more event, ...
LEMMA InspectionStep ==
    ASSUME NEW s \in Seq(InspectionEvents), NEW T \in SUBSET DOMAIN s, NEW x \in T, NEW m,
           OneOfType(s, "coverage"),
           InspectionSoFar(s, T \ {x}, m)
    PROVE  InspectionSoFar(s, T, InspectionEvent(m, s[x]))
<1> DEFINE k == InspectionEvent(m, s[x])
           A(U) == {i \in U : s[i].type = "artifact"}
<1>1. s[x] \in InspectionEvents /\ m \in InspectionManifests /\ k \in InspectionManifests
    BY InspectionTyped DEF InspectionSoFar
<1>2. /\ IsFiniteSet(A(T \ {x})) /\ x \notin A(T \ {x})
      /\ A(T) = IF s[x].type = "artifact" THEN A(T \ {x}) \cup {x} ELSE A(T \ {x})
    BY CountBound
<1>3. /\ s[x].type = "artifact" => Cardinality(A(T)) = Cardinality(A(T \ {x})) + 1
      /\ s[x].type # "artifact" => Cardinality(A(T)) = Cardinality(A(T \ {x}))
    BY <1>2, FS_AddElement
<1>4. m.artifacts = Cardinality(A(T \ {x}))
    BY DEF InspectionSoFar
<1> HIDE DEF A, k
<1>5. CASE s[x].type = "coverage"
    <2>1. /\ k.artifacts = m.artifacts
          /\ k.coverageVisited = s[x].visited /\ k.coverageTotal = CoverageTotal(s[x])
        BY <1>1, <1>5 DEF k, InspectionEvent, InspectionManifests, CoverageTotal
    <2>2. \A i \in T : s[i].type = "coverage" => s[i] = s[x]
        BY <1>5 DEF OneOfType
    <2> QED
        BY <1>1, <1>3, <1>4, <1>5, <2>1, <2>2 DEF InspectionSoFar, A, k
<1>6. CASE s[x].type = "artifact"
    <2>1. /\ k.artifacts = m.artifacts + 1
          /\ k.coverageVisited = m.coverageVisited /\ k.coverageTotal = m.coverageTotal
        BY <1>1, <1>6 DEF k, InspectionEvent, InspectionManifests
    <2> QED
        BY <1>1, <1>3, <1>4, <1>6, <2>1 DEF InspectionSoFar, A, k
<1>7. CASE s[x].type \in {"start", "end", "route"}
    <2>1. /\ k.artifacts = m.artifacts
          /\ k.coverageVisited = m.coverageVisited /\ k.coverageTotal = m.coverageTotal
        BY <1>1, <1>7 DEF k, InspectionEvent, TimeOrRoute, InspectionManifests
    <2> QED
        BY <1>1, <1>3, <1>4, <1>7, <2>1 DEF InspectionSoFar, A, k
<1> QED
    BY <1>1, <1>5, <1>6, <1>7 DEF InspectionEvents, OtherEvents

\* ... and of all of them.
LEMMA InspectionBuilt ==
    ASSUME NEW s \in Seq(InspectionEvents), OneOfType(s, "coverage")
    PROVE  InspectionSoFar(s, DOMAIN s, FoldLeft(InspectionEvent, NewInspection, s))
<1>1. PICK g : /\ g = [T \in SUBSET DOMAIN s |->
                          IF T = {} THEN NewInspection
                          ELSE InspectionEvent(g[T \ {Max(T)}], s[Max(T)])]
               /\ FoldLeft(InspectionEvent, NewInspection, s) = g[DOMAIN s]
    BY InspectionFold
<1> DEFINE D == DOMAIN s
           Good == {T \in SUBSET D : InspectionSoFar(s, T, g[T])}
<1>2. D = 1..Len(s) /\ Len(s) \in Nat
    OBVIOUS
<1>3. IsFiniteSet(D)
    BY <1>2, CountBound
<1>4. ASSUME NEW T \in SUBSET D, T # {}
      PROVE  Max(T) \in T /\ g[T] = InspectionEvent(g[T \ {Max(T)}], s[Max(T)])
    BY <1>1, <1>2, <1>4, MaxIn
<1>5. InspectionSoFar(s, {}, g[{}])
    <2>1. g[{}] = NewInspection
        BY <1>1
    <2>2. \A p : {i \in {} : p[i].type = "artifact"} = {}
        OBVIOUS
    <2> QED
        BY <2>1, <2>2, InspectionTyped, FS_EmptySet DEF InspectionSoFar, NewInspection
<1> HIDE DEF D
<1>6. \A T \in SUBSET D : (\A U \in SUBSET T : U # T => U \in Good) => T \in Good
    <2> SUFFICES ASSUME NEW T \in SUBSET D, \A U \in SUBSET T : U # T => U \in Good
                 PROVE  InspectionSoFar(s, T, g[T])
        OBVIOUS
    <2>1. CASE T # {}
        <3>1. Max(T) \in T
            BY <1>4, <2>1
        <3>2. InspectionSoFar(s, T \ {Max(T)}, g[T \ {Max(T)}])
            BY <3>1
        <3> QED
            BY <1>4, <2>1, <3>1, <3>2, InspectionStep DEF D
    <2> QED
        BY <1>5, <2>1
<1> HIDE DEF Good
<1>7. SUBSET D \subseteq Good
    BY <1>3, <1>6, SubsetInduction
<1> QED
    BY <1>1, <1>7 DEF D, Good

\* The same for deliveries.
DeliveryEvents ==
    [type : {"pickup", "dropoff"}, proof : BOOLEAN, at : Nat] \cup OtherEvents

DeliveryManifests ==
    [pickupProof : BOOLEAN, dropoffProof : BOOLEAN, dropoffTs : Nat,
     serviceType : {"delivery"}, startTs : Nat, endTs : Nat, route : BOOLEAN]

LEMMA DeliveryTyped ==
    /\ NewDelivery \in DeliveryManifests
    /\ \A m \in DeliveryManifests, e \in DeliveryEvents :
            DeliveryEvent(m, e) \in DeliveryManifests
<1>1. NewDelivery \in DeliveryManifests
    BY DEF NewDelivery, DeliveryManifests
<1>2. ASSUME NEW m \in DeliveryManifests, NEW e \in DeliveryEvents
      PROVE  DeliveryEvent(m, e) \in DeliveryManifests
    <2>1. CASE e.type = "pickup"
        BY <2>1 DEF DeliveryEvent, DeliveryManifests, DeliveryEvents, OtherEvents
    <2>2. CASE e.type = "dropoff"
        BY <2>2 DEF DeliveryEvent, DeliveryManifests, DeliveryEvents, OtherEvents
    <2>3. CASE e.type = "start"
        BY <2>3 DEF DeliveryEvent, TimeOrRoute, DeliveryManifests, DeliveryEvents, OtherEvents
    <2>4. CASE e.type = "end"
        BY <2>4 DEF DeliveryEvent, TimeOrRoute, DeliveryManifests, DeliveryEvents, OtherEvents
    <2>5. CASE e.type = "route"
        BY <2>5 DEF DeliveryEvent, TimeOrRoute, DeliveryManifests, DeliveryEvents, OtherEvents
    <2> QED
        BY <2>1, <2>2, <2>3, <2>4, <2>5 DEF DeliveryEvents, OtherEvents
<1> QED
    BY <1>1, <1>2

\* The table of what is built of every set of positions.
LEMMA DeliveryFold ==
    ASSUME NEW s \in Seq(DeliveryEvents)
    PROVE  \E g : /\ g = [T \in SUBSET DOMAIN s |->
                            IF T = {} THEN NewDelivery
                            ELSE DeliveryEvent(g[T \ {Max(T)}], s[Max(T)])]
                  /\ FoldLeft(DeliveryEvent, NewDelivery, s) = g[DOMAIN s]
<1> DEFINE E == DeliveryEvents
           M == DeliveryManifests
           F == [p \in M \X E |-> DeliveryEvent(p[1], p[2])]
           n == Len(s)
<1>1. n \in Nat /\ DOMAIN s = 1..n /\ \A i \in 1..n : s[i] \in E
    OBVIOUS
<1>2. F \in [M \X E -> M]
    BY DeliveryTyped
<1>3. \A m \in M, e \in E : F[<<m, e>>] = DeliveryEvent(m, e)
    OBVIOUS
<1> HIDE DEF E, M, F, n
<1>4. PICK g : LeftTable(F, NewDelivery, s, 1..n, g)
    BY <1>1, LeftTableExists
<1>5. NewDelivery \in M
    BY DeliveryTyped DEF M
<1>6. \A T \in SUBSET (1..n) : g[T] \in M /\ (T # {} => Max(T) \in T)
    BY <1>1, <1>2, <1>4, <1>5, LeftTableTyped
<1> DEFINE Table(h) == h = [T \in SUBSET DOMAIN s |->
                                IF T = {} THEN NewDelivery
                                ELSE DeliveryEvent(h[T \ {Max(T)}], s[Max(T)])]
           c == CHOOSE h : Table(h)
<1>7. ASSUME NEW T \in SUBSET (1..n)
      PROVE  g[T] = IF T = {} THEN NewDelivery
                    ELSE DeliveryEvent(g[T \ {Max(T)}], s[Max(T)])
    <2>1. CASE T = {}
        BY <1>4, <2>1 DEF LeftTable
    <2>2. CASE T # {}
        <3>1. Max(T) \in 1..n /\ T \ {Max(T)} \in SUBSET (1..n)
            BY <1>6, <2>2
        <3>2. g[T] = F[<<g[T \ {Max(T)}], s[Max(T)]>>]
            BY <1>4, <2>2 DEF LeftTable
        <3> QED
            BY <1>1, <1>3, <1>6, <2>2, <3>1, <3>2
    <2> QED
        BY <2>1, <2>2
<1>8. Table(g)
    BY <1>1, <1>4, <1>7 DEF LeftTable
<1>9. FoldLeft(DeliveryEvent, NewDelivery, s) = c[DOMAIN s]
    BY DEF FoldLeft, MapThenFoldSet, c, Table
<1> HIDE DEF Table
<1>10. Table(c)
    BY <1>8 DEF c
<1> QED
    BY <1>9, <1>10 DEF Table

\* What a delivery's manifest tells of the events of T: the time of the end only if the
\* dropoff gave none, since then it is the later of the two that counts.
DeliverySoFar(s, T, m) ==
    /\ m \in DeliveryManifests
    /\ m.pickupProof <=> \E i \in T : s[i].type = "pickup" /\ s[i].proof
    /\ m.dropoffProof <=> \E i \in T : s[i].type = "dropoff" /\ s[i].proof
    /\ m.route <=> \E i \in T : s[i].type = "route"
    /\ (\A i \in T : s[i].type # "dropoff") => m.dropoffTs = 0
    /\ \A i \in T : s[i].type = "dropoff" => m.dropoffTs = s[i].at
    /\ m.dropoffTs = 0 =>
            /\ (\A i \in T : s[i].type # "end") => m.endTs = 0
            /\ \A i \in T : s[i].type = "end" => m.endTs = s[i].at

\* ... with one more event, ...
LEMMA DeliveryStep ==
    ASSUME NEW s \in Seq(DeliveryEvents), NEW T \in SUBSET DOMAIN s, NEW x \in T, NEW m,
           OneOfType(s, "pickup"), OneOfType(s, "dropoff"), OneOfType(s, "end"),
           DeliverySoFar(s, T \ {x}, m)
    PROVE  DeliverySoFar(s, T, DeliveryEvent(m, s[x]))
<1> DEFINE k == DeliveryEvent(m, s[x])
<1>1. s[x] \in DeliveryEvents /\ m \in DeliveryManifests /\ k \in DeliveryManifests
    BY DeliveryTyped DEF DeliverySoFar
<1> HIDE DEF k
<1>2. CASE s[x].type = "pickup"
    <2>1. /\ k.pickupProof = s[x].proof /\ k.dropoffProof = m.dropoffProof
          /\ k.dropoffTs = m.dropoffTs /\ k.endTs = m.endTs /\ k.route = m.route
        BY <1>1, <1>2 DEF k, DeliveryEvent, DeliveryManifests
    <2>2. \A i \in T : s[i].type = "pickup" => s[i] = s[x]
        BY <1>2 DEF OneOfType
    <2> QED
        BY <1>1, <1>2, <2>1, <2>2 DEF DeliverySoFar, k
<1>3. CASE s[x].type = "dropoff"
    <2>1. /\ k.pickupProof = m.pickupProof /\ k.dropoffProof = s[x].proof
          /\ k.dropoffTs = s[x].at /\ k.route = m.route
          /\ s[x].at = 0 => k.endTs = m.endTs
        BY <1>1, <1>3 DEF k, DeliveryEvent, DeliveryManifests
    <2>2. \A i \in T : s[i].type = "dropoff" => s[i] = s[x]
        BY <1>3 DEF OneOfType
    <2>3. s[x].at = 0 => m.dropoffTs = 0
        BY <2>2 DEF DeliverySoFar
    <2> QED
        BY <1>1, <1>3, <2>1, <2>2, <2>3 DEF DeliverySoFar, k
<1>4. CASE s[x].type = "start"
    <2>1. /\ k.pickupProof = m.pickupProof /\ k.dropoffProof = m.dropoffProof
          /\ k.dropoffTs = m.dropoffTs /\ k.endTs = m.endTs /\ k.route = m.route
        BY <1>1, <1>4 DEF k, DeliveryEvent, TimeOrRoute, DeliveryManifests
    <2> QED
        BY <1>1, <1>4, <2>1 DEF DeliverySoFar, k
<1>5. CASE s[x].type = "end"
    <2>1. /\ k.pickupProof = m.pickupProof /\ k.dropoffProof = m.dropoffProof
          /\ k.dropoffTs = m.dropoffTs /\ k.endTs = s[x].at /\ k.route = m.route
        BY <1>1, <1>5 DEF k, DeliveryEvent, TimeOrRoute, DeliveryManifests
    <2>2. \A i \in T : s[i].type = "end" => s[i] = s[x]
        BY <1>5 DEF OneOfType
    <2> QED
        BY <1>1, <1>5, <2>1, <2>2 DEF DeliverySoFar, k
<1>6. CASE s[x].type = "route"
    <2>1. /\ k.pickupProof = m.pickupProof /\ k.dropoffProof = m.dropoffProof
          /\ k.dropoffTs = m.dropoffTs /\ k.endTs = m.endTs /\ k.route = TRUE
        BY <1>1, <1>6 DEF k, DeliveryEvent, TimeOrRoute, DeliveryManifests
    <2> QED
        BY <1>1, <1>6, <2>1 DEF DeliverySoFar, k
<1> QED
    BY <1>1, <1>2, <1>3, <1>4, <1>5, <1>6 DEF DeliveryEvents, OtherEvents

\* ... and of all of them.
LEMMA DeliveryBuilt ==
    ASSUME NEW s \in Seq(DeliveryEvents),
           OneOfType(s, "pickup"), OneOfType(s, "dropoff"), OneOfType(s, "end")
    PROVE  DeliverySoFar(s, DOMAIN s, FoldLeft(DeliveryEvent, NewDelivery, s))
<1>1. PICK g : /\ g = [T \in SUBSET DOMAIN s |->
                          IF T = {} THEN NewDelivery
                          ELSE DeliveryEvent(g[T \ {Max(T)}], s[Max(T)])]
               /\ FoldLeft(DeliveryEvent, NewDelivery, s) = g[DOMAIN s]
    BY DeliveryFold
<1> DEFINE D == DOMAIN s
           Good == {T \in SUBSET D : DeliverySoFar(s, T, g[T])}
<1>2. D = 1..Len(s) /\ Len(s) \in Nat
    OBVIOUS
<1>3. IsFiniteSet(D)
    BY <1>2, CountBound
<1>4. ASSUME NEW T \in SUBSET D, T # {}
      PROVE  Max(T) \in T /\ g[T] = DeliveryEvent(g[T \ {Max(T)}], s[Max(T)])
    BY <1>1, <1>2, <1>4, MaxIn
<1>5. DeliverySoFar(s, {}, g[{}])
    <2>1. g[{}] = NewDelivery
        BY <1>1
    <2> QED
        BY <2>1, DeliveryTyped DEF DeliverySoFar, NewDelivery
<1> HIDE DEF D
<1>6. \A T \in SUBSET D : (\A U \in SUBSET T : U # T => U \in Good) => T \in Good
    <2> SUFFICES ASSUME NEW T \in SUBSET D, \A U \in SUBSET T : U # T => U \in Good
                 PROVE  DeliverySoFar(s, T, g[T])
        OBVIOUS
    <2>1. CASE T # {}
        <3>1. Max(T) \in T
            BY <1>4, <2>1
        <3>2. DeliverySoFar(s, T \ {Max(T)}, g[T \ {Max(T)}])
            BY <3>1
        <3> QED
            BY <1>4, <2>1, <3>1, <3>2, DeliveryStep DEF D
    <2> QED
        BY <1>5, <2>1
<1> HIDE DEF Good
<1>7. SUBSET D \subseteq Good
    BY <1>3, <1>6, SubsetInduction
<1> QED
    BY <1>1, <1>7 DEF D, Good

\* And for patrols.
CheckpointNames == {"c1", "c2"}

PatrolEvents ==
    [type : {"checkpoint"}, id : CheckpointNames, seconds : Nat]
        \cup [type : {"config"}, required : Seq(Seq(CheckpointNames)), minDwell : Seq(Nat)]
        \cup OtherEvents

PatrolManifests ==
    [checkpointsVisited : Seq(CheckpointNames), dwellSeconds : Seq(Nat),
     checkpointsRequired : Seq(Seq(CheckpointNames)), minDwellRequired : Seq(Nat),
     serviceType : {"security_patrol"}, startTs : Nat, endTs : Nat, route : BOOLEAN]

LEMMA PatrolTyped ==
    /\ NewPatrol \in PatrolManifests
    /\ \A m \in PatrolManifests, e \in PatrolEvents :
            PatrolEvent(m, e) \in PatrolManifests
<1>1. NewPatrol \in PatrolManifests
    BY DEF NewPatrol, PatrolManifests, Absent
<1>2. ASSUME NEW m \in PatrolManifests, NEW e \in PatrolEvents
      PROVE  PatrolEvent(m, e) \in PatrolManifests
    <2>1. CASE e.type = "checkpoint"
        <3>1. e.id \in CheckpointNames /\ e.seconds \in Nat
            BY <2>1 DEF PatrolEvents, OtherEvents
        <3>2. /\ Append(m.checkpointsVisited, e.id) \in Seq(CheckpointNames)
              /\ Append(m.dwellSeconds, e.seconds) \in Seq(Nat)
            BY <3>1 DEF PatrolManifests
        <3> QED
            BY <2>1, <3>2 DEF PatrolEvent, PatrolManifests
    <2>2. CASE e.type = "config"
        <3>1. e.required \in Seq(Seq(CheckpointNames)) /\ e.minDwell \in Seq(Nat)
            BY <2>2 DEF PatrolEvents, OtherEvents
        <3> QED
            BY <2>2, <3>1 DEF PatrolEvent, PatrolManifests, OrElse
    <2>3. CASE e.type = "start"
        BY <2>3 DEF PatrolEvent, TimeOrRoute, PatrolManifests, PatrolEvents, OtherEvents
    <2>4. CASE e.type = "end"
        BY <2>4 DEF PatrolEvent, TimeOrRoute, PatrolManifests, PatrolEvents, OtherEvents
    <2>5. CASE e.type = "route"
        BY <2>5 DEF PatrolEvent, TimeOrRoute, PatrolManifests, PatrolEvents, OtherEvents
    <2> QED
        BY <2>1, <2>2, <2>3, <2>4, <2>5 DEF PatrolEvents, OtherEvents
<1> QED
    BY <1>1, <1>2

\* The table of what is built of every set of positions.
LEMMA PatrolFold ==
    ASSUME NEW s \in Seq(PatrolEvents)
    PROVE  \E g : /\ g = [T \in SUBSET DOMAIN s |->
                            IF T = {} THEN NewPatrol
                            ELSE PatrolEvent(g[T \ {Max(T)}], s[Max(T)])]
                  /\ FoldLeft(PatrolEvent, NewPatrol, s) = g[DOMAIN s]
<1> DEFINE E == PatrolEvents
           M == PatrolManifests
           F == [p \in M \X E |-> PatrolEvent(p[1], p[2])]
           n == Len(s)
<1>1. n \in Nat /\ DOMAIN s = 1..n /\ \A i \in 1..n : s[i] \in E
    OBVIOUS
<1>2. F \in [M \X E -> M]
    BY PatrolTyped
<1>3. \A m \in M, e \in E : F[<<m, e>>] = PatrolEvent(m, e)
    OBVIOUS
<1> HIDE DEF E, M, F, n
<1>4. PICK g : LeftTable(F, NewPatrol, s, 1..n, g)
    BY <1>1, LeftTableExists
<1>5. NewPatrol \in M
    BY PatrolTyped DEF M
<1>6. \A T \in SUBSET (1..n) : g[T] \in M /\ (T # {} => Max(T) \in T)
    BY <1>1, <1>2, <1>4, <1>5, LeftTableTyped
<1> DEFINE Table(h) == h = [T \in SUBSET DOMAIN s |->
                                IF T = {} THEN NewPatrol
                                ELSE PatrolEvent(h[T \ {Max(T)}], s[Max(T)])]
           c == CHOOSE h : Table(h)
<1>7. ASSUME NEW T \in SUBSET (1..n)
      PROVE  g[T] = IF T = {} THEN NewPatrol
                    ELSE PatrolEvent(g[T \ {Max(T)}], s[Max(T)])
    <2>1. CASE T = {}
        BY <1>4, <2>1 DEF LeftTable
    <2>2. CASE T # {}
        <3>1. Max(T) \in 1..n /\ T \ {Max(T)} \in SUBSET (1..n)
            BY <1>6, <2>2
        <3>2. g[T] = F[<<g[T \ {Max(T)}], s[Max(T)]>>]
            BY <1>4, <2>2 DEF LeftTable
        <3> QED
            BY <1>1, <1>3, <1>6, <2>2, <3>1, <3>2
    <2> QED
        BY <2>1, <2>2
<1>8. Table(g)
    BY <1>1, <1>4, <1>7 DEF LeftTable
<1>9. FoldLeft(PatrolEvent, NewPatrol, s) = c[DOMAIN s]
    BY DEF FoldLeft, MapThenFoldSet, c, Table
<1> HIDE DEF Table
<1>10. Table(c)
    BY <1>8 DEF c
<1> QED
    BY <1>9, <1>10 DEF Table

\* How many visits lasted so long, when another is added.
LongOnes(dwell, d) == {j \in DOMAIN dwell : dwell[j] >= d}

LEMMA LongAppended ==
    ASSUME NEW dwell \in Seq(Nat), NEW v \in Nat, NEW d \in Nat
    PROVE  Cardinality(LongOnes(Append(dwell, v), d)) =
                Cardinality(LongOnes(dwell, d)) + (IF v >= d THEN 1 ELSE 0)
<1> DEFINE n == Len(dwell)
           L == LongOnes(dwell, d)
<1>1. n \in Nat /\ L \subseteq 1..n
    BY DEF LongOnes
<1>2. LongOnes(Append(dwell, v), d) = IF v >= d THEN L \cup {n + 1} ELSE L
    <2>1. DOMAIN dwell = 1..n /\ DOMAIN Append(dwell, v) = 1..(n + 1)
        OBVIOUS
    <2>2. \A j \in 1..n : Append(dwell, v)[j] = dwell[j]
        OBVIOUS
    <2>3. Append(dwell, v)[n + 1] = v
        OBVIOUS
    <2> QED
        BY <2>1, <2>2, <2>3 DEF LongOnes
<1>3. n + 1 \notin L /\ IsFiniteSet(L) /\ Cardinality(L) \in 0..n
    BY <1>1, CountBound
<1>4. Cardinality(L \cup {n + 1}) = Cardinality(L) + 1
    BY <1>3, FS_AddElement
<1> HIDE DEF n
<1>5. CASE v >= d
    BY <1>2, <1>4, <1>5
<1>6. CASE ~ (v >= d)
    BY <1>2, <1>3, <1>6
<1> QED
    BY <1>5, <1>6

Checkpoints(s, T) == {i \in T : s[i].type = "checkpoint"}

LongAmong(s, T, d) == {i \in T : s[i].type = "checkpoint" /\ s[i].seconds >= d}

\* What the manifest of a patrol tells of the events of T: how many visits, to which
\* checkpoints, how many of them lasted how long, and the configuration, if one came.
PatrolSoFar(s, T, m) ==
    /\ m \in PatrolManifests
    /\ Len(m.checkpointsVisited) = Cardinality(Checkpoints(s, T))
    /\ Len(m.dwellSeconds) = Cardinality(Checkpoints(s, T))
    /\ \A c : (\E j \in 1..Len(m.checkpointsVisited) : m.checkpointsVisited[j] = c)
                <=> \E i \in Checkpoints(s, T) : s[i].id = c
    /\ \A d \in Nat : Cardinality(LongOnes(m.dwellSeconds, d)) = Cardinality(LongAmong(s, T, d))
    /\ (\A i \in T : s[i].type # "config") =>
            m.checkpointsRequired = Absent /\ m.minDwellRequired = Absent
    /\ \A i \in T : s[i].type = "config" =>
            m.checkpointsRequired = s[i].required /\ m.minDwellRequired = s[i].minDwell

\* ... with one more event, ...
LEMMA PatrolStep ==
    ASSUME NEW s \in Seq(PatrolEvents), NEW T \in SUBSET DOMAIN s, NEW x \in T, NEW m,
           OneOfType(s, "config"), PatrolSoFar(s, T \ {x}, m)
    PROVE  PatrolSoFar(s, T, PatrolEvent(m, s[x]))
<1> DEFINE k == PatrolEvent(m, s[x])
           U == T \ {x}
<1>1. s[x] \in PatrolEvents /\ m \in PatrolManifests /\ k \in PatrolManifests
    BY PatrolTyped DEF PatrolSoFar
<1>2. \A V \in SUBSET DOMAIN s : IsFiniteSet(V)
    BY CountBound
<1> HIDE DEF k
<1>3. CASE s[x].type = "checkpoint"
    <2>1. /\ k.checkpointsVisited = Append(m.checkpointsVisited, s[x].id)
          /\ k.dwellSeconds = Append(m.dwellSeconds, s[x].seconds)
          /\ k.checkpointsRequired = m.checkpointsRequired
          /\ k.minDwellRequired = m.minDwellRequired
        BY <1>1, <1>3 DEF k, PatrolEvent, PatrolManifests
    <2>2. /\ s[x].id \in CheckpointNames /\ s[x].seconds \in Nat
          /\ m.checkpointsVisited \in Seq(CheckpointNames) /\ m.dwellSeconds \in Seq(Nat)
        BY <1>1, <1>3 DEF PatrolManifests, PatrolEvents, OtherEvents
    <2>3. Cardinality(Checkpoints(s, T)) = Cardinality(Checkpoints(s, U)) + 1
        <3>1. Checkpoints(s, T) = Checkpoints(s, U) \cup {x} /\ x \notin Checkpoints(s, U)
            BY <1>3 DEF Checkpoints
        <3>2. IsFiniteSet(Checkpoints(s, U))
            BY <1>2 DEF Checkpoints
        <3> QED
            BY <3>1, <3>2, FS_AddElement
    <2>4. /\ Len(k.checkpointsVisited) = Cardinality(Checkpoints(s, T))
          /\ Len(k.dwellSeconds) = Cardinality(Checkpoints(s, T))
        BY <2>1, <2>2, <2>3 DEF PatrolSoFar
    <2>5. ASSUME NEW c
          PROVE  (\E j \in 1..Len(k.checkpointsVisited) : k.checkpointsVisited[j] = c)
                    <=> \E i \in Checkpoints(s, T) : s[i].id = c
        <3> DEFINE n == Len(m.checkpointsVisited)
        <3>1. (\E j \in 1..Len(k.checkpointsVisited) : k.checkpointsVisited[j] = c)
                <=> (\E j \in 1..n : m.checkpointsVisited[j] = c) \/ s[x].id = c
            <4>1. n \in Nat /\ Len(k.checkpointsVisited) = n + 1
                BY <2>1, <2>2
            <4>2. \A j \in 1..n : k.checkpointsVisited[j] = m.checkpointsVisited[j]
                BY <2>1, <2>2
            <4>3. k.checkpointsVisited[n + 1] = s[x].id
                BY <2>1, <2>2
            <4>4. 1..Len(k.checkpointsVisited) = 1..n \cup {n + 1}
                BY <4>1
            <4> HIDE DEF n
            <4>5. (\E j \in 1..n \cup {n + 1} : k.checkpointsVisited[j] = c)
                    <=> (\E j \in 1..n : k.checkpointsVisited[j] = c)
                            \/ k.checkpointsVisited[n + 1] = c
                OBVIOUS
            <4> QED
                BY <4>2, <4>3, <4>4, <4>5
        <3>2. (\E i \in Checkpoints(s, T) : s[i].id = c)
                <=> (\E i \in Checkpoints(s, U) : s[i].id = c) \/ s[x].id = c
            BY <1>3 DEF Checkpoints
        <3>3. (\E j \in 1..n : m.checkpointsVisited[j] = c)
                <=> \E i \in Checkpoints(s, U) : s[i].id = c
            BY DEF PatrolSoFar
        <3> QED
            BY <3>1, <3>2, <3>3
    <2>6. ASSUME NEW d \in Nat
          PROVE  Cardinality(LongOnes(k.dwellSeconds, d)) = Cardinality(LongAmong(s, T, d))
        <3>1. Cardinality(LongOnes(k.dwellSeconds, d)) =
                Cardinality(LongOnes(m.dwellSeconds, d)) + (IF s[x].seconds >= d THEN 1 ELSE 0)
            BY <2>1, <2>2, LongAppended
        <3>2. LongAmong(s, T, d) =
                IF s[x].seconds >= d THEN LongAmong(s, U, d) \cup {x} ELSE LongAmong(s, U, d)
            BY <1>3 DEF LongAmong
        <3>3. x \notin LongAmong(s, U, d) /\ IsFiniteSet(LongAmong(s, U, d))
            BY <1>2 DEF LongAmong
        <3>4. Cardinality(LongAmong(s, T, d)) =
                Cardinality(LongAmong(s, U, d)) + (IF s[x].seconds >= d THEN 1 ELSE 0)
            <4>1. /\ Cardinality(LongAmong(s, U, d) \cup {x}) = Cardinality(LongAmong(s, U, d)) + 1
                  /\ Cardinality(LongAmong(s, U, d)) \in Nat
                BY <3>3, FS_AddElement, FS_CardinalityType
            <4>2. CASE s[x].seconds >= d
                BY <3>2, <4>1, <4>2
            <4>3. CASE ~ (s[x].seconds >= d)
                BY <3>2, <4>1, <4>3
            <4> QED
                BY <4>2, <4>3
        <3>5. Cardinality(LongOnes(m.dwellSeconds, d)) = Cardinality(LongAmong(s, U, d))
            BY DEF PatrolSoFar
        <3> QED
            BY <3>1, <3>4, <3>5
    <2>7. /\ (\A i \in T : s[i].type # "config") =>
                k.checkpointsRequired = Absent /\ k.minDwellRequired = Absent
          /\ \A i \in T : s[i].type = "config" =>
                k.checkpointsRequired = s[i].required /\ k.minDwellRequired = s[i].minDwell
        BY <1>3, <2>1 DEF PatrolSoFar
    <2> QED
        BY <1>1, <2>4, <2>5, <2>6, <2>7 DEF PatrolSoFar, k
<1>4. ASSUME s[x].type # "checkpoint", k.checkpointsVisited = m.checkpointsVisited,
             k.dwellSeconds = m.dwellSeconds
      PROVE  /\ Len(k.checkpointsVisited) = Cardinality(Checkpoints(s, T))
             /\ Len(k.dwellSeconds) = Cardinality(Checkpoints(s, T))
             /\ \A c : (\E j \in 1..Len(k.checkpointsVisited) : k.checkpointsVisited[j] = c)
                        <=> \E i \in Checkpoints(s, T) : s[i].id = c
             /\ \A d \in Nat :
                    Cardinality(LongOnes(k.dwellSeconds, d)) = Cardinality(LongAmong(s, T, d))
    <2>1. Checkpoints(s, T) = Checkpoints(s, U) /\ \A d : LongAmong(s, T, d) = LongAmong(s, U, d)
        BY <1>4 DEF Checkpoints, LongAmong
    <2> QED
        BY <1>4, <2>1 DEF PatrolSoFar
<1>5. CASE s[x].type = "config"
    <2>1. /\ k.checkpointsVisited = m.checkpointsVisited /\ k.dwellSeconds = m.dwellSeconds
          /\ k.checkpointsRequired = OrElse(s[x].required, m.checkpointsRequired)
          /\ k.minDwellRequired = OrElse(s[x].minDwell, m.minDwellRequired)
        BY <1>1, <1>5 DEF k, PatrolEvent, PatrolManifests
    <2>2. \A i \in T : s[i].type = "config" => s[i] = s[x]
        BY <1>5 DEF OneOfType
    <2>3. \/ m.checkpointsRequired = Absent /\ m.minDwellRequired = Absent
          \/ m.checkpointsRequired = s[x].required /\ m.minDwellRequired = s[x].minDwell
        BY <2>2 DEF PatrolSoFar
    <2>4. k.checkpointsRequired = s[x].required /\ k.minDwellRequired = s[x].minDwell
        BY <2>1, <2>3 DEF OrElse
    <2> QED
        BY <1>1, <1>4, <1>5, <2>1, <2>2, <2>4 DEF PatrolSoFar, k
<1>6. CASE s[x].type \in {"start", "end", "route"}
    <2>1. /\ k.checkpointsVisited = m.checkpointsVisited /\ k.dwellSeconds = m.dwellSeconds
          /\ k.checkpointsRequired = m.checkpointsRequired
          /\ k.minDwellRequired = m.minDwellRequired
        BY <1>1, <1>6 DEF k, PatrolEvent, TimeOrRoute, PatrolManifests
    <2>2. /\ (\A i \in T : s[i].type # "config") =>
                k.checkpointsRequired = Absent /\ k.minDwellRequired = Absent
          /\ \A i \in T : s[i].type = "config" =>
                k.checkpointsRequired = s[i].required /\ k.minDwellRequired = s[i].minDwell
        BY <1>6, <2>1 DEF PatrolSoFar
    <2> QED
        BY <1>1, <1>4, <1>6, <2>1, <2>2 DEF PatrolSoFar, k
<1> QED
    BY <1>1, <1>3, <1>5, <1>6 DEF PatrolEvents, OtherEvents

\* ... and of all of them.
LEMMA PatrolBuilt ==
    ASSUME NEW s \in Seq(PatrolEvents), OneOfType(s, "config")
    PROVE  PatrolSoFar(s, DOMAIN s, FoldLeft(PatrolEvent, NewPatrol, s))
<1>1. PICK g : /\ g = [T \in SUBSET DOMAIN s |->
                          IF T = {} THEN NewPatrol
                          ELSE PatrolEvent(g[T \ {Max(T)}], s[Max(T)])]
               /\ FoldLeft(PatrolEvent, NewPatrol, s) = g[DOMAIN s]
    BY PatrolFold
<1> DEFINE D == DOMAIN s
           Good == {T \in SUBSET D : PatrolSoFar(s, T, g[T])}
<1>2. D = 1..Len(s) /\ Len(s) \in Nat
    OBVIOUS
<1>3. IsFiniteSet(D)
    BY <1>2, CountBound
<1>4. ASSUME NEW T \in SUBSET D, T # {}
      PROVE  Max(T) \in T /\ g[T] = PatrolEvent(g[T \ {Max(T)}], s[Max(T)])
    BY <1>1, <1>2, <1>4, MaxIn
<1>5. PatrolSoFar(s, {}, g[{}])
    <2>1. g[{}] = NewPatrol
        BY <1>1
    <2>2. /\ NewPatrol.checkpointsVisited = <<>> /\ NewPatrol.dwellSeconds = <<>>
          /\ NewPatrol.checkpointsRequired = Absent /\ NewPatrol.minDwellRequired = Absent
        BY DEF NewPatrol
    <2>3. Cardinality(Checkpoints(s, {})) = 0
        <3>1. Checkpoints(s, {}) = {}
            BY DEF Checkpoints
        <3> QED
            BY <3>1, FS_EmptySet
    <2>4. \A d : Cardinality(LongAmong(s, {}, d)) = 0 /\ Cardinality(LongOnes(<<>>, d)) = 0
        <3>1. \A d : LongAmong(s, {}, d) = {} /\ LongOnes(<<>>, d) = {}
            BY DEF LongAmong, LongOnes
        <3>2. Cardinality({}) = 0
            BY FS_EmptySet
        <3> QED
            BY <3>1, <3>2
    <2>5. \A c : ~ \E i \in Checkpoints(s, {}) : s[i].id = c
        BY DEF Checkpoints
    <2>6. Len(NewPatrol.checkpointsVisited) = 0 /\ Len(NewPatrol.dwellSeconds) = 0
        BY <2>2
    <2>7. \A c : ~ \E j \in 1..Len(NewPatrol.checkpointsVisited) :
                        NewPatrol.checkpointsVisited[j] = c
        BY <2>6
    <2>8. NewPatrol \in PatrolManifests
        BY PatrolTyped
    <2>9. \A d \in Nat : Cardinality(LongOnes(NewPatrol.dwellSeconds, d)) =
                            Cardinality(LongAmong(s, {}, d))
        BY <2>2, <2>4
    <2>10. PatrolSoFar(s, {}, NewPatrol)
        BY <2>2, <2>3, <2>5, <2>6, <2>7, <2>8, <2>9 DEF PatrolSoFar
    <2> QED
        BY <2>1, <2>10
<1> HIDE DEF D
<1>6. \A T \in SUBSET D : (\A U \in SUBSET T : U # T => U \in Good) => T \in Good
    <2> SUFFICES ASSUME NEW T \in SUBSET D, \A U \in SUBSET T : U # T => U \in Good
                 PROVE  PatrolSoFar(s, T, g[T])
        OBVIOUS
    <2>1. CASE T # {}
        <3>1. Max(T) \in T
            BY <1>4, <2>1
        <3>2. PatrolSoFar(s, T \ {Max(T)}, g[T \ {Max(T)}])
            BY <3>1
        <3> QED
            BY <1>4, <2>1, <3>1, <3>2, PatrolStep DEF D
    <2> QED
        BY <1>5, <2>1
<1> HIDE DEF Good
<1>7. SUBSET D \subseteq Good
    BY <1>3, <1>6, SubsetInduction
<1> QED
    BY <1>1, <1>7 DEF D, Good

-------------------------------------------------------------------------------
(* Two arrivals of one bundle, and what they result in. *)

\* Two arrivals of one bundle.
SameBundle(s, t, bundle) == ArrivesAs(s, bundle) /\ ArrivesAs(t, bundle) /\ Replaces(bundle)

\* So one event of a type came in, but for lists.
LEMMA OneOfBundle ==
    ASSUME NEW bundle, NEW s, ArrivesAs(s, bundle), Replaces(bundle), NEW type,
           type \notin ListEvents
    PROVE  OneOfType(s, type)
BY DEF ArrivesAs, Replaces, OneOfType

\* What there is among the events of an arrival is what there is in the bundle.
LEMMA SomeOfBundle ==
    ASSUME NEW bundle, NEW s, ArrivesAs(s, bundle)
    PROVE  \A Q \in SUBSET bundle : (\E i \in DOMAIN s : s[i] \in Q) <=> Q # {}
BY DEF ArrivesAs

\* What two manifests of an inspection have to share to be scored alike.
InspectionAlike(m, k) ==
    /\ m \in InspectionManifests /\ k \in InspectionManifests
    /\ m.coverageVisited = k.coverageVisited /\ m.coverageTotal = k.coverageTotal
    /\ m.artifacts = k.artifacts

\* They do, of two arrivals of one bundle.
LEMMA InspectionOnce ==
    ASSUME NEW bundle \in SUBSET InspectionEvents, NEW s, NEW t, SameBundle(s, t, bundle)
    PROVE  InspectionAlike(FoldLeft(InspectionEvent, NewInspection, s),
                           FoldLeft(InspectionEvent, NewInspection, t))
<1> DEFINE m == FoldLeft(InspectionEvent, NewInspection, s)
           k == FoldLeft(InspectionEvent, NewInspection, t)
           Q == {e \in bundle : e.type = "artifact"}
<1>1. ASSUME NEW u, ArrivesAs(u, bundle)
      PROVE  /\ InspectionSoFar(u, DOMAIN u, FoldLeft(InspectionEvent, NewInspection, u))
             /\ Cardinality({i \in DOMAIN u : u[i].type = "artifact"}) = Cardinality(Q)
    <2>1. u \in Seq(InspectionEvents)
        BY <1>1 DEF ArrivesAs
    <2>2. OneOfType(u, "coverage")
        BY <1>1, OneOfBundle DEF SameBundle, ListEvents
    <2>3. {i \in DOMAIN u : u[i].type = "artifact"} = {i \in DOMAIN u : u[i] \in Q}
        BY <1>1 DEF ArrivesAs
    <2>4. Cardinality({i \in DOMAIN u : u[i] \in Q}) = Cardinality(Q)
        <3>1. Q \in SUBSET bundle /\ \A e \in Q : e.type \in ListEvents
            BY DEF ListEvents
        <3> HIDE DEF Q
        <3> QED
            BY <1>1, <3>1, CountOnce
    <2> QED
        BY <2>1, <2>2, <2>3, <2>4, InspectionBuilt
<1>2. InspectionSoFar(s, DOMAIN s, m) /\ InspectionSoFar(t, DOMAIN t, k)
    BY <1>1 DEF SameBundle
<1>3. m.artifacts = Cardinality(Q) /\ k.artifacts = Cardinality(Q)
    <2>1. /\ m.artifacts = Cardinality({i \in DOMAIN s : s[i].type = "artifact"})
          /\ k.artifacts = Cardinality({i \in DOMAIN t : t[i].type = "artifact"})
        BY <1>2 DEF InspectionSoFar
    <2> QED
        BY <1>1, <2>1 DEF SameBundle
<1> HIDE DEF m, k, Q
<1>4. m.coverageVisited = k.coverageVisited /\ m.coverageTotal = k.coverageTotal
    <2>1. CASE \E e \in bundle : e.type = "coverage"
        <3>1. PICK e \in bundle : e.type = "coverage"
            BY <2>1
        <3>2. PICK i \in DOMAIN s : s[i] = e
            BY DEF SameBundle, ArrivesAs
        <3>3. PICK j \in DOMAIN t : t[j] = e
            BY DEF SameBundle, ArrivesAs
        <3> QED
            BY <1>2, <3>1, <3>2, <3>3 DEF InspectionSoFar
    <2>2. CASE ~ \E e \in bundle : e.type = "coverage"
        <3>1. (\A i \in DOMAIN s : s[i] \in bundle) /\ \A i \in DOMAIN t : t[i] \in bundle
            BY DEF SameBundle, ArrivesAs
        <3> QED
            BY <1>2, <2>2, <3>1 DEF InspectionSoFar
    <2> QED
        BY <2>1, <2>2
<1> QED
    BY <1>2, <1>3, <1>4 DEF InspectionAlike, InspectionSoFar, m, k

\* For a delivery the time of the end matters if the dropoff has none.
DeliveryAlike(m, k) ==
    /\ m \in DeliveryManifests /\ k \in DeliveryManifests
    /\ m.pickupProof = k.pickupProof /\ m.dropoffProof = k.dropoffProof /\ m.route = k.route
    /\ m.dropoffTs = k.dropoffTs /\ (m.dropoffTs = 0 => m.endTs = k.endTs)

LEMMA DeliveryOnce ==
    ASSUME NEW bundle \in SUBSET DeliveryEvents, NEW s, NEW t, SameBundle(s, t, bundle)
    PROVE  DeliveryAlike(FoldLeft(DeliveryEvent, NewDelivery, s),
                         FoldLeft(DeliveryEvent, NewDelivery, t))
<1> DEFINE m == FoldLeft(DeliveryEvent, NewDelivery, s)
           k == FoldLeft(DeliveryEvent, NewDelivery, t)
<1>1. ASSUME NEW u, ArrivesAs(u, bundle)
      PROVE  DeliverySoFar(u, DOMAIN u, FoldLeft(DeliveryEvent, NewDelivery, u))
    <2>1. u \in Seq(DeliveryEvents)
        BY <1>1 DEF ArrivesAs
    <2>2. OneOfType(u, "pickup") /\ OneOfType(u, "dropoff") /\ OneOfType(u, "end")
        BY <1>1, OneOfBundle DEF SameBundle, ListEvents
    <2> QED
        BY <2>1, <2>2, DeliveryBuilt
<1>2. DeliverySoFar(s, DOMAIN s, m) /\ DeliverySoFar(t, DOMAIN t, k)
    BY <1>1 DEF SameBundle
<1> HIDE DEF m, k
<1>3. /\ \A i \in DOMAIN s : s[i] \in bundle /\ \E j \in DOMAIN t : t[j] = s[i]
      /\ \A j \in DOMAIN t : t[j] \in bundle /\ \E i \in DOMAIN s : s[i] = t[j]
    BY DEF SameBundle, ArrivesAs
<1>4. /\ m.pickupProof <=> k.pickupProof
      /\ m.dropoffProof <=> k.dropoffProof
      /\ m.route <=> k.route
    BY <1>2, <1>3 DEF DeliverySoFar
<1>5. m.dropoffTs = k.dropoffTs
    <2>1. CASE \E i \in DOMAIN s : s[i].type = "dropoff"
        <3>1. PICK i \in DOMAIN s : s[i].type = "dropoff"
            BY <2>1
        <3>2. PICK j \in DOMAIN t : t[j] = s[i]
            BY <1>3
        <3> QED
            BY <1>2, <3>1, <3>2 DEF DeliverySoFar
    <2>2. CASE ~ \E i \in DOMAIN s : s[i].type = "dropoff"
        BY <1>2, <1>3, <2>2 DEF DeliverySoFar
    <2> QED
        BY <2>1, <2>2
<1>6. m.dropoffTs = 0 => m.endTs = k.endTs
    <2>1. CASE \E i \in DOMAIN s : s[i].type = "end"
        <3>1. PICK i \in DOMAIN s : s[i].type = "end"
            BY <2>1
        <3>2. PICK j \in DOMAIN t : t[j] = s[i]
            BY <1>3
        <3> QED
            BY <1>2, <1>5, <3>1, <3>2 DEF DeliverySoFar
    <2>2. CASE ~ \E i \in DOMAIN s : s[i].type = "end"
        BY <1>2, <1>3, <1>5, <2>2 DEF DeliverySoFar
    <2> QED
        BY <2>1, <2>2
<1>7. m \in DeliveryManifests /\ k \in DeliveryManifests
    BY <1>2 DEF DeliverySoFar
<1>8. m.pickupProof = k.pickupProof /\ m.dropoffProof = k.dropoffProof /\ m.route = k.route
    BY <1>4, <1>7 DEF DeliveryManifests
<1> QED
    BY <1>5, <1>6, <1>7, <1>8 DEF DeliveryAlike, m, k

\* For a patrol the order of the visits does not matter.
PatrolAlike(m, k) ==
    /\ m \in PatrolManifests /\ k \in PatrolManifests
    /\ Len(m.dwellSeconds) = Len(m.checkpointsVisited)
    /\ Len(k.dwellSeconds) = Len(k.checkpointsVisited)
    /\ Len(m.checkpointsVisited) = Len(k.checkpointsVisited)
    /\ \A c : Contains(m.checkpointsVisited, c) <=> Contains(k.checkpointsVisited, c)
    /\ \A d \in Nat : Cardinality(LongOnes(m.dwellSeconds, d)) =
                        Cardinality(LongOnes(k.dwellSeconds, d))
    /\ m.checkpointsRequired = k.checkpointsRequired
    /\ m.minDwellRequired = k.minDwellRequired

LEMMA PatrolOnce ==
    ASSUME NEW bundle \in SUBSET PatrolEvents, NEW s, NEW t, SameBundle(s, t, bundle)
    PROVE  PatrolAlike(FoldLeft(PatrolEvent, NewPatrol, s), FoldLeft(PatrolEvent, NewPatrol, t))
<1> DEFINE m == FoldLeft(PatrolEvent, NewPatrol, s)
           k == FoldLeft(PatrolEvent, NewPatrol, t)
           Q == {e \in bundle : e.type = "checkpoint"}
           L(d) == {e \in bundle : e.type = "checkpoint" /\ e.seconds >= d}
<1>1. ASSUME NEW u, ArrivesAs(u, bundle)
      PROVE  /\ PatrolSoFar(u, DOMAIN u, FoldLeft(PatrolEvent, NewPatrol, u))
             /\ Cardinality(Checkpoints(u, DOMAIN u)) = Cardinality(Q)
             /\ \A d : Cardinality(LongAmong(u, DOMAIN u, d)) = Cardinality(L(d))
    <2>1. u \in Seq(PatrolEvents) /\ \A i \in DOMAIN u : u[i] \in bundle
        BY <1>1 DEF ArrivesAs
    <2>2. OneOfType(u, "config")
        BY <1>1, OneOfBundle DEF SameBundle, ListEvents
    <2>3. Checkpoints(u, DOMAIN u) = {i \in DOMAIN u : u[i] \in Q}
        BY <2>1 DEF Checkpoints
    <2>4. Cardinality({i \in DOMAIN u : u[i] \in Q}) = Cardinality(Q)
        <3>1. Q \in SUBSET bundle /\ \A e \in Q : e.type \in ListEvents
            BY DEF ListEvents
        <3> HIDE DEF Q
        <3> QED
            BY <1>1, <3>1, CountOnce
    <2>5. ASSUME NEW d
          PROVE  Cardinality(LongAmong(u, DOMAIN u, d)) = Cardinality(L(d))
        <3> DEFINE R == L(d)
        <3>1. LongAmong(u, DOMAIN u, d) = {i \in DOMAIN u : u[i] \in R}
            BY <2>1 DEF LongAmong
        <3>2. R \in SUBSET bundle /\ \A e \in R : e.type \in ListEvents
            BY DEF ListEvents
        <3> HIDE DEF R
        <3>3. Cardinality({i \in DOMAIN u : u[i] \in R}) = Cardinality(R)
            BY <1>1, <3>2, CountOnce
        <3> QED
            BY <3>1, <3>3 DEF R
    <2>6. PatrolSoFar(u, DOMAIN u, FoldLeft(PatrolEvent, NewPatrol, u))
        BY <2>1, <2>2, PatrolBuilt
    <2> HIDE DEF Q, L
    <2> QED
        BY <2>3, <2>4, <2>5, <2>6
<1>2. PatrolSoFar(s, DOMAIN s, m) /\ PatrolSoFar(t, DOMAIN t, k)
    BY <1>1 DEF SameBundle
<1>3. /\ Cardinality(Checkpoints(s, DOMAIN s)) = Cardinality(Checkpoints(t, DOMAIN t))
      /\ \A d : Cardinality(LongAmong(s, DOMAIN s, d)) = Cardinality(LongAmong(t, DOMAIN t, d))
    BY <1>1 DEF SameBundle
<1> HIDE DEF m, k, Q, L
<1>4. m \in PatrolManifests /\ k \in PatrolManifests
    BY <1>2 DEF PatrolSoFar
<1>5. /\ Len(m.dwellSeconds) = Len(m.checkpointsVisited)
      /\ Len(k.dwellSeconds) = Len(k.checkpointsVisited)
      /\ Len(m.checkpointsVisited) = Len(k.checkpointsVisited)
    BY <1>2, <1>3 DEF PatrolSoFar
<1>6. /\ \A i \in DOMAIN s : s[i] \in bundle /\ \E j \in DOMAIN t : t[j] = s[i]
      /\ \A j \in DOMAIN t : t[j] \in bundle /\ \E i \in DOMAIN s : s[i] = t[j]
    BY DEF SameBundle, ArrivesAs
<1>7. ASSUME NEW c
      PROVE  Contains(m.checkpointsVisited, c) <=> Contains(k.checkpointsVisited, c)
    <2>1. (\E i \in Checkpoints(s, DOMAIN s) : s[i].id = c)
            <=> \E j \in Checkpoints(t, DOMAIN t) : t[j].id = c
        BY <1>6 DEF Checkpoints
    <2>2. Contains(m.checkpointsVisited, c) <=> \E i \in Checkpoints(s, DOMAIN s) : s[i].id = c
        BY <1>2 DEF PatrolSoFar, Contains
    <2>3. Contains(k.checkpointsVisited, c) <=> \E i \in Checkpoints(t, DOMAIN t) : t[i].id = c
        BY <1>2 DEF PatrolSoFar, Contains
    <2> QED
        BY <2>1, <2>2, <2>3
<1>8. \A d \in Nat : Cardinality(LongOnes(m.dwellSeconds, d)) =
                        Cardinality(LongOnes(k.dwellSeconds, d))
    BY <1>2, <1>3 DEF PatrolSoFar
<1>9. m.checkpointsRequired = k.checkpointsRequired /\ m.minDwellRequired = k.minDwellRequired
    <2>1. CASE \E i \in DOMAIN s : s[i].type = "config"
        <3>1. PICK i \in DOMAIN s : s[i].type = "config"
            BY <2>1
        <3>2. PICK j \in DOMAIN t : t[j] = s[i]
            BY <1>6
        <3> QED
            BY <1>2, <3>1, <3>2 DEF PatrolSoFar
    <2>2. CASE ~ \E i \in DOMAIN s : s[i].type = "config"
        BY <1>2, <1>6, <2>2 DEF PatrolSoFar
    <2> QED
        BY <2>1, <2>2
<1> QED
    BY <1>4, <1>5, <1>7, <1>8, <1>9 DEF PatrolAlike, m, k

\* A result depends on the score, the units and the validity of what was built.
LEMMA SameScores ==
    ASSUME NEW service, NEW s, NEW t, NEW spec, NEW now, NEW m, NEW k,
           m = BuildManifest(service, s, spec, now), k = BuildManifest(service, t, spec, now),
           m.serviceType = k.serviceType,
           ComputeQualityScore(m, spec) = ComputeQualityScore(k, spec),
           ComputeWorkUnits(m) = ComputeWorkUnits(k), ValidManifest(m) <=> ValidManifest(k)
    PROVE  BuiltResult(service, s, spec, now) = BuiltResult(service, t, spec, now)
<1>1. VerifyCompletion(m, spec) = VerifyCompletion(k, spec)
    BY DEF VerifyCompletion
<1>2. ProofData(m, spec) = ProofData(k, spec)
    BY DEF ProofData
<1> QED
    BY <1>1, <1>2 DEF BuiltResult

\* So an inspection has one result, ...
LEMMA InspectionResult ==
    ASSUME NEW bundle \in SUBSET InspectionEvents, NEW s, NEW t, SameBundle(s, t, bundle),
           NEW spec, NEW now
    PROVE  BuiltResult("inspection", s, spec, now) = BuiltResult("inspection", t, spec, now)
<1> DEFINE m == BuildManifest("inspection", s, spec, now)
           k == BuildManifest("inspection", t, spec, now)
           f == FoldLeft(InspectionEvent, NewInspection, s)
           g == FoldLeft(InspectionEvent, NewInspection, t)
<1>1. InspectionAlike(f, g)
    BY InspectionOnce
<1>2. m = Timed(f, 300, now) /\ k = Timed(g, 300, now)
    BY DEF BuildManifest, BuildInspection
<1> HIDE DEF m, k, f, g
<1>3. /\ m.serviceType = "inspection" /\ k.serviceType = "inspection"
      /\ m.coverageVisited = k.coverageVisited /\ m.coverageTotal = k.coverageTotal
      /\ m.artifacts = k.artifacts
    BY <1>1, <1>2 DEF InspectionAlike, InspectionManifests, Timed
<1>4. /\ ComputeQualityScore(m, spec) = ComputeQualityScore(k, spec)
      /\ ComputeWorkUnits(m) = ComputeWorkUnits(k)
    BY <1>3 DEF ComputeQualityScore, ComputeWorkUnits
<1>5. ValidManifest(m) <=> ValidManifest(k)
    BY <1>3 DEF ValidManifest, ValidInspection
<1> QED
    BY <1>3, <1>4, <1>5, SameScores DEF m, k

\* ... and a delivery, ...
LEMMA DeliveryResult ==
    ASSUME NEW bundle \in SUBSET DeliveryEvents, NEW s, NEW t, SameBundle(s, t, bundle),
           NEW spec, NEW now
    PROVE  BuiltResult("delivery", s, spec, now) = BuiltResult("delivery", t, spec, now)
<1> DEFINE m == BuildManifest("delivery", s, spec, now)
           k == BuildManifest("delivery", t, spec, now)
           f == FoldLeft(DeliveryEvent, NewDelivery, s)
           g == FoldLeft(DeliveryEvent, NewDelivery, t)
<1>1. DeliveryAlike(f, g)
    BY DeliveryOnce
<1>2. m = Timed(f, 900, now) /\ k = Timed(g, 900, now)
    BY DEF BuildManifest, BuildDelivery
<1> HIDE DEF m, k, f, g
<1>3. /\ m.serviceType = "delivery" /\ k.serviceType = "delivery"
      /\ m.pickupProof = k.pickupProof /\ m.dropoffProof = k.dropoffProof /\ m.route = k.route
      /\ m.dropoffTs = k.dropoffTs /\ (m.dropoffTs = 0 => m.endTs = k.endTs)
    BY <1>1, <1>2 DEF DeliveryAlike, DeliveryManifests, Timed
<1>4. ASSUME NEW from, NEW to
      PROVE  ModuleOnTime(m.endTs, m.dropoffTs, from, to) =
             ModuleOnTime(k.endTs, k.dropoffTs, from, to)
    BY <1>3 DEF ModuleOnTime
<1>5. DeliveryQuality(m, spec) = DeliveryQuality(k, spec)
    BY <1>3, <1>4 DEF DeliveryQuality
<1>6. /\ ComputeQualityScore(m, spec) = ComputeQualityScore(k, spec)
      /\ ComputeWorkUnits(m) = ComputeWorkUnits(k)
    BY <1>3, <1>5 DEF ComputeQualityScore, ComputeWorkUnits
<1>7. ValidManifest(m) <=> ValidManifest(k)
    BY <1>3 DEF ValidManifest, ValidDelivery
<1> QED
    BY <1>3, <1>6, <1>7, SameScores DEF m, k

\* The same checkpoints, in another order.
SameOnes(v, w) == \A c : Contains(v, c) <=> Contains(w, c)

\* The score of a patrol is in the number of its visits, of those that lasted, and in which
\* checkpoints are among them.
LEMMA PatrolScoredAlike ==
    ASSUME NEW v \in Seq(CheckpointNames), NEW w \in Seq(CheckpointNames), Len(v) = Len(w),
           SameOnes(v, w),
           NEW p \in Seq(Nat), NEW q \in Seq(Nat), Len(p) = Len(v), Len(q) = Len(w),
           NEW required, NEW minDwell \in Nat,
           Cardinality(LongOnes(p, minDwell)) = Cardinality(LongOnes(q, minDwell))
    PROVE  ModulePatrol(v, p, required, minDwell) = ModulePatrol(w, q, required, minDwell)
<1>1. {i \in DOMAIN required : Contains(v, required[i])} =
      {i \in DOMAIN required : Contains(w, required[i])}
    BY DEF SameOnes
<1>2. /\ {i \in DOMAIN v \cap DOMAIN p : p[i] >= minDwell} = LongOnes(p, minDwell)
      /\ {i \in DOMAIN w \cap DOMAIN q : q[i] >= minDwell} = LongOnes(q, minDwell)
    <2>1. DOMAIN v = DOMAIN p /\ DOMAIN w = DOMAIN q
        OBVIOUS
    <2> QED
        BY <2>1 DEF LongOnes
<1>3. v = <<>> <=> w = <<>>
    BY EmptySeq
<1> QED
    BY <1>1, <1>2, <1>3 DEF ModulePatrol

\* A patrol that was required to visit what it visited has all of it.
LEMMA ScoredAgainstItself ==
    ASSUME NEW v \in Seq(CheckpointNames), NEW w \in Seq(CheckpointNames), Len(v) = Len(w),
           NEW p \in Seq(Nat), NEW q \in Seq(Nat), Len(p) = Len(v), Len(q) = Len(w),
           NEW minDwell \in Nat,
           Cardinality(LongOnes(p, minDwell)) = Cardinality(LongOnes(q, minDwell))
    PROVE  ModulePatrol(v, p, v, minDwell) = ModulePatrol(w, q, w, minDwell)
<1>1. ASSUME NEW u \in Seq(CheckpointNames)
      PROVE  {i \in DOMAIN u : Contains(u, u[i])} = DOMAIN u
    <2>1. \A i \in DOMAIN u : i \in 1..Len(u)
        OBVIOUS
    <2>2. \A i \in DOMAIN u : Contains(u, u[i])
        BY <2>1, Zenon DEF Contains
    <2> QED
        BY <2>2
<1>2. DOMAIN v = DOMAIN w
    OBVIOUS
<1>3. /\ {i \in DOMAIN v \cap DOMAIN p : p[i] >= minDwell} = LongOnes(p, minDwell)
      /\ {i \in DOMAIN w \cap DOMAIN q : q[i] >= minDwell} = LongOnes(q, minDwell)
    <2>1. DOMAIN v = DOMAIN p /\ DOMAIN w = DOMAIN q
        OBVIOUS
    <2> QED
        BY <2>1 DEF LongOnes
<1>4. v = <<>> <=> w = <<>>
    BY EmptySeq
<1>5. /\ {i \in DOMAIN v : Contains(v, v[i])} = DOMAIN v
      /\ {i \in DOMAIN w : Contains(w, w[i])} = DOMAIN v
    BY <1>1, <1>2
<1> QED
    BY <1>3, <1>4, <1>5 DEF ModulePatrol

\* ... and a patrol.
LEMMA PatrolResult ==
    ASSUME NEW bundle \in SUBSET PatrolEvents, NEW s, NEW t, SameBundle(s, t, bundle),
           NEW spec, spec.checkpoints \in Seq(Seq(CheckpointNames)), spec.minDwell \in Seq(Nat), NEW now
    PROVE  BuiltResult("security_patrol", s, spec, now) =
           BuiltResult("security_patrol", t, spec, now)
<1> DEFINE m == BuildManifest("security_patrol", s, spec, now)
           k == BuildManifest("security_patrol", t, spec, now)
           f == FoldLeft(PatrolEvent, NewPatrol, s)
           g == FoldLeft(PatrolEvent, NewPatrol, t)
<1>1. PatrolAlike(f, g)
    BY PatrolOnce
<1>2. /\ m = [Timed(f, 600, now) EXCEPT !.checkpointsRequired = OrElse(@, spec.checkpoints)]
      /\ k = [Timed(g, 600, now) EXCEPT !.checkpointsRequired = OrElse(@, spec.checkpoints)]
    BY DEF BuildManifest, BuildPatrol
<1> HIDE DEF m, k, f, g
<1>3. /\ m.serviceType = "security_patrol" /\ k.serviceType = "security_patrol"
      /\ m.checkpointsVisited = f.checkpointsVisited /\ m.dwellSeconds = f.dwellSeconds
      /\ k.checkpointsVisited = g.checkpointsVisited /\ k.dwellSeconds = g.dwellSeconds
      /\ m.checkpointsRequired = OrElse(f.checkpointsRequired, spec.checkpoints)
      /\ k.checkpointsRequired = OrElse(g.checkpointsRequired, spec.checkpoints)
      /\ m.minDwellRequired = f.minDwellRequired /\ k.minDwellRequired = g.minDwellRequired
    BY <1>1, <1>2 DEF PatrolAlike, PatrolManifests, Timed
<1> DEFINE r == OrElse(OrElse(f.checkpointsRequired, spec.checkpoints), spec.checkpoints)
           d == NumberOrElse(NumberOrElse(f.minDwellRequired, spec.minDwell), <<30>>)
<1>4. PICK minDwell \in Nat : minDwell = d[1]
    <2>1. f.minDwellRequired \in Seq(Nat) /\ <<30>> \in Seq(Nat)
        BY <1>1 DEF PatrolAlike, PatrolManifests
    <2>2. d \in Seq(Nat) /\ d # <<>>
        BY <2>1 DEF NumberOrElse, Absent
    <2> HIDE DEF d
    <2> QED
        BY <2>2, EmptySeq
<1>5. PICK v \in Seq(CheckpointNames), w \in Seq(CheckpointNames) :
            v = f.checkpointsVisited /\ w = g.checkpointsVisited
    BY <1>1 DEF PatrolAlike, PatrolManifests
<1>6. PICK p \in Seq(Nat), q \in Seq(Nat) : p = f.dwellSeconds /\ q = g.dwellSeconds
    BY <1>1 DEF PatrolAlike, PatrolManifests
<1>7. /\ Len(v) = Len(w) /\ Len(p) = Len(v) /\ Len(q) = Len(w)
      /\ SameOnes(v, w)
      /\ Cardinality(LongOnes(p, minDwell)) = Cardinality(LongOnes(q, minDwell))
    BY <1>1, <1>5, <1>6 DEF PatrolAlike, SameOnes
<1>8. /\ PatrolQuality(m, spec) = ModulePatrol(v, p, OrElse(r, <<v>>)[1], minDwell)
      /\ PatrolQuality(k, spec) = ModulePatrol(w, q, OrElse(r, <<w>>)[1], minDwell)
    BY <1>1, <1>3, <1>4, <1>5, <1>6 DEF PatrolQuality, PatrolAlike
<1> HIDE DEF r, d
<1>9. PatrolQuality(m, spec) = PatrolQuality(k, spec)
    <2>1. CASE r = Absent
        <3>1. OrElse(r, <<v>>)[1] = v /\ OrElse(r, <<w>>)[1] = w
            BY <2>1 DEF OrElse
        <3>2. ModulePatrol(v, p, v, minDwell) = ModulePatrol(w, q, w, minDwell)
            BY <1>7, ScoredAgainstItself
        <3> QED
            BY <1>8, <3>1, <3>2
    <2>2. CASE r # Absent
        <3>1. OrElse(r, <<v>>)[1] = r[1] /\ OrElse(r, <<w>>)[1] = r[1]
            BY <2>2 DEF OrElse
        <3>2. ModulePatrol(v, p, r[1], minDwell) = ModulePatrol(w, q, r[1], minDwell)
            BY <1>7, PatrolScoredAlike
        <3> QED
            BY <1>8, <3>1, <3>2
    <2> QED
        BY <2>1, <2>2
<1>10. /\ ComputeQualityScore(m, spec) = ComputeQualityScore(k, spec)
      /\ ComputeWorkUnits(m) = ComputeWorkUnits(k)
    BY <1>3, <1>5, <1>7, <1>9 DEF ComputeQualityScore, ComputeWorkUnits
<1>11. ValidManifest(m) <=> ValidManifest(k)
    BY <1>3, <1>5, <1>6, <1>7 DEF ValidManifest, ValidPatrol
<1> QED
    BY <1>3, <1>10, <1>11, SameScores DEF m, k

\* In whatever order the events of a bundle come in, its result is the same.
LEMMA AnyOrder ==
    ASSUME NEW bundle, NEW s, NEW t, SameBundle(s, t, bundle), NEW service, NEW spec, NEW now,
           \/ service = "inspection" /\ bundle \in SUBSET InspectionEvents
           \/ service = "delivery" /\ bundle \in SUBSET DeliveryEvents
           \/ /\ service = "security_patrol" /\ bundle \in SUBSET PatrolEvents
              /\ spec.checkpoints \in Seq(Seq(CheckpointNames)) /\ spec.minDwell \in Seq(Nat)
    PROVE  BuiltResult(service, s, spec, now) = BuiltResult(service, t, spec, now)
BY InspectionResult, DeliveryResult, PatrolResult

-------------------------------------------------------------------------------
(* The bundles and completions that are asked for. *)

\* Sets of a few are finite, and so are two together.
LEMMA FewFinite ==
    /\ \A S, T : IsFiniteSet(S) /\ IsFiniteSet(T) => IsFiniteSet(S \cup T)
    /\ \A a, b, c, d : IsFiniteSet({a, b, c, d})
<1>1. \A S, T : IsFiniteSet(S) /\ IsFiniteSet(T) => IsFiniteSet(S \cup T)
    BY FS_Union, Zenon
<1>2. ASSUME NEW a, NEW b, NEW c, NEW d
      PROVE  IsFiniteSet({a, b, c, d})
    <2>1. IsFiniteSet({a} \cup {b}) /\ IsFiniteSet({c} \cup {d})
        BY <1>1, FS_Singleton, Zenon
    <2>2. IsFiniteSet(({a} \cup {b}) \cup ({c} \cup {d}))
        BY <1>1, <2>1, Zenon
    <2>3. ({a} \cup {b}) \cup ({c} \cup {d}) = {a, b, c, d}
        OBVIOUS
    <2> QED
        BY <2>2, <2>3
<1> QED
    BY <1>1, <1>2, Zenon

\* There are finitely many events to choose from.
LEMMA EventsFinite == \A service \in Supported : IsFiniteSet(EventsOf(service))
<1>1. IsFiniteSet(EventsOf("inspection"))
    <2> DEFINE F(v, t) == [type |-> "coverage", visited |-> v, total |-> t]
               G(n) == [type |-> "artifact", nr |-> n]
               C == {F(3, 0), F(3, 4), F(5, 0), F(5, 4)}
               A == {G(1), G(2), At("route", 0), At("end", 9)}
    <2>1. IsFiniteSet(C \cup A)
        <3>1. IsFiniteSet(C) /\ IsFiniteSet(A)
            BY FewFinite, Zenon
        <3> QED
            BY <3>1, FewFinite, Zenon
    <2>2. \A v \in {3, 5}, t \in {0, 4} : F(v, t) \in C
        <3> HIDE DEF F
        <3> QED
            OBVIOUS
    <2>3. \A n \in 1..2 : G(n) \in A
        <3>1. 1..2 = {1, 2}
            OBVIOUS
        <3> HIDE DEF G
        <3> QED
            BY <3>1
    <2>4. At("route", 0) \in A /\ At("end", 9) \in A
        OBVIOUS
    <2>5. EventsOf("inspection") =
            {F(v, t) : v \in {3, 5}, t \in {0, 4}} \cup {G(n) : n \in 1..2}
                \cup {At("route", 0), At("end", 9)}
        BY DEF EventsOf
    <2> HIDE DEF F, G, C, A
    <2>6. EventsOf("inspection") \in SUBSET (C \cup A)
        BY <2>2, <2>3, <2>4, <2>5
    <2> QED
        BY <2>1, <2>6, FS_Subset
<1>2. IsFiniteSet(EventsOf("security_patrol"))
    <2> DEFINE V(i, s) == [type |-> "checkpoint", id |-> i, seconds |-> s]
               G(r, d) == [type |-> "config", required |-> r, minDwell |-> d]
               both == << <<"c1", "c2">> >>
               C == {V("c1", 31), V("c1", 90), V("c2", 31), V("c2", 90)}
               Of(r) == {G(r, Absent), G(r, <<0>>), G(r, <<60>>), At("end", 9)}
               All == ((C \cup Of(Absent)) \cup Of(<< <<>> >>)) \cup Of(both)
    <2>1. IsFiniteSet(All)
        <3>1. IsFiniteSet(C) /\ \A r : IsFiniteSet(Of(r))
            BY FewFinite, Zenon
        <3> HIDE DEF C, Of
        <3> QED
            BY <3>1, FewFinite, Zenon
    <2>2. \A i \in {"c1", "c2"}, s \in {31, 90} : V(i, s) \in C
        <3> HIDE DEF V
        <3> QED
            OBVIOUS
    <2>3. \A r \in {Absent, << <<>> >>, both}, d \in {Absent, <<0>>, <<60>>} : G(r, d) \in All
        <3>1. \A r, d : d \in {Absent, <<0>>, <<60>>} => G(r, d) \in Of(r)
            <4> HIDE DEF G
            <4> QED
                OBVIOUS
        <3>2. Of(Absent) \subseteq All /\ Of(<< <<>> >>) \subseteq All /\ Of(both) \subseteq All
            <4> HIDE DEF Of, C
            <4> QED
                OBVIOUS
        <3> HIDE DEF Of, G, All, both
        <3> QED
            BY <3>1, <3>2
    <2>4. At("end", 9) \in All
        OBVIOUS
    <2>5. EventsOf("security_patrol") =
            {V(i, s) : i \in {"c1", "c2"}, s \in {31, 90}}
                \cup {G(r, d) : r \in {Absent, << <<>> >>, both}, d \in {Absent, <<0>>, <<60>>}}
                \cup {At("end", 9)}
        BY DEF EventsOf
    <2>6. C \subseteq All
        OBVIOUS
    <2> HIDE DEF V, G, C, All, both
    <2>7. EventsOf("security_patrol") \in SUBSET All
        BY <2>2, <2>3, <2>4, <2>5, <2>6
    <2> QED
        BY <2>1, <2>7, FS_Subset
<1>3. IsFiniteSet(EventsOf("delivery"))
    <2> DEFINE F(t, p, a) == [type |-> t, proof |-> p, at |-> a]
               Of(t) == {F(t, TRUE, 0), F(t, TRUE, 7), F(t, FALSE, 0), F(t, FALSE, 7)}
               A == {At("route", 0), At("start", 2), At("end", 9), At("end", 9)}
               All == (Of("pickup") \cup Of("dropoff")) \cup A
    <2>1. IsFiniteSet(All)
        <3>1. IsFiniteSet(A) /\ \A t : IsFiniteSet(Of(t))
            BY FewFinite, Zenon
        <3> HIDE DEF A, Of
        <3> QED
            BY <3>1, FewFinite, Zenon
    <2>2. \A t \in {"pickup", "dropoff"}, p \in BOOLEAN, a \in {0, 7} : F(t, p, a) \in All
        <3>1. \A t, p, a : p \in BOOLEAN /\ a \in {0, 7} => F(t, p, a) \in Of(t)
            <4>1. BOOLEAN = {TRUE, FALSE}
                OBVIOUS
            <4> HIDE DEF F
            <4> QED
                BY <4>1
        <3>2. Of("pickup") \subseteq All /\ Of("dropoff") \subseteq All
            <4> HIDE DEF Of, A
            <4> QED
                OBVIOUS
        <3> HIDE DEF Of, F, All
        <3> QED
            BY <3>1, <3>2
    <2>3. {At("route", 0), At("start", 2), At("end", 9)} \subseteq All
        <3> HIDE DEF Of
        <3> QED
            OBVIOUS
    <2>4. EventsOf("delivery") =
            {F(t, p, a) : t \in {"pickup", "dropoff"}, p \in BOOLEAN, a \in {0, 7}}
                \cup {At("route", 0), At("start", 2), At("end", 9)}
        BY DEF EventsOf
    <2> HIDE DEF F, All
    <2>5. EventsOf("delivery") \in SUBSET All
        BY <2>2, <2>3, <2>4
    <2> QED
        BY <2>1, <2>5, FS_Subset
<1> QED
    BY <1>1, <1>2, <1>3 DEF Supported

\* Short sequences, which the bounds of the requests are made of.
LEMMA ShortSeqs ==
    /\ "c1" \in CheckpointNames /\ "c2" \in CheckpointNames
    /\ \A S : <<>> \in Seq(S)
    /\ \A S : \A a \in S : <<a>> \in Seq(S)
    /\ \A S : \A a, b \in S : <<a, b>> \in Seq(S)
<1>1. "c1" \in CheckpointNames /\ "c2" \in CheckpointNames
    BY DEF CheckpointNames
<1>2. ASSUME NEW S, NEW a \in S, NEW b \in S
      PROVE  <<a>> \in Seq(S) /\ <<a, b>> \in Seq(S)
    OBVIOUS
<1>3. \A S : <<>> \in Seq(S)
    OBVIOUS
<1> QED
    BY <1>1, <1>2, <1>3

LEMMA NamedSeqs ==
    /\ \A v \in {<<>>, <<"c1">>, <<"c2">>, <<"c1", "c1">>, <<"c1", "c2">>} : v \in Seq(CheckpointNames)
    /\ <<"c1", "c2", "c1">> \in Seq(CheckpointNames)
<1>1. \A S : \A a, b, c \in S : <<a, b, c>> \in Seq(S)
    OBVIOUS
<1>2. <<"c1", "c2", "c1">> \in Seq(CheckpointNames)
    BY <1>1, ShortSeqs, Zenon
<1>3. \A v \in {<<>>, <<"c1">>, <<"c2">>, <<"c1", "c1">>, <<"c1", "c2">>} : v \in Seq(CheckpointNames)
    BY ShortSeqs, Zenon
<1> QED
    BY <1>2, <1>3, Zenon

\* The events to choose from are those of the service.
LEMMA EventsTyped ==
    /\ EventsOf("inspection") \subseteq InspectionEvents
    /\ EventsOf("security_patrol") \subseteq PatrolEvents
    /\ EventsOf("delivery") \subseteq DeliveryEvents
<1>1. At("route", 0) \in OtherEvents /\ At("start", 2) \in OtherEvents /\ At("end", 9) \in OtherEvents
    BY DEF At, OtherEvents
<1>2. EventsOf("inspection") \subseteq InspectionEvents
    BY <1>1 DEF EventsOf, InspectionEvents
<1>3. EventsOf("security_patrol") \subseteq PatrolEvents
    <2>1. \A r \in {Absent, << <<>> >>, << <<"c1", "c2">> >>} : r \in Seq(Seq(CheckpointNames))
        <3>1. <<>> \in Seq(CheckpointNames) /\ <<"c1", "c2">> \in Seq(CheckpointNames)
            BY ShortSeqs, Zenon
        <3>2. \A q \in Seq(CheckpointNames) : <<q>> \in Seq(Seq(CheckpointNames))
            BY ShortSeqs, Zenon
        <3>3. <<>> \in Seq(Seq(CheckpointNames))
            BY ShortSeqs, Zenon
        <3> QED
            BY <3>1, <3>2, <3>3, Zenon DEF Absent
    <2>2. \A d \in {Absent, <<0>>, <<60>>} : d \in Seq(Nat)
        <3>1. <<>> \in Seq(Nat) /\ <<0>> \in Seq(Nat) /\ <<60>> \in Seq(Nat)
            OBVIOUS
        <3> QED
            BY <3>1, Zenon DEF Absent
    <2>3. \A r \in {Absent, << <<>> >>, << <<"c1", "c2">> >>}, d \in {Absent, <<0>>, <<60>>} :
            [type |-> "config", required |-> r, minDwell |-> d] \in PatrolEvents
        BY <2>1, <2>2 DEF PatrolEvents
    <2>4. \A c \in {"c1", "c2"}, s \in {31, 90} :
            [type |-> "checkpoint", id |-> c, seconds |-> s] \in PatrolEvents
        <3>1. \A c \in {"c1", "c2"} : c \in CheckpointNames
            BY ShortSeqs, Zenon
        <3>2. \A s \in {31, 90} : s \in Nat
            OBVIOUS
        <3> QED
            BY <3>1, <3>2 DEF PatrolEvents
    <2>5. At("end", 9) \in PatrolEvents
        BY <1>1 DEF PatrolEvents
    <2> QED
        BY <2>3, <2>4, <2>5 DEF EventsOf
<1>4. EventsOf("delivery") \subseteq DeliveryEvents
    BY <1>1 DEF EventsOf, DeliveryEvents
<1> QED
    BY <1>2, <1>3, <1>4

\* What Arrivals lists are arrivals of the bundle, and there are some.
LEMMA ArrivalsAre ==
    ASSUME NEW bundle, IsFiniteSet(bundle)
    PROVE  /\ Arrivals(bundle) # {}
           /\ \A s \in Arrivals(bundle) : ArrivesAs(s, bundle)
<1> DEFINE n == Cardinality(bundle)
           D == 1..n
           once == SetToSeqs(bundle)
<1>1. n \in Nat /\ ExistsBijection(D, bundle)
    BY FS_CardinalityType
<1>2. IsFiniteSet(D) /\ Cardinality(D) = n
    <2>1. IsFiniteSet(D) /\ Cardinality(D) = IF 1 > n THEN 0 ELSE n - 1 + 1
        BY <1>1, FS_Interval, 1 \in Int
    <2> QED
        BY <1>1, <2>1
<1>3. once = {f \in [D -> bundle] : \A i, j \in D : i # j => f[i] # f[j]}
    BY DEF SetToSeqs
<1>4. once # {}
    <2>1. PICK f : f \in Bijection(D, bundle)
        BY <1>1 DEF ExistsBijection
    <2>2. f \in [D -> bundle] /\ \A i, j \in D : i # j => f[i] # f[j]
        BY <2>1 DEF Bijection, Injection, Surjection, IsInjective
    <2> QED
        BY <1>3, <2>2
<1>5. ASSUME NEW s \in once
      PROVE  /\ s \in Seq(bundle) /\ DOMAIN s = D /\ Len(s) = n
             /\ \A i, j \in DOMAIN s : s[i] = s[j] => i = j
             /\ \A e \in bundle : \E i \in DOMAIN s : s[i] = e
    <2>1. s \in [D -> bundle] /\ \A i, j \in D : i # j => s[i] # s[j]
        BY <1>3
    <2>2. s \in Injection(D, bundle)
        BY <2>1 DEF Injection, IsInjective
    <2>3. s \in Surjection(D, bundle)
        <3> HIDE DEF D
        <3> QED
            BY <1>2, <2>2, FS_Injection
    <2>4. \A e \in bundle : \E i \in D : s[i] = e
        BY <2>3 DEF Surjection
    <2>5. s \in Seq(bundle) /\ Len(s) = n
        BY <1>1, <2>1
    <2> QED
        BY <2>1, <2>4, <2>5
<1> HIDE DEF once, D, n
<1>6. Arrivals(bundle) =
        once \cup {Append(s, e) : s \in once, e \in {f \in bundle : f.type \notin ListEvents}}
    BY DEF Arrivals, once
<1>7. ASSUME NEW s \in once
      PROVE  ArrivesAs(s, bundle)
    BY <1>5 DEF ArrivesAs
<1>8. ASSUME NEW s \in once, NEW e \in bundle, e.type \notin ListEvents
      PROVE  ArrivesAs(Append(s, e), bundle)
    <2> DEFINE t == Append(s, e)
    <2>1. s \in Seq(bundle) /\ DOMAIN s = 1..n /\ n \in Nat /\ Len(s) = n
        BY <1>1, <1>5 DEF D
    <2>2. t \in Seq(bundle) /\ DOMAIN t = 1..(n + 1)
        BY <2>1
    <2>3. \A i \in 1..n : t[i] = s[i]
        BY <2>1
    <2>4. t[n + 1] = e
        BY <2>1
    <2>5. 1..(n + 1) = 1..n \cup {n + 1}
        BY <2>1
    <2> HIDE DEF t
    <2>6. \A f \in bundle : \E i \in DOMAIN t : t[i] = f
        <3>1. \A f \in bundle : \E i \in 1..n : s[i] = f
            BY <1>5, <2>1
        <3> QED
            BY <2>2, <2>3, <2>5, <3>1
    <2>7. \A i, j \in DOMAIN t : t[i] = t[j] /\ t[i].type \in ListEvents => i = j
        <3>1. \A i, j \in 1..n : s[i] = s[j] => i = j
            BY <1>5, <2>1
        <3> QED
            BY <1>8, <2>2, <2>3, <2>4, <2>5, <3>1
    <2> QED
        BY <2>2, <2>6, <2>7 DEF ArrivesAs, t
<1>9. ASSUME NEW t \in Arrivals(bundle)
      PROVE  ArrivesAs(t, bundle)
    <2>1. CASE t \in once
        BY <1>7, <2>1
    <2>2. CASE t \notin once
        <3>1. PICK s \in once, e \in bundle : e.type \notin ListEvents /\ t = Append(s, e)
            BY <1>6, <2>2
        <3> QED
            BY <1>8, <3>1
    <2> QED
        BY <2>1, <2>2
<1> QED
    BY <1>4, <1>6, <1>9

\* What a job may require of a patrol.
LEMMA SpecsTyped ==
    ASSUME NEW service, NEW spec \in Specs(service)
    PROVE  spec.checkpoints \in Seq(Seq(CheckpointNames)) /\ spec.minDwell \in Seq(Nat)
<1>1. <<>> \in Seq(Seq(CheckpointNames)) /\ << <<"c1">> >> \in Seq(Seq(CheckpointNames))
    <2>1. <<"c1">> \in Seq(CheckpointNames)
        BY ShortSeqs, Zenon
    <2> QED
        BY <2>1, ShortSeqs, Zenon
<1>2. <<>> \in Seq(Nat) /\ <<60>> \in Seq(Nat)
    OBVIOUS
<1>3. spec.checkpoints \in {<<>>, << <<"c1">> >>} /\ spec.minDwell \in {<<>>, <<60>>}
    BY DEF Specs, Absent
<1> QED
    BY <1>1, <1>2, <1>3

\* So what a module builds of a bundle that is asked for has one result, ...
LEMMA OneResult ==
    ASSUME NEW service \in Supported, NEW now, NEW bundle \in Bundles(service),
           NEW spec \in Specs(service), AskBuilt(service, bundle, spec, now)
    PROVE  BuiltInAnyOrder'
<1> DEFINE results == {BuiltResult(service, s, spec, now) : s \in Arrivals(bundle)}
<1>1. bundle \in SUBSET EventsOf(service) /\ Replaces(bundle)
    BY DEF Bundles, kSubset, Replaces
<1>2. IsFiniteSet(bundle)
    BY <1>1, EventsFinite, FS_Subset
<1>3. /\ Arrivals(bundle) # {}
      /\ \A s \in Arrivals(bundle) : ArrivesAs(s, bundle)
    BY <1>2, ArrivalsAre
<1>4. spec.checkpoints \in Seq(Seq(CheckpointNames)) /\ spec.minDwell \in Seq(Nat)
    BY SpecsTyped
<1>5. \/ service = "inspection" /\ bundle \in SUBSET InspectionEvents
      \/ service = "delivery" /\ bundle \in SUBSET DeliveryEvents
      \/ service = "security_patrol" /\ bundle \in SUBSET PatrolEvents
    BY <1>1, EventsTyped DEF Supported
<1>6. \A s, t \in Arrivals(bundle) :
            BuiltResult(service, s, spec, now) = BuiltResult(service, t, spec, now)
    <2> SUFFICES ASSUME NEW s \in Arrivals(bundle), NEW t \in Arrivals(bundle)
                 PROVE  BuiltResult(service, s, spec, now) = BuiltResult(service, t, spec, now)
        OBVIOUS
    <2>1. SameBundle(s, t, bundle)
        BY <1>1, <1>3 DEF SameBundle
    <2> QED
        BY <1>4, <1>5, <2>1, AnyOrder
<1>7. PICK s : s \in Arrivals(bundle)
    BY <1>3
<1>8. results = {BuiltResult(service, s, spec, now)}
    BY <1>6, <1>7
<1>9. asked'.results = results
    BY DEF AskBuilt
<1> HIDE DEF results
<1>10. Cardinality(results) = 1
    BY <1>8, FS_Singleton
<1> QED
    BY <1>9, <1>10 DEF BuiltInAnyOrder

\* What is scored for an inspection, ...
LEMMA InspectionScored ==
    ASSUME NEW visited \in Coverages, NEW total \in Coverages, NEW artifacts \in Artifacts,
           ScoreInspection(visited, total, artifacts)
    PROVE  ScoresAgree'
<1> DEFINE claimed == ApiInspection(visited, total, artifacts)
           module == ModuleInspection(visited, total, artifacts)
           ordinary == visited <= total
           body == [visited |-> visited, total |-> total, artifacts |-> artifacts]
<1>1. Complete("inspection", ordinary, 0, body, module)
    BY DEF ScoreInspection
<1>2. ordinary => claimed = module /\ module \in 0..100
    <2>1. visited \in Nat /\ total \in Nat /\ artifacts \in Nat
        BY DEF Coverages, Artifacts
    <2>2. ASSUME visited <= total
          PROVE  claimed = module /\ module \in 0..100
        <3> HIDE DEF body
        <3> QED
            BY <2>1, <2>2, InspectionsAgree
    <2> QED
        BY <2>2
<1> HIDE DEF ordinary, module
<1>3. asked' = [kind |-> "inspection", ordinary |-> ordinary, leeway |-> 0, claimed |-> claimed,
                recomputed |-> claimed, module |-> module]
    BY <1>1 DEF Complete, Scored, CompletionManifest, ClaimedQuality, RecomputedQuality
<1> HIDE DEF claimed
<1>4. CompletionsAgree'
    BY <1>2, <1>3 DEF CompletionsAgree, VerifyClaim, VerifyScores
<1> QED
    BY <1>3, <1>4 DEF ScoresAgree, BuiltInAnyOrder, VerdictsReported

\* ... for a patrol, ...
LEMMA PatrolScored ==
    ASSUME NEW visited \in Routes, NEW required \in Requirements, NEW minDwell \in MinDwells,
           NEW dwell \in DwellLists(Len(visited)), NEW expected \in {<<>>, required},
           ScorePatrol(visited, dwell, expected, required, minDwell)
    PROVE  ScoresAgree'
<1> DEFINE claimed == ApiPatrol(visited, dwell, expected)
           recomputed == VerifiedPatrol(visited, dwell)
           module == ModulePatrol(visited, dwell, required, minDwell)
           leeway == DwellLeeway(minDwell)
           ordinary == /\ required # <<>>
                       /\ expected = <<>> \/ Len(expected) = Len(visited)
                       /\ Len(dwell) <= Len(visited)
<1>1. asked' = [kind |-> "patrol", ordinary |-> ordinary, leeway |-> leeway, claimed |-> claimed,
                recomputed |-> recomputed, module |-> module]
    BY DEF ScorePatrol, Complete, Scored, CompletionManifest, ClaimedQuality, RecomputedQuality
<1>2. visited \in Seq(CheckpointNames)
    BY NamedSeqs DEF Routes
<1>3. required \in Seq(CheckpointNames) /\ expected \in Seq(CheckpointNames)
    BY NamedSeqs DEF Requirements
<1>4. dwell \in Seq(Nat) /\ minDwell \in Nat
    BY <1>2 DEF DwellLists, Seconds, MinDwells
<1>5. ordinary => claimed = recomputed /\ claimed + leeway >= module
    <2> HAVE ordinary
    <2> QED
        BY <1>2, <1>3, <1>4, PatrolsAgree
<1> HIDE DEF claimed, recomputed, module, ordinary, leeway
<1>6. CompletionsAgree'
    BY <1>1, <1>5 DEF CompletionsAgree, VerifyClaim
<1> QED
    BY <1>1, <1>6 DEF ScoresAgree, BuiltInAnyOrder, VerdictsReported

\* ... and for a delivery.
LEMMA DeliveryScored ==
    ASSUME NEW pickup \in BOOLEAN, NEW dropoff \in BOOLEAN, NEW route \in BOOLEAN,
           NEW end \in Minutes, NEW dropoffTs \in Minutes, NEW from \in Minutes,
           NEW to \in Minutes, ScoreDelivery(pickup, dropoff, route, end, dropoffTs, from, to)
    PROVE  ScoresAgree'
<1> DEFINE claimed == DeliveryScore(pickup, dropoff, route, ApiOnTime(0, end))
           module == DeliveryScore(pickup, dropoff, route, ModuleOnTime(end, dropoffTs, from, to))
<1>1. asked' = [kind |-> "delivery", ordinary |-> 0 < end /\ end < 120, leeway |-> 0,
                claimed |-> claimed, recomputed |-> claimed, module |-> module]
    BY DEF ScoreDelivery, Complete, Scored, CompletionManifest, ClaimedQuality, RecomputedQuality
<1>2. 0 < end /\ end < 120 => ApiOnTime(0, end) = TRUE
    BY DEF ApiOnTime, Minutes
<1>3. ModuleOnTime(end, dropoffTs, from, to) \in BOOLEAN
    BY DEF ModuleOnTime
<1>4. 0 < end /\ end < 120 => claimed + 0 >= module
    <2>1. claimed \in Nat
        BY DEF DeliveryScore, Bonus
    <2>2. 0 < end /\ end < 120 => claimed >= module
        BY <1>2, <1>3, DeliveriesAgree
    <2> HIDE DEF claimed, module
    <2>3. claimed + 0 = claimed
        BY <2>1
    <2> QED
        BY <2>2, <2>3
<1> HIDE DEF claimed, module
<1>5. CompletionsAgree'
    BY <1>1, <1>4 DEF CompletionsAgree, VerifyClaim
<1> QED
    BY <1>1, <1>5 DEF ScoresAgree, BuiltInAnyOrder, VerdictsReported

\* A result with a good verdict reports what goes on the chain.
LEMMA ResultReported ==
    ASSUME NEW service, NEW s, NEW spec, NEW now, NEW r, r = BuiltResult(service, s, spec, now),
           r.verdict.ok
    PROVE  /\ r.accepted
           /\ r.data = [quality |-> r.verdict.quality, workUnits |-> r.verdict.workUnits]
<1> DEFINE m == BuildManifest(service, s, spec, now)
<1>1. /\ r.verdict = VerifyCompletion(m, spec) /\ r.data = ProofData(m, spec)
      /\ r.accepted = VerifyScores(ComputeQualityScore(m, spec), r.data.quality, spec.qualityMin)
    BY DEF BuiltResult
<1> HIDE DEF m
<1>2. /\ r.verdict = [ok |-> ComputeQualityScore(m, spec) >= spec.qualityMin,
                      quality |-> ComputeQualityScore(m, spec), workUnits |-> ComputeWorkUnits(m)]
    BY <1>1 DEF VerifyCompletion
<1> QED
    BY <1>1, <1>2 DEF ProofData, VerifyScores

\* ... and the scores agree about it.
LEMMA BuiltScored ==
    ASSUME NEW service \in Supported, NEW now, NEW bundle \in Bundles(service),
           NEW spec \in Specs(service), AskBuilt(service, bundle, spec, now)
    PROVE  ScoresAgree'
<1>1. /\ asked'.kind = "built"
      /\ asked'.results = {BuiltResult(service, s, spec, now) : s \in Arrivals(bundle)}
    BY DEF AskBuilt
<1>2. VerdictsReported'
    BY <1>1, ResultReported DEF VerdictsReported
<1>3. CompletionsAgree'
    BY <1>1 DEF CompletionsAgree, Completions
<1> QED
    BY <1>2, <1>3, OneResult DEF ScoresAgree

\* The parts of the code that score a completion agree about every completion and about
\* every bundle of events that can be asked for (webhook.ts 137-222, manifests.ts 43-117,
\* services/modules, proof/src/index.ts), but for what the property excepts and the points
\* that a patrol of short visits may get more; by InspectionsAgree, PatrolsAgree and
\* DeliveriesAgree the scores do for any number of them, of any length and minimum dwell,
\* and by AnyOrder what a module builds does, however long the bundle.
THEOREM ScoresAlwaysAgree == MCSpec => []ScoresAgree
<1>1. CalculationsInit => ScoresAgree
    BY DEF CalculationsInit, Nothing, ScoresAgree, CompletionsAgree, BuiltInAnyOrder,
           VerdictsReported, Completions
<1>2. ASSUME ScoresAgree, [Ask]_asked
      PROVE  ScoresAgree'
    <2>1. CASE UNCHANGED asked
        BY <1>2, <2>1 DEF ScoresAgree, CompletionsAgree, BuiltInAnyOrder, VerdictsReported
    <2>2. ASSUME asked'.kind \in {"quote", "claim"}
          PROVE  ScoresAgree'
        BY <2>2 DEF ScoresAgree, CompletionsAgree, BuiltInAnyOrder, VerdictsReported, Completions
    <2>3. ASSUME NEW fees, NEW s, NEW units, NEW t, AskQuote(fees, s, units, t)
          PROVE  asked'.kind = "quote"
        BY <2>3 DEF AskQuote
    <2>4. ASSUME NEW signer, NEW by, NEW domain, NEW signedType, NEW signed, NEW type,
                 NEW presented, AskClaim(signer, by, domain, signedType, signed, type, presented)
          PROVE  asked'.kind = "claim"
        BY <2>4 DEF AskClaim
    <2>5. CASE Ask
        BY <2>2, <2>3, <2>4, <2>5, InspectionScored, PatrolScored, DeliveryScored, BuiltScored DEF Ask
    <2> QED
        BY <1>2, <2>1, <2>5
<1>3. MCInit => ScoresAgree
    BY <1>1 DEF MCInit
<1>4. ScoresAgree /\ [MCNext]_<<payVars, demoVars, demoOfferVars, asked, deploymentVars,
                                startupVars, part>> => ScoresAgree'
    BY <1>2, StepOfParts
<1> QED
    BY <1>3, <1>4, PTL DEF MCSpec

-------------------------------------------------------------------------------
(* The demonstration's order book implements the abstract one *)

DemoOfferType ==
    [operator : OfferOperators \cup {NoOfferParty}, terms : OfferTerms \cup {NoOfferParty},
     expiresAt : Int, active : BOOLEAN, purchasedBy : OfferBuyers \cup {NoOfferParty}]

\* Offers are listed in the order of their ids; one that stands has an operator and no buyer.
DemoOfferInv ==
    /\ offerClock \in 1..MaxOfferTime
    /\ operatorStakes \in [OfferOperators -> Int]
    /\ offerCounter \in Nat
    /\ demoOffers \in [DemoOfferIds -> DemoOfferType]
    /\ \A o \in DemoOfferIds : offerCounter < o => demoOffers[o] = NoDemoOffer
    /\ \A o \in DemoOfferIds :
        demoOffers[o].active => /\ demoOffers[o].operator # NoOfferParty
                                /\ demoOffers[o].purchasedBy = NoOfferParty

StageOfOffer(x) ==
    CASE x.operator = NoOfferParty     -> "none"
      [] x.active                      -> "open"
      [] x.purchasedBy # NoOfferParty  -> "sold"
      [] OTHER                         -> "withdrawn"

\* What the promise sees of the demonstration.
SeenBacked == {u \in OfferOperators : Staked(u)}
SeenStages == [o \in DemoOfferIds |-> DemoOfferStage(o)]
SeenListers == [o \in DemoOfferIds |-> demoOffers[o].operator]
SeenTerms == [o \in DemoOfferIds |-> demoOffers[o].terms]
SeenEnds == [o \in DemoOfferIds |-> demoOffers[o].expiresAt]
SeenBuyers == [o \in DemoOfferIds |-> demoOffers[o].purchasedBy]

PossibleEnds == {d + s : d \in OfferDurations, s \in 1..MaxOfferTime}

LEMMA NoOfferTyped == NoDemoOffer \in DemoOfferType
BY DEF NoDemoOffer, DemoOfferType

LEMMA StageOfOfferIs ==
    ASSUME NEW x \in DemoOfferType
    PROVE  /\ x = NoDemoOffer => StageOfOffer(x) = "none"
           /\ x.operator # NoOfferParty /\ x.active /\ x.purchasedBy = NoOfferParty
                => StageOfOffer(x) = "open"
           /\ x.operator # NoOfferParty /\ ~x.active /\ x.purchasedBy # NoOfferParty
                => StageOfOffer(x) = "sold"
           /\ x.operator # NoOfferParty /\ ~x.active /\ x.purchasedBy = NoOfferParty
                => StageOfOffer(x) = "withdrawn"
<1>1. x.active \in BOOLEAN
    BY DEF DemoOfferType
<1>2. CASE x = NoDemoOffer
    BY <1>2 DEF StageOfOffer, NoDemoOffer
<1>3. CASE x.operator # NoOfferParty /\ x.active /\ x.purchasedBy = NoOfferParty
    BY <1>3 DEF StageOfOffer, NoDemoOffer
<1>4. CASE x.operator # NoOfferParty /\ ~x.active /\ x.purchasedBy # NoOfferParty
    BY <1>4 DEF StageOfOffer, NoDemoOffer
<1>5. CASE x.operator # NoOfferParty /\ ~x.active /\ x.purchasedBy = NoOfferParty
    BY <1>5 DEF StageOfOffer, NoDemoOffer
<1> QED
    BY <1>1, <1>2, <1>3, <1>4, <1>5

LEMMA OneOfferSeen ==
    ASSUME DemoOfferInv, NEW o \in DemoOfferIds, NEW x \in DemoOfferType,
           demoOffers' = [demoOffers EXCEPT ![o] = x]
    PROVE  /\ SeenStages[o] = StageOfOffer(demoOffers[o])
           /\ SeenStages' = [SeenStages EXCEPT ![o] = StageOfOffer(x)]
           /\ SeenListers' = [SeenListers EXCEPT ![o] = x.operator]
           /\ SeenTerms' = [SeenTerms EXCEPT ![o] = x.terms]
           /\ SeenEnds' = [SeenEnds EXCEPT ![o] = x.expiresAt]
           /\ SeenBuyers' = [SeenBuyers EXCEPT ![o] = x.purchasedBy]
<1>1. \A q \in DemoOfferIds : demoOffers'[q] = IF q = o THEN x ELSE demoOffers[q]
    BY DEF DemoOfferInv
<1>2. \A q \in DemoOfferIds : /\ DemoOfferStage(q) = StageOfOffer(demoOffers[q])
                              /\ DemoOfferStage(q)' = StageOfOffer(demoOffers'[q])
    BY DEF DemoOfferStage, IsShown, ShownOffer, StageOfOffer
<1>3. \A q \in DemoOfferIds :
        DemoOfferStage(q)' = IF q = o THEN StageOfOffer(x) ELSE DemoOfferStage(q)
    BY <1>1, <1>2
<1>4. /\ SeenStages[o] = StageOfOffer(demoOffers[o])
      /\ SeenStages' = [SeenStages EXCEPT ![o] = StageOfOffer(x)]
    BY <1>2, <1>3 DEF SeenStages
<1>5. \A q \in DemoOfferIds :
        /\ demoOffers'[q].operator = IF q = o THEN x.operator ELSE demoOffers[q].operator
        /\ demoOffers'[q].terms = IF q = o THEN x.terms ELSE demoOffers[q].terms
        /\ demoOffers'[q].expiresAt = IF q = o THEN x.expiresAt ELSE demoOffers[q].expiresAt
        /\ demoOffers'[q].purchasedBy = IF q = o THEN x.purchasedBy ELSE demoOffers[q].purchasedBy
    BY <1>1
<1>6. /\ SeenListers' = [SeenListers EXCEPT ![o] = x.operator]
      /\ SeenTerms' = [SeenTerms EXCEPT ![o] = x.terms]
      /\ SeenEnds' = [SeenEnds EXCEPT ![o] = x.expiresAt]
      /\ SeenBuyers' = [SeenBuyers EXCEPT ![o] = x.purchasedBy]
    BY <1>5 DEF SeenListers, SeenTerms, SeenEnds, SeenBuyers
<1> QED
    BY <1>4, <1>6

LEMMA DemoOfferInitInv == DemoOfferInit => DemoOfferInv
BY DemoOfferAssumption, NoOfferTyped DEF DemoOfferInit, DemoOfferInv, NoDemoOffer

LEMMA OneOfferKeeps ==
    ASSUME DemoOfferInv, NEW o \in DemoOfferIds, NEW x \in DemoOfferType,
           demoOffers' = [demoOffers EXCEPT ![o] = x],
           UNCHANGED <<offerClock, operatorStakes>>,
           offerCounter' \in Nat, offerCounter <= offerCounter', o <= offerCounter',
           x.active => x.operator # NoOfferParty /\ x.purchasedBy = NoOfferParty
    PROVE  DemoOfferInv'
<1> USE DEF DemoOfferInv
<1>1. \A q \in DemoOfferIds : demoOffers'[q] = IF q = o THEN x ELSE demoOffers[q]
    OBVIOUS
<1>2. demoOffers' \in [DemoOfferIds -> DemoOfferType]
    OBVIOUS
<1>3. \A q \in DemoOfferIds : offerCounter' < q => demoOffers'[q] = NoDemoOffer
    BY <1>1 DEF DemoOfferIds
<1>4. \A q \in DemoOfferIds :
        demoOffers'[q].active => /\ demoOffers'[q].operator # NoOfferParty
                                 /\ demoOffers'[q].purchasedBy = NoOfferParty
    BY <1>1
<1> QED
    BY <1>2, <1>3, <1>4

\* An offer that stands, has been listed.
LEMMA ActiveIsListed ==
    ASSUME DemoOfferInv, NEW o \in DemoOfferIds, demoOffers[o].active
    PROVE  o <= offerCounter
BY DEF DemoOfferInv, NoDemoOffer, DemoOfferIds

LEMMA ListPromised ==
    ASSUME DemoOfferInv, NEW u \in OfferOperators, NEW t \in OfferTerms, NEW d \in OfferDurations,
           ListDemoOffer(u, t, d)
    PROVE  /\ DemoOfferInv'
           /\ \E o \in DemoOfferIds, e \in PossibleEnds : DemoOfferPromise!List(o, u, t, e)
<1>0. PICK o, e : o = offerCounter + 1 /\ e = offerClock + d
    OBVIOUS
<1> DEFINE x == [operator |-> u, terms |-> t, expiresAt |-> e, active |-> TRUE,
                 purchasedBy |-> NoOfferParty]
<1>1. /\ o \in DemoOfferIds /\ offerCounter' = o /\ demoOffers' = [demoOffers EXCEPT ![o] = x]
      /\ UNCHANGED <<offerClock, operatorStakes>> /\ Staked(u)
    BY <1>0 DEF ListDemoOffer
<1>2. o \in Nat /\ offerCounter < o /\ e \in Int /\ u # NoOfferParty
    BY <1>0, DemoOfferAssumption DEF DemoOfferInv
<1>3. x \in DemoOfferType
    BY <1>2 DEF DemoOfferType
<1>4. /\ x.operator = u /\ x.terms = t /\ x.expiresAt = e /\ x.active
      /\ x.purchasedBy = NoOfferParty
    OBVIOUS
<1>5. demoOffers[o] = NoDemoOffer
    BY <1>1, <1>2 DEF DemoOfferInv
<1>6. e \in PossibleEnds
    BY <1>0, DemoOfferAssumption DEF DemoOfferInv, PossibleEnds
<1> HIDE DEF x
<1>7. DemoOfferInv'
    BY <1>1, <1>2, <1>3, <1>4, OneOfferKeeps DEF DemoOfferInv
<1>8. StageOfOffer(NoDemoOffer) = "none" /\ StageOfOffer(x) = "open"
    BY <1>2, <1>3, <1>4, StageOfOfferIs, NoOfferTyped
<1>9. /\ SeenStages[o] = "none" /\ SeenStages' = [SeenStages EXCEPT ![o] = "open"]
      /\ SeenListers' = [SeenListers EXCEPT ![o] = u]
      /\ SeenTerms' = [SeenTerms EXCEPT ![o] = t]
      /\ SeenEnds' = [SeenEnds EXCEPT ![o] = e]
      /\ SeenBuyers' = [SeenBuyers EXCEPT ![o] = NoOfferParty]
    <2>1. /\ SeenStages[o] = StageOfOffer(demoOffers[o])
          /\ SeenStages' = [SeenStages EXCEPT ![o] = StageOfOffer(x)]
          /\ SeenListers' = [SeenListers EXCEPT ![o] = x.operator]
          /\ SeenTerms' = [SeenTerms EXCEPT ![o] = x.terms]
          /\ SeenEnds' = [SeenEnds EXCEPT ![o] = x.expiresAt]
          /\ SeenBuyers' = [SeenBuyers EXCEPT ![o] = x.purchasedBy]
        BY <1>1, <1>3, OneOfferSeen
    <2> QED
        BY <1>4, <1>5, <1>8, <2>1
<1>10. SeenBuyers' = SeenBuyers
    BY <1>1, <1>5, <1>9 DEF SeenBuyers, NoDemoOffer
<1>11. u \in SeenBacked /\ SeenBacked' = SeenBacked
    BY <1>1 DEF SeenBacked, Staked
<1>12. DemoOfferPromise!List(o, u, t, e)
    BY <1>1, <1>9, <1>10, <1>11 DEF DemoOfferPromise!List, DemoOfferPromise!Become,
        SeenBacked, SeenStages, SeenListers, SeenTerms, SeenEnds, SeenBuyers
<1> QED
    BY <1>1, <1>6, <1>7, <1>12

\* An offer that is sold or withdrawn.
LEMMA CloseSeen ==
    ASSUME DemoOfferInv, NEW o \in DemoOfferIds, NEW b \in OfferBuyers \cup {NoOfferParty},
           demoOffers[o].active,
           Change(o, [demoOffers[o] EXCEPT !.active = FALSE, !.purchasedBy = b])
    PROVE  /\ DemoOfferInv'
           /\ SeenStages[o] = "open"
           /\ SeenStages' =
                [SeenStages EXCEPT ![o] = IF b = NoOfferParty THEN "withdrawn" ELSE "sold"]
           /\ SeenBuyers' = [SeenBuyers EXCEPT ![o] = b]
           /\ UNCHANGED <<SeenBacked, SeenListers, SeenTerms, SeenEnds, offerClock>>
<1> DEFINE x == [demoOffers[o] EXCEPT !.active = FALSE, !.purchasedBy = b]
<1>1. /\ demoOffers' = [demoOffers EXCEPT ![o] = x]
      /\ UNCHANGED <<offerClock, operatorStakes, offerCounter>>
    BY DEF Change
<1>2. demoOffers[o] \in DemoOfferType
    BY DEF DemoOfferInv
<1>3. /\ x \in DemoOfferType
      /\ x.operator = demoOffers[o].operator /\ x.terms = demoOffers[o].terms
      /\ x.expiresAt = demoOffers[o].expiresAt /\ ~x.active /\ x.purchasedBy = b
    BY <1>2 DEF DemoOfferType
<1> HIDE DEF x
<1>4. o <= offerCounter /\ offerCounter \in Nat
    BY ActiveIsListed DEF DemoOfferInv
<1>5. DemoOfferInv'
    <2>1. offerCounter' \in Nat /\ offerCounter <= offerCounter' /\ o <= offerCounter'
        BY <1>1, <1>4
    <2> QED
        BY <1>1, <1>3, <2>1, OneOfferKeeps
<1>6. demoOffers[o].operator # NoOfferParty /\ demoOffers[o].purchasedBy = NoOfferParty
    BY DEF DemoOfferInv
<1>7. /\ StageOfOffer(demoOffers[o]) = "open"
      /\ StageOfOffer(x) = IF b = NoOfferParty THEN "withdrawn" ELSE "sold"
    BY <1>2, <1>3, <1>6, StageOfOfferIs
<1>8. /\ SeenStages[o] = StageOfOffer(demoOffers[o])
      /\ SeenStages' = [SeenStages EXCEPT ![o] = StageOfOffer(x)]
      /\ SeenListers' = [SeenListers EXCEPT ![o] = x.operator]
      /\ SeenTerms' = [SeenTerms EXCEPT ![o] = x.terms]
      /\ SeenEnds' = [SeenEnds EXCEPT ![o] = x.expiresAt]
      /\ SeenBuyers' = [SeenBuyers EXCEPT ![o] = x.purchasedBy]
    BY <1>1, <1>3, OneOfferSeen
<1>9. UNCHANGED <<SeenListers, SeenTerms, SeenEnds>>
    BY <1>3, <1>8 DEF SeenListers, SeenTerms, SeenEnds
<1>10. SeenBacked' = SeenBacked
    BY <1>1 DEF SeenBacked, Staked
<1> QED
    BY <1>1, <1>3, <1>5, <1>7, <1>8, <1>9, <1>10

LEMMA BuyPromised ==
    ASSUME DemoOfferInv, NEW b \in OfferBuyers, NEW o \in DemoOfferIds, BuyDemoOffer(b, o)
    PROVE  DemoOfferInv' /\ DemoOfferPromise!Sell(o, b)
<1>1. b # NoOfferParty
    BY DemoOfferAssumption
<1>2. /\ DemoOfferInv'
      /\ SeenStages[o] = "open" /\ SeenStages' = [SeenStages EXCEPT ![o] = "sold"]
      /\ SeenBuyers' = [SeenBuyers EXCEPT ![o] = b]
      /\ UNCHANGED <<SeenBacked, SeenListers, SeenTerms, SeenEnds, offerClock>>
    BY <1>1, CloseSeen DEF BuyDemoOffer
<1>3. offerClock < SeenEnds[o]
    BY DEF BuyDemoOffer, SeenEnds
<1> QED
    BY <1>2, <1>3 DEF DemoOfferPromise!Sell, DemoOfferPromise!Become, DemoOfferPromise!listing,
        SeenBacked, SeenStages, SeenListers, SeenTerms, SeenEnds, SeenBuyers

LEMMA CancelPromised ==
    ASSUME DemoOfferInv, NEW u \in OfferOperators, NEW o \in DemoOfferIds, CancelDemoOffer(u, o)
    PROVE  DemoOfferInv' /\ DemoOfferPromise!Withdraw(o)
<1>1. demoOffers[o].purchasedBy = NoOfferParty /\ demoOffers[o] \in DemoOfferType
    BY DEF DemoOfferInv, CancelDemoOffer
<1>2. [demoOffers[o] EXCEPT !.active = FALSE] =
        [demoOffers[o] EXCEPT !.active = FALSE, !.purchasedBy = NoOfferParty]
    BY <1>1 DEF DemoOfferType
<1>3. Change(o, [demoOffers[o] EXCEPT !.active = FALSE, !.purchasedBy = NoOfferParty])
    BY <1>2 DEF CancelDemoOffer
<1>4. /\ DemoOfferInv'
      /\ SeenStages[o] = "open" /\ SeenStages' = [SeenStages EXCEPT ![o] = "withdrawn"]
      /\ SeenBuyers' = [SeenBuyers EXCEPT ![o] = NoOfferParty]
      /\ UNCHANGED <<SeenBacked, SeenListers, SeenTerms, SeenEnds, offerClock>>
    BY <1>3, CloseSeen DEF CancelDemoOffer
<1>5. SeenBuyers' = SeenBuyers
    BY <1>1, <1>4 DEF SeenBuyers
<1> QED
    BY <1>4, <1>5 DEF DemoOfferPromise!Withdraw, DemoOfferPromise!Become, DemoOfferPromise!listing,
        SeenBacked, SeenStages, SeenListers, SeenTerms, SeenEnds, SeenBuyers

\* A step that touches no offer.
LEMMA OffersUnseen ==
    ASSUME UNCHANGED demoOffers
    PROVE  UNCHANGED <<SeenStages, SeenListers, SeenTerms, SeenEnds, SeenBuyers>>
BY DEF SeenStages, SeenListers, SeenTerms, SeenEnds, SeenBuyers, DemoOfferStage, IsShown,
       ShownOffer

LEMMA OfferTickPromised ==
    ASSUME DemoOfferInv, OfferTick
    PROVE  DemoOfferInv' /\ DemoOfferPromise!Advance
<1>1. DemoOfferInv'
    BY DemoOfferAssumption DEF DemoOfferInv, OfferTick
<1>2. offerClock' > offerClock
    BY DEF DemoOfferInv, OfferTick
<1>3. SeenBacked' = SeenBacked
    BY DEF OfferTick, SeenBacked, Staked
<1> QED
    BY <1>1, <1>2, <1>3, OffersUnseen DEF OfferTick, DemoOfferPromise!Advance,
        DemoOfferPromise!listing,
        SeenBacked, SeenStages, SeenListers, SeenTerms, SeenEnds, SeenBuyers

LEMMA StakePromised ==
    ASSUME DemoOfferInv, NEW u \in OfferOperators, NEW amount \in PostedStakes, PostStake(u, amount)
    PROVE  DemoOfferInv' /\ DemoOfferPromise!Back
<1>1. DemoOfferInv'
    BY DemoOfferAssumption DEF DemoOfferInv, PostStake
<1>2. SeenBacked' \subseteq OfferOperators
    BY DEF SeenBacked
<1> QED
    BY <1>1, <1>2, OffersUnseen DEF PostStake, DemoOfferPromise!Back, DemoOfferPromise!listing,
        SeenBacked, SeenStages, SeenListers, SeenTerms, SeenEnds, SeenBuyers

LEMMA DemoOfferStepPromised ==
    ASSUME DemoOfferInv, [DemoOfferNext]_demoOfferVars
    PROVE  DemoOfferInv' /\ [DemoOfferPromise!Next]_(DemoOfferPromise!vars)
<1>1. CASE UNCHANGED demoOfferVars
    <2>1. DemoOfferInv'
        BY <1>1 DEF demoOfferVars, DemoOfferInv
    <2>2. SeenBacked' = SeenBacked /\ offerClock' = offerClock
        BY <1>1 DEF demoOfferVars, SeenBacked, Staked
    <2> QED
        BY <1>1, <2>1, <2>2, OffersUnseen DEF demoOfferVars, DemoOfferPromise!vars,
            SeenBacked, SeenStages, SeenListers, SeenTerms, SeenEnds, SeenBuyers
<1>2. CASE OfferTick
    BY <1>2, OfferTickPromised DEF DemoOfferPromise!Next
<1>3. ASSUME NEW u \in OfferOperators, NEW amount \in PostedStakes, PostStake(u, amount)
      PROVE  DemoOfferInv' /\ DemoOfferPromise!Next
    BY <1>3, StakePromised DEF DemoOfferPromise!Next
<1>4. ASSUME NEW u \in OfferOperators, NEW t \in OfferTerms, NEW d \in OfferDurations,
             ListDemoOffer(u, t, d)
      PROVE  DemoOfferInv' /\ DemoOfferPromise!Next
    BY <1>4, ListPromised DEF DemoOfferPromise!Next, PossibleEnds
<1>5. ASSUME NEW u \in OfferOperators, NEW o \in DemoOfferIds, CancelDemoOffer(u, o)
      PROVE  DemoOfferInv' /\ DemoOfferPromise!Next
    BY <1>5, CancelPromised DEF DemoOfferPromise!Next
<1>6. ASSUME NEW b \in OfferBuyers, NEW o \in DemoOfferIds, BuyDemoOffer(b, o)
      PROVE  DemoOfferInv' /\ DemoOfferPromise!Next
    BY <1>6, BuyPromised DEF DemoOfferPromise!Next
<1> QED
    BY <1>1, <1>2, <1>3, <1>4, <1>5, <1>6 DEF DemoOfferNext

LEMMA DemoOfferInitPromised == DemoOfferInit => DemoOfferPromise!Init
<1> SUFFICES ASSUME DemoOfferInit
             PROVE  DemoOfferPromise!Init
    OBVIOUS
<1>1. \A o \in DemoOfferIds : demoOffers[o] = NoDemoOffer
    BY DEF DemoOfferInit
<1>2. \A o \in DemoOfferIds : DemoOfferStage(o) = "none"
    <2>1. \A o \in DemoOfferIds : DemoOfferStage(o) = StageOfOffer(demoOffers[o])
        BY DEF DemoOfferStage, IsShown, ShownOffer, StageOfOffer
    <2>2. StageOfOffer(NoDemoOffer) = "none"
        BY DEF StageOfOffer, NoDemoOffer
    <2> QED
        BY <1>1, <2>1, <2>2
<1> QED
    BY <1>1, <1>2 DEF DemoOfferPromise!Init, NoDemoOffer

-------------------------------------------------------------------------------
(* The demonstration's jobs implement the abstract escrow *)

DemoStatuses == {"none", "CREATED", "FUNDED", "COMPLETED", "SETTLED", "DISPUTED"}

DemoJobType == [status : DemoStatuses, price : Nat, deadline : Nat, settleAfter : Nat]

DemoJobInv ==
    /\ demoClock \in Nat
    /\ demoJobs \in [DemoIds -> DemoJobType]
    /\ \A j \in DemoIds : demoJobs[j].status = "none" => demoJobs[j] = NoDemoJob

StageOfJob(x) ==
    CASE x.status = "none"      -> "none"
      [] x.status = "CREATED"   -> "agreed"
      [] x.status = "FUNDED"    -> "held"
      [] x.status = "COMPLETED" -> "claimed"
      [] x.status = "DISPUTED"  -> "contested"
      [] x.status = "SETTLED"   -> "paid"

OwedFor(x) == IF x.status \in {"FUNDED", "COMPLETED", "DISPUTED"} THEN x.price ELSE 0

\* What the promise sees of the demonstration.
SeenJobStages == [j \in DemoIds |-> DemoStage(j)]
SeenPrices == [j \in DemoIds |-> demoJobs[j].price]
SeenWindows == [j \in DemoIds |-> demoJobs[j].settleAfter]

LEMMA DemoIdsFinite == IsFiniteSet(DemoIds)
BY FS_Interval, DemoAssumption DEF DemoIds

LEMMA NoJobTyped == NoDemoJob \in DemoJobType
BY DEF NoDemoJob, DemoJobType, DemoStatuses

LEMMA OwedTyped == DemoJobInv => DemoOwed \in [DemoIds -> Nat]
BY DEF DemoJobInv, DemoOwed, DemoJobType

\* What is seen when one job changes.
LEMMA OneJobSeen ==
    ASSUME DemoJobInv, NEW j \in DemoIds, NEW x \in DemoJobType, x.status # "none",
           demoJobs' = [demoJobs EXCEPT ![j] = x], demoClock' \in Nat
    PROVE  /\ DemoJobInv'
           /\ SeenJobStages[j] = StageOfJob(demoJobs[j])
           /\ SeenJobStages' = [SeenJobStages EXCEPT ![j] = StageOfJob(x)]
           /\ SeenPrices' = [SeenPrices EXCEPT ![j] = x.price]
           /\ SeenWindows' = [SeenWindows EXCEPT ![j] = x.settleAfter]
           /\ DemoPot \in Nat
           /\ DemoPot' = DemoPot - OwedFor(demoJobs[j]) + OwedFor(x)
<1>1. \A q \in DemoIds : demoJobs'[q] = IF q = j THEN x ELSE demoJobs[q]
    BY DEF DemoJobInv
<1>2. DemoJobInv'
    <2>1. demoJobs' \in [DemoIds -> DemoJobType]
        BY DEF DemoJobInv
    <2>2. \A q \in DemoIds : demoJobs'[q].status = "none" => demoJobs'[q] = NoDemoJob
        BY <1>1 DEF DemoJobInv
    <2> QED
        BY <2>1, <2>2 DEF DemoJobInv
<1>3. \A q \in DemoIds : /\ DemoStage(q) = StageOfJob(demoJobs[q])
                         /\ DemoStage(q)' = StageOfJob(demoJobs'[q])
    <2>1. \A q \in DemoIds : demoJobs[q].status # "404" /\ demoJobs'[q].status # "404"
        BY <1>2 DEF DemoJobInv, DemoJobType, DemoStatuses
    <2> QED
        BY <2>1 DEF DemoStage, ShownJob, StageOfJob
<1>4. \A q \in DemoIds : DemoStage(q)' = IF q = j THEN StageOfJob(x) ELSE DemoStage(q)
    BY <1>1, <1>3
<1>5. /\ SeenJobStages[j] = StageOfJob(demoJobs[j])
      /\ SeenJobStages' = [SeenJobStages EXCEPT ![j] = StageOfJob(x)]
    BY <1>3, <1>4 DEF SeenJobStages
<1>6. \A q \in DemoIds :
        /\ demoJobs'[q].price = IF q = j THEN x.price ELSE demoJobs[q].price
        /\ demoJobs'[q].settleAfter = IF q = j THEN x.settleAfter ELSE demoJobs[q].settleAfter
    BY <1>1
<1>7. /\ SeenPrices' = [SeenPrices EXCEPT ![j] = x.price]
      /\ SeenWindows' = [SeenWindows EXCEPT ![j] = x.settleAfter]
    BY <1>6 DEF SeenPrices, SeenWindows
<1>8. /\ DemoOwed \in [DemoIds -> Nat]
      /\ DemoOwed' \in [DemoIds -> Nat]
      /\ \A q \in DemoIds \ {j} : DemoOwed'[q] = DemoOwed[q]
      /\ DemoOwed[j] = OwedFor(demoJobs[j]) /\ DemoOwed'[j] = OwedFor(x)
    <2>1. DemoOwed \in [DemoIds -> Nat] /\ DemoOwed' \in [DemoIds -> Nat]
        BY <1>2, OwedTyped DEF DemoJobInv, DemoOwed, DemoJobType
    <2>2. \A q \in DemoIds : DemoOwed[q] = OwedFor(demoJobs[q]) /\ DemoOwed'[q] = OwedFor(demoJobs'[q])
        BY DEF DemoOwed, OwedFor
    <2> QED
        BY <1>1, <2>1, <2>2
<1>9. /\ SumFunction(DemoOwed) \in Nat
      /\ SumFunction(DemoOwed') = SumFunction(DemoOwed) - DemoOwed[j] + DemoOwed'[j]
    BY <1>8, DemoIdsFinite, SumFollows
<1> QED
    BY <1>2, <1>5, <1>7, <1>8, <1>9 DEF DemoPot

LEMMA CreateJobPromised ==
    ASSUME DemoJobInv, NEW p \in DemoPrices, NEW d \in DemoDeadlines, CreateDemoJob(p, d)
    PROVE  DemoJobInv' /\ \E j \in DemoIds : DemoPromise!Agree(j, p)
<1>1. PICK j : j = jobCounter + 1
    OBVIOUS
<1>2. PICK x : x = [NoDemoJob EXCEPT !.status = "CREATED", !.price = p, !.deadline = d]
    OBVIOUS
<1>3. /\ j \in DemoIds /\ demoJobs[j].status = "none" /\ demoClock' = demoClock
      /\ demoJobs' = [demoJobs EXCEPT ![j] = x]
    BY <1>1, <1>2 DEF CreateDemoJob, Update
<1>4. /\ x \in DemoJobType
      /\ x.status = "CREATED" /\ x.price = p /\ x.settleAfter = 0
    BY <1>2, DemoAssumption DEF NoDemoJob, DemoJobType, DemoStatuses
<1>5. demoJobs[j] = NoDemoJob /\ demoClock \in Nat
    BY <1>3 DEF DemoJobInv
<1>6. /\ StageOfJob(demoJobs[j]) = "none" /\ OwedFor(demoJobs[j]) = 0
      /\ demoJobs[j].settleAfter = 0
    BY <1>5 DEF StageOfJob, OwedFor, NoDemoJob
<1>7. StageOfJob(x) = "agreed" /\ OwedFor(x) = 0
    BY <1>4 DEF StageOfJob, OwedFor
<1>8. /\ DemoJobInv'
      /\ SeenJobStages[j] = StageOfJob(demoJobs[j])
      /\ SeenJobStages' = [SeenJobStages EXCEPT ![j] = StageOfJob(x)]
      /\ SeenPrices' = [SeenPrices EXCEPT ![j] = x.price]
      /\ SeenWindows' = [SeenWindows EXCEPT ![j] = x.settleAfter]
      /\ DemoPot \in Nat
      /\ DemoPot' = DemoPot - OwedFor(demoJobs[j]) + OwedFor(x)
    BY <1>3, <1>4, <1>5, OneJobSeen
<1>9. SeenWindows' = SeenWindows
    BY <1>3, <1>4, <1>6, <1>8 DEF SeenWindows
<1>10. DemoPot' = DemoPot
    BY <1>6, <1>7, <1>8
<1>11. DemoPromise!Agree(j, p)
    BY <1>3, <1>4, <1>6, <1>7, <1>8, <1>9, <1>10 DEF DemoPromise!Agree, DemoPromise!Become,
        SeenJobStages, SeenPrices, SeenWindows
<1> QED
    BY <1>3, <1>8, <1>11

\* The job after its status, and the end of its window, have changed.
Changed(x, status, settleAfter) ==
    [x EXCEPT !.status = status, !.settleAfter = settleAfter]

\* What the promise sees of that.
SeenToMove(j, x, status, end) ==
    /\ x.status = status /\ x.price = demoJobs[j].price /\ x.price \in Nat
    /\ SeenJobStages[j] = StageOfJob(demoJobs[j])
    /\ SeenJobStages' = [SeenJobStages EXCEPT ![j] = StageOfJob(x)]
    /\ SeenPrices' = SeenPrices /\ SeenPrices[j] = x.price
    /\ SeenWindows[j] = demoJobs[j].settleAfter
    /\ SeenWindows' = [SeenWindows EXCEPT ![j] = end]
    /\ DemoPot \in Nat
    /\ DemoPot' = DemoPot - OwedFor(demoJobs[j]) + OwedFor(x)

LEMMA JobMoves ==
    ASSUME DemoJobInv, NEW j \in DemoIds, NEW status \in DemoStatuses \ {"none"}, NEW end \in Nat,
           demoClock' = demoClock, NEW x, x = Changed(demoJobs[j], status, end),
           demoJobs' = [demoJobs EXCEPT ![j] = x]
    PROVE  DemoJobInv' /\ SeenToMove(j, x, status, end)
<1> USE DEF SeenToMove
<1>1. demoJobs[j] \in DemoJobType /\ demoClock' \in Nat
    BY DEF DemoJobInv
<1>2. /\ x \in DemoJobType
      /\ x.status = status /\ x.price = demoJobs[j].price /\ x.settleAfter = end
      /\ x.price \in Nat
    BY <1>1 DEF Changed, DemoJobType
<1>4. /\ DemoJobInv'
      /\ SeenJobStages[j] = StageOfJob(demoJobs[j])
      /\ SeenJobStages' = [SeenJobStages EXCEPT ![j] = StageOfJob(x)]
      /\ SeenPrices' = [SeenPrices EXCEPT ![j] = x.price]
      /\ SeenWindows' = [SeenWindows EXCEPT ![j] = x.settleAfter]
      /\ DemoPot \in Nat
      /\ DemoPot' = DemoPot - OwedFor(demoJobs[j]) + OwedFor(x)
    BY <1>1, <1>2, OneJobSeen
<1>5. SeenPrices' = SeenPrices /\ SeenPrices[j] = x.price
    BY <1>2, <1>4 DEF SeenPrices
<1>6. SeenWindows[j] = demoJobs[j].settleAfter
    BY DEF SeenWindows
<1> QED
    BY <1>2, <1>4, <1>5, <1>6

\* A job whose window does not move.
Marked(x, status) == [x EXCEPT !.status = status]

WindowStays(j, x, status, end) ==
    /\ x = Changed(demoJobs[j], status, end)
    /\ end \in Nat
    /\ [SeenWindows EXCEPT ![j] = end] = SeenWindows

LEMMA SameWindow ==
    ASSUME DemoJobInv, NEW j \in DemoIds, NEW status,
           NEW end, end = demoJobs[j].settleAfter, NEW x, x = Marked(demoJobs[j], status)
    PROVE  WindowStays(j, x, status, end)
<1>1. demoJobs[j] \in DemoJobType
    BY DEF DemoJobInv
<1>2. x = Changed(demoJobs[j], status, end)
    BY <1>1 DEF DemoJobType, Changed, Marked
<1>3. end \in Nat /\ [SeenWindows EXCEPT ![j] = end] = SeenWindows
    BY <1>1 DEF DemoJobType, SeenWindows
<1> QED
    BY <1>2, <1>3 DEF WindowStays

LEMMA FundJobPromised ==
    ASSUME DemoJobInv, NEW j \in DemoIds, FundDemoJob(j)
    PROVE  DemoJobInv' /\ DemoPromise!Pay(j)
<1>1. /\ demoJobs[j].status = "CREATED" /\ demoClock' = demoClock
      /\ demoJobs' = [demoJobs EXCEPT ![j] = [demoJobs[j] EXCEPT !.status = "FUNDED"]]
    BY DEF FundDemoJob, Update
<1>2. PICK end, x : end = demoJobs[j].settleAfter /\ x = Marked(demoJobs[j], "FUNDED")
    OBVIOUS
<1>0. "FUNDED" \in DemoStatuses \ {"none"}
    BY DEF DemoStatuses
<1>3. /\ end \in Nat /\ [SeenWindows EXCEPT ![j] = end] = SeenWindows
      /\ demoJobs' = [demoJobs EXCEPT ![j] = x]
      /\ x = Changed(demoJobs[j], "FUNDED", end)
    <2>1. WindowStays(j, x, "FUNDED", end)
        BY <1>2, SameWindow
    <2>2. demoJobs' = [demoJobs EXCEPT ![j] = x]
        BY <1>1, <1>2 DEF Marked
    <2> QED
        BY <2>1, <2>2 DEF WindowStays
<1>4. DemoJobInv' /\ SeenToMove(j, x, "FUNDED", end)
    <2>1. /\ end \in Nat /\ demoClock' = demoClock
          /\ x = Changed(demoJobs[j], "FUNDED", end)
          /\ demoJobs' = [demoJobs EXCEPT ![j] = x]
        BY <1>1, <1>3
    <2> QED
        BY <1>0, <2>1, JobMoves
<1>5. StageOfJob(demoJobs[j]) = "agreed" /\ OwedFor(demoJobs[j]) = 0
    BY <1>1 DEF StageOfJob, OwedFor
<1>6. StageOfJob(x) = "held" /\ OwedFor(x) = x.price
    BY <1>4 DEF SeenToMove, StageOfJob, OwedFor
<1>7. DemoPot' = DemoPot + SeenPrices[j]
    BY <1>4, <1>5, <1>6 DEF SeenToMove
<1> QED
    BY <1>1, <1>3, <1>4, <1>5, <1>6, <1>7 DEF DemoPromise!Pay, DemoPromise!Become,
        SeenToMove, SeenJobStages, SeenPrices, SeenWindows

LEMMA CompleteJobPromised ==
    ASSUME DemoJobInv, NEW j \in DemoIds, CompleteDemoJob(j)
    PROVE  DemoJobInv' /\ DemoPromise!Claim(j)
<1>1. PICK end, x : end = demoClock + DemoWindow /\ x = Changed(demoJobs[j], "COMPLETED", end)
    OBVIOUS
<1>0. "COMPLETED" \in DemoStatuses \ {"none"}
    BY DEF DemoStatuses
<1>2. /\ demoJobs[j].status = "FUNDED" /\ demoClock' = demoClock
      /\ demoJobs' = [demoJobs EXCEPT ![j] = x]
    BY <1>1 DEF CompleteDemoJob, Update, Changed
<1>3. end \in Nat
    BY <1>1, DemoAssumption DEF DemoJobInv
<1>4. DemoJobInv' /\ SeenToMove(j, x, "COMPLETED", end)
    BY <1>0, <1>1, <1>2, <1>3, JobMoves
<1>5. StageOfJob(demoJobs[j]) = "held" /\ OwedFor(demoJobs[j]) = x.price
    BY <1>2, <1>4 DEF SeenToMove, StageOfJob, OwedFor
<1>6. StageOfJob(x) = "claimed" /\ OwedFor(x) = x.price
    BY <1>4 DEF SeenToMove, StageOfJob, OwedFor
<1>7. DemoPot' = DemoPot
    BY <1>4, <1>5, <1>6 DEF SeenToMove
<1> QED
    BY <1>1, <1>2, <1>4, <1>5, <1>6, <1>7 DEF DemoPromise!Claim, DemoPromise!Become,
        SeenToMove, SeenJobStages, SeenPrices, SeenWindows

LEMMA SettleJobPromised ==
    ASSUME DemoJobInv, NEW j \in DemoIds, SettleDemoJob(j)
    PROVE  DemoJobInv' /\ DemoPromise!PayRobot(j)
<1>1. /\ demoJobs[j].status = "COMPLETED" /\ demoClock' = demoClock
      /\ demoClock >= demoJobs[j].settleAfter
      /\ demoJobs' = [demoJobs EXCEPT ![j] = [demoJobs[j] EXCEPT !.status = "SETTLED"]]
    BY DEF SettleDemoJob, Update
<1>2. PICK end, x : end = demoJobs[j].settleAfter /\ x = Marked(demoJobs[j], "SETTLED")
    OBVIOUS
<1>0. "SETTLED" \in DemoStatuses \ {"none"}
    BY DEF DemoStatuses
<1>3. /\ end \in Nat /\ [SeenWindows EXCEPT ![j] = end] = SeenWindows
      /\ demoJobs' = [demoJobs EXCEPT ![j] = x]
      /\ x = Changed(demoJobs[j], "SETTLED", end)
    <2>1. WindowStays(j, x, "SETTLED", end)
        BY <1>2, SameWindow
    <2>2. demoJobs' = [demoJobs EXCEPT ![j] = x]
        BY <1>1, <1>2 DEF Marked
    <2> QED
        BY <2>1, <2>2 DEF WindowStays
<1>4. DemoJobInv' /\ SeenToMove(j, x, "SETTLED", end)
    <2>1. /\ end \in Nat /\ demoClock' = demoClock
          /\ x = Changed(demoJobs[j], "SETTLED", end)
          /\ demoJobs' = [demoJobs EXCEPT ![j] = x]
        BY <1>1, <1>3
    <2> QED
        BY <1>0, <2>1, JobMoves
<1>5. StageOfJob(demoJobs[j]) = "claimed" /\ OwedFor(demoJobs[j]) = x.price
    BY <1>1, <1>4 DEF SeenToMove, StageOfJob, OwedFor
<1>6. StageOfJob(x) = "paid" /\ OwedFor(x) = 0
    BY <1>4 DEF SeenToMove, StageOfJob, OwedFor
<1>7. DemoPot' = DemoPot - SeenPrices[j]
    BY <1>4, <1>5, <1>6 DEF SeenToMove
<1>8. demoClock >= SeenWindows[j]
    BY <1>1, <1>2, <1>4 DEF SeenToMove
<1> QED
    BY <1>1, <1>3, <1>4, <1>5, <1>6, <1>7, <1>8 DEF DemoPromise!PayRobot, DemoPromise!Become,
        SeenToMove, SeenJobStages, SeenPrices, SeenWindows

LEMMA DisputeJobPromised ==
    ASSUME DemoJobInv, NEW j \in DemoIds, DisputeDemoJob(j)
    PROVE  DemoJobInv' /\ DemoPromise!Contest(j)
<1>1. /\ demoJobs[j].status = "COMPLETED" /\ demoClock' = demoClock
      /\ demoClock < demoJobs[j].settleAfter
      /\ demoJobs' = [demoJobs EXCEPT ![j] = [demoJobs[j] EXCEPT !.status = "DISPUTED"]]
    BY DEF DisputeDemoJob, Update
<1>2. PICK end, x : end = demoJobs[j].settleAfter /\ x = Marked(demoJobs[j], "DISPUTED")
    OBVIOUS
<1>0. "DISPUTED" \in DemoStatuses \ {"none"}
    BY DEF DemoStatuses
<1>3. /\ end \in Nat /\ [SeenWindows EXCEPT ![j] = end] = SeenWindows
      /\ demoJobs' = [demoJobs EXCEPT ![j] = x]
      /\ x = Changed(demoJobs[j], "DISPUTED", end)
    <2>1. WindowStays(j, x, "DISPUTED", end)
        BY <1>2, SameWindow
    <2>2. demoJobs' = [demoJobs EXCEPT ![j] = x]
        BY <1>1, <1>2 DEF Marked
    <2> QED
        BY <2>1, <2>2 DEF WindowStays
<1>4. DemoJobInv' /\ SeenToMove(j, x, "DISPUTED", end)
    <2>1. /\ end \in Nat /\ demoClock' = demoClock
          /\ x = Changed(demoJobs[j], "DISPUTED", end)
          /\ demoJobs' = [demoJobs EXCEPT ![j] = x]
        BY <1>1, <1>3
    <2> QED
        BY <1>0, <2>1, JobMoves
<1>5. StageOfJob(demoJobs[j]) = "claimed" /\ OwedFor(demoJobs[j]) = x.price
    BY <1>1, <1>4 DEF SeenToMove, StageOfJob, OwedFor
<1>6. StageOfJob(x) = "contested" /\ OwedFor(x) = x.price
    BY <1>4 DEF SeenToMove, StageOfJob, OwedFor
<1>7. DemoPot' = DemoPot
    BY <1>4, <1>5, <1>6 DEF SeenToMove
<1>8. demoClock < SeenWindows[j]
    BY <1>1, <1>2, <1>4 DEF SeenToMove
<1> QED
    BY <1>1, <1>3, <1>4, <1>5, <1>6, <1>7, <1>8 DEF DemoPromise!Contest, DemoPromise!Become,
        SeenToMove, SeenJobStages, SeenPrices, SeenWindows

LEMMA DemoStepPromised ==
    ASSUME DemoJobInv, [DemoNext]_demoVars
    PROVE  DemoJobInv' /\ [DemoPromise!Next]_(DemoPromise!vars)
<1>1. UNCHANGED demoJobs => UNCHANGED <<SeenJobStages, SeenPrices, SeenWindows, DemoPot>>
    BY DEF SeenJobStages, SeenPrices, SeenWindows, DemoPot, DemoOwed, DemoStage,
        ShownJob
<1>2. CASE UNCHANGED demoVars
    <2>1. DemoJobInv'
        BY <1>2 DEF demoVars, DemoJobInv
    <2> QED
        BY <1>1, <1>2, <2>1 DEF demoVars, DemoPromise!vars,
            SeenJobStages, SeenPrices, SeenWindows
<1>3. CASE DemoTick
    <2>1. DemoJobInv' /\ demoClock' > demoClock
        BY <1>3 DEF DemoTick, DemoJobInv
    <2>2. DemoPromise!Advance
        BY <1>1, <1>3, <2>1 DEF DemoTick, DemoPromise!Advance,
            SeenJobStages, SeenPrices, SeenWindows
    <2> QED
        BY <2>1, <2>2 DEF DemoPromise!Next
<1>4. ASSUME NEW p \in DemoPrices, NEW d \in DemoDeadlines, CreateDemoJob(p, d)
      PROVE  DemoJobInv' /\ DemoPromise!Next
    BY <1>4, CreateJobPromised DEF DemoPromise!Next
<1>5. ASSUME NEW j \in DemoIds,
             FundDemoJob(j) \/ CompleteDemoJob(j) \/ SettleDemoJob(j) \/ DisputeDemoJob(j)
      PROVE  DemoJobInv' /\ DemoPromise!Next
    BY <1>5, FundJobPromised, CompleteJobPromised, SettleJobPromised, DisputeJobPromised
        DEF DemoPromise!Next
<1> QED
    BY <1>2, <1>3, <1>4, <1>5 DEF DemoNext

LEMMA DemoInitPromised == DemoInit => DemoJobInv /\ DemoPromise!Init
<1> SUFFICES ASSUME DemoInit
             PROVE  DemoJobInv /\ DemoPromise!Init
    OBVIOUS
<1>1. DemoJobInv
    BY NoJobTyped DEF DemoInit, DemoJobInv
<1>2. \A j \in DemoIds : demoJobs[j] = NoDemoJob
    BY DEF DemoInit
<1>3. \A j \in DemoIds : DemoStage(j) = "none" /\ DemoOwed[j] = 0
    BY <1>2 DEF DemoStage, ShownJob, DemoOwed, NoDemoJob
<1>4. DemoOwed \in [DemoIds -> {0}]
    BY <1>3 DEF DemoOwed
<1>5. SumFunction(DemoOwed) = 0
    BY <1>4, DemoIdsFinite, SumOfZeros
<1> QED
    BY <1>1, <1>2, <1>3, <1>5 DEF DemoInit, DemoPromise!Init, NoDemoJob, DemoPot

\* The jobs and offers that the API keeps in memory promise what the contracts promise: no
\* job is settled inside its window or contested after it, none twice, the pot is what the
\* unfinished jobs are worth; and no offer is listed without enough stake, sold twice, sold
\* late or changed; for any number of jobs, offers and users, any prices, durations and any
\* window (jobs.ts 45-252, offers.ts 94-261).
THEOREM DemonstrationsKeepPromises == MCSpec => DemoImplementsPromises
<1>1. MCInit => DemoJobInv /\ DemoPromise!Init
    BY DemoInitPromised DEF MCInit
<1>2. MCInit => DemoOfferInv /\ DemoOfferPromise!Init
    BY DemoOfferInitInv, DemoOfferInitPromised DEF MCInit
<1>3. DemoJobInv /\ [MCNext]_<<payVars, demoVars, demoOfferVars, asked, deploymentVars,
                               startupVars, part>> => DemoJobInv' /\ [DemoPromise!Next]_(DemoPromise!vars)
    BY StepOfParts, DemoStepPromised
<1>4. DemoOfferInv /\ [MCNext]_<<payVars, demoVars, demoOfferVars, asked, deploymentVars,
                                 startupVars, part>>
        => DemoOfferInv' /\ [DemoOfferPromise!Next]_(DemoOfferPromise!vars)
    BY StepOfParts, DemoOfferStepPromised
<1> QED
    BY <1>1, <1>2, <1>3, <1>4, PTL
        DEF MCSpec, DemoImplementsPromises, DemoPromise!Spec, DemoOfferPromise!Spec

================================================================================
