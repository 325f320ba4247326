------------------------------ MODULE Payments ------------------------------
(***************************************************************************)
(* The NETOPIA payments of one organisation: backend/app/payment_service.py *)
(* and its handlers in backend/app/main.py.                                 *)
(*                                                                          *)
(* The provider and its network are external: "ipns" is the set of          *)
(* notifications ever sent, so one may be delivered twice, late, out of     *)
(* order or never.  What the provider says of an order is a text, which the *)
(* code reads by the marker words in it.  A request handler is a sequence   *)
(* of steps that share a database session: the rows it read (seen, seenSub) *)
(* may be out of date when its session is committed, and a session that     *)
(* dies before the commit leaves no trace.  Several threads serve the sync  *)
(* handlers; the IPN handler is "async def" and holds the one event loop    *)
(* until it returns.                                                        *)
(***************************************************************************)
EXTENDS UnitOfWork, Naturals, FiniteSets

CONSTANTS
    Orders,          \* provider_session_id / provider_order_id values
    Plans,           \* codes of billing.PLANS
    NoPlan,          \* no plan: an order that has no row yet
    DefaultPlan,     \* the plan of get_or_create_subscription: "one"
    ManualPlans,     \* plans owners pick with POST .../subscription
    NoOrder,         \* billing_subscription_id is NULL
    Texts,           \* what the provider may say of an order
    Buttons,         \* bound: what is posted to the mock webhook
    Threads,         \* threads of the pool that runs the sync handlers
    EventLoop,       \* the thread that runs the async handlers
    V2Enabled,       \* settings.netopia_provider = "v2" and it is configured
    MockEnabled,     \* settings.netopia_mock_enabled
    SignatureRequired,  \* verify_netopia_ipn_signature takes only signed ones
    Crashes          \* may a handler die before its commit?

ASSUME PlansAssumption ==
    /\ DefaultPlan \in Plans
    /\ ManualPlans \subseteq Plans
    /\ NoPlan \notin Plans
ASSUME OrdersAssumption == NoOrder \notin Orders
ASSUME ThreadsAssumption == EventLoop \notin Threads
ASSUME SettingsAssumption ==
    {V2Enabled, MockEnabled, SignatureRequired, Crashes} \subseteq BOOLEAN

VARIABLES
    tx,           \* payment_transactions, by order id
    sub,          \* the organisation's organization_subscriptions row
    activations,  \* audit log: was the plan of an order activated, how often
    remote,       \* what the provider says of an order now (external)
    ipns,         \* notifications sent so far (external)
    posted,       \* what the mock page has posted so far (external)
    job           \* per thread, the request it is serving

vars == <<tx, sub, activations, remote, ipns, posted, job>>

-----------------------------------------------------------------------------
(* Rows, messages and sessions.                                            *)

Workers == Threads \cup {EventLoop}
Outcomes == {"paid", "failed", "cancelled"}
Statuses == Outcomes \cup {"pending"}

\* A row as its columns; "absent" when no row was committed.
TxRow == [status: Statuses \cup {"absent"},
          provider: {"none", "netopia_mock", "netopia_v2"},
          plan_code: Plans \cup {NoPlan},
          paid_at: BOOLEAN]             \* paid_at IS NOT NULL
Absent == [status |-> "absent", provider |-> "none",
           plan_code |-> NoPlan, paid_at |-> FALSE]

SubRow == [plan_code: Plans, billing_subscription_id: Orders \cup {NoOrder}]
NewSub == [plan_code |-> DefaultPlan, billing_subscription_id |-> NoOrder]

\* What the provider says of an order: what it means by it, and which of the
\* markers of normalize_netopia_status are in the status fields, which are
\* joined to one text: "unpaid" holds "paid", and a code 13 holds "3".
PaidMarkers == {"paid", "confirmed", "captured", "success", "approved", "3"}
CancelledMarkers == {"cancel", "canceled", "cancelled"}
FailedMarkers == {"fail", "failed", "declined", "rejected", "error"}
Text == [means: {"open"} \cup Outcomes,
         markers: SUBSET (PaidMarkers \cup CancelledMarkers \cup FailedMarkers)]
Unheard == [means |-> "none", markers |-> {}]   \* before /payment/card/start

ASSUME TextsAssumption == Texts \subseteq Text /\ Buttons \subseteq Outcomes

Holds(t, markers) == t.markers \cap markers # {}

\* Defects a change could introduce, each beside the definition it would
\* replace, are named Bad...: the provider's word stored as it came, and a
\* text that says nothing known taken for a payment.
BadNormalizeNothing(t) == t.means
BadNormalizeElsePaid(t) ==
    IF Holds(t, CancelledMarkers) THEN "cancelled"
    ELSE IF Holds(t, FailedMarkers) THEN "failed" ELSE "paid"

\* normalize_netopia_status: the first kind of marker found decides.
Normalize(t) ==
    IF Holds(t, PaidMarkers) THEN "paid"
    ELSE IF Holds(t, CancelledMarkers) THEN "cancelled"
    ELSE IF Holds(t, FailedMarkers) THEN "failed" ELSE "pending"

Tally == {"never", "once", "again"}
OneMore(n) == IF n = "never" THEN "once" ELSE "again"

\* A request: what it serves, how far it is, its order or plan, the
\* provider's answer, and the rows its session has loaded.
Kinds == {"idle", "checkout", "ipn", "mock_webhook", "status_check",
          "plan_change"}
Job == [kind: Kinds,
        pc: {"start", "apply", "write"},
        order: Orders \cup {NoOrder},
        plan: Plans \cup {NoPlan},
        report: Statuses,
        seen: TxRow,
        seenSub: SubRow]
Idle == [kind |-> "idle", pc |-> "start", order |-> NoOrder, plan |-> NoPlan,
         report |-> "pending", seen |-> Absent, seenSub |-> NewSub]

\* The requests that handlers accept.
CheckoutRequest(o, p) ==
    [Idle EXCEPT !.kind = "checkout", !.order = o, !.plan = p]
PlanRequest(p, row) ==
    [Idle EXCEPT !.kind = "plan_change", !.pc = "write", !.plan = p,
                 !.seenSub = row]
SettleRequest(kind, pc, o, report, row) ==
    [Idle EXCEPT !.kind = kind, !.pc = pc, !.order = o, !.report = report,
                 !.seen = row]
\* ... and how a request proceeds.
Answered(j, report) == [j EXCEPT !.pc = "apply", !.report = report]
WithSubscription(j, row) == [j EXCEPT !.pc = "write", !.seenSub = row]

Begin(w, request) ==
    /\ job[w] = Idle
    /\ job' = [job EXCEPT ![w] = request]
End(w) == job' = [job EXCEPT ![w] = Idle]

Init ==
    /\ tx = [o \in Orders |-> Absent]
    /\ sub = NewSub
    /\ activations = [o \in Orders |-> "never"]
    /\ remote = [o \in Orders |-> Unheard]
    /\ ipns = {}
    /\ posted = {}
    /\ job = [w \in Workers |-> Idle]

-----------------------------------------------------------------------------
(* Checkout.                                                               *)

\* create_netopia_checkout up to the answer of /payment/card/start: the
\* order is open at the provider, and nothing of it is in the database.
CheckoutCall(w, o, p, t) ==
    /\ V2Enabled
    /\ remote[o] = Unheard
    /\ t.means = "open"
    /\ tx[o] = Absent
    /\ Begin(w, CheckoutRequest(o, p))
    /\ remote' = [remote EXCEPT ![o] = t]
    /\ ipns' = ipns \cup {<<o, t>>}
    /\ UNCHANGED <<tx, sub, activations, posted>>

\* The rest of it, and the handler's commit.
CheckoutCommit(w) ==
    /\ job[w].kind = "checkout"
    /\ tx' = [tx EXCEPT ![job[w].order] =
                 [status |-> "pending", provider |-> "netopia_v2",
                  plan_code |-> job[w].plan, paid_at |-> FALSE]]
    /\ End(w)
    /\ UNCHANGED <<sub, activations, remote, ipns, posted>>

\* create_netopia_mock_checkout reads nothing it depends on: one step.
MockCheckout(w, o, p) ==
    /\ MockEnabled
    /\ job[w] = Idle
    /\ remote[o] = Unheard
    /\ tx[o] = Absent
    /\ tx' = [tx EXCEPT ![o] =
                 [status |-> "pending", provider |-> "netopia_mock",
                  plan_code |-> p, paid_at |-> FALSE]]
    /\ UNCHANGED <<sub, activations, remote, ipns, posted, job>>

-----------------------------------------------------------------------------
(* The provider (external).                                                *)

\* The provider decides an order, or puts what it said in other words, and
\* notifies; a failed card may be followed by a good one.  It does not wait
\* for the checkout that opened the order.
ProviderReports(o, t) ==
    /\ remote[o].means \in {"open", "failed", t.means}
    /\ remote' = [remote EXCEPT ![o] = t]
    /\ ipns' = ipns \cup {<<o, t>>}
    /\ UNCHANGED <<tx, sub, activations, posted, job>>

\* Without a required signature (the default) the endpoint also takes
\* notifications that are not the provider's: a test call, a forwarded copy.
UnsignedReport(o, t) ==
    /\ ~SignatureRequired
    /\ ipns' = ipns \cup {<<o, t>>}
    /\ UNCHANGED <<tx, sub, activations, remote, posted, job>>

-----------------------------------------------------------------------------
(* The three handlers that settle a transaction.                           *)

\* A notification without a row, or not yet with one, of the v2 provider is
\* answered "ignored": it is acknowledged and leaves nothing behind.
IpnIgnored(o, t) ==
    /\ <<o, t>> \in ipns
    /\ tx[o].provider # "netopia_v2"
    /\ job[EventLoop] = Idle
    /\ UNCHANGED vars

\* process_netopia_v2_webhook: the row is looked up.
IpnRead(o, t) ==
    /\ <<o, t>> \in ipns
    /\ tx[o].provider = "netopia_v2"
    /\ Begin(EventLoop, SettleRequest("ipn", "apply", o, Normalize(t), tx[o]))
    /\ UNCHANGED <<tx, sub, activations, remote, ipns, posted>>

\* process_netopia_mock_webhook, with whatever button was pressed on the mock
\* page.  The row is looked up by provider_session_id, which rows of both
\* providers have, whatever the settings are; paid is final, for the row as
\* it was read.
MockWebhookRead(w, o, s) ==
    /\ tx[o].status \notin {"absent", "paid"}
    /\ Begin(w, SettleRequest("mock_webhook", "apply", o, s, tx[o]))
    /\ posted' = posted \cup {<<o, s>>}
    /\ UNCHANGED <<tx, sub, activations, remote, ipns>>

\* ... so nothing is done for a row that is paid.
MockWebhookKnown(w, o) ==
    /\ tx[o].status = "paid"
    /\ job[w] = Idle
    /\ UNCHANGED vars

\* check_netopia_transaction_status: the row is read before the provider is
\* asked.  For the mock provider the handler returns what it read.
StatusCheckRead(w, o) ==
    /\ V2Enabled
    /\ tx[o].provider = "netopia_v2"
    /\ Begin(w, SettleRequest("status_check", "start", o, "pending", tx[o]))
    /\ UNCHANGED <<tx, sub, activations, remote, ipns, posted>>

\* The provider answers POST /operation/status; the answer may take long.
StatusCheckAnswer(w) ==
    /\ job[w].kind = "status_check"
    /\ job[w].pc = "start"
    /\ job' = [job EXCEPT ![w] = Answered(@, Normalize(remote[@.order]))]
    /\ UNCHANGED <<tx, sub, activations, remote, ipns, posted>>

\* Activation whatever was reported, and only of a row that is pending.
BadActivatesOnAnswer(j) == j.seen.status # "paid"
BadActivatesPending(j) == j.report = "paid" /\ j.seen.status = "pending"

\* "not already_paid", for the row as the session read it.
Activates(j) == j.report = "paid" /\ j.seen.status # "paid"

\* update_subscription_plan reads the subscription it is about to change.
ReadSubscription(w) ==
    /\ job[w].kind \in {"ipn", "mock_webhook", "status_check"}
    /\ job[w].pc = "apply"
    /\ Activates(job[w])
    /\ job' = [job EXCEPT ![w] = WithSubscription(@, sub)]
    /\ UNCHANGED <<tx, sub, activations, remote, ipns, posted>>

\* A payment without its date, and a date that a later report takes back.
BadSettledUndated(row, j) ==
    [row EXCEPT !.status = Written(row.status, j.seen.status, j.report)]
BadSettledAnew(row, j) ==
    [row EXCEPT !.status = Written(row.status, j.seen.status, j.report),
                !.paid_at = j.report = "paid"]

\* What a settling session leaves in its transaction row.
Settled(row, j) ==
    [row EXCEPT !.status = Written(row.status, j.seen.status, j.report),
                !.paid_at = row.paid_at \/ j.report = "paid"]

\* What an activating session leaves in the subscription row.
Activated(row, j) ==
    [row EXCEPT !.plan_code = Written(row.plan_code, j.seenSub.plan_code,
                                      j.seen.plan_code),
                !.billing_subscription_id =
                    Written(row.billing_subscription_id,
                            j.seenSub.billing_subscription_id, j.order)]

\* The mock webhook leaves billing_subscription_id alone.
MockActivated(row, j) ==
    [row EXCEPT !.plan_code = Written(row.plan_code, j.seenSub.plan_code,
                                      j.seen.plan_code)]

\* Commit of a handler that activates the plan of its order.
CommitActivation(w) ==
    LET j == job[w] IN
    /\ j.pc = "write"
    /\ j.kind \in {"ipn", "mock_webhook", "status_check"}
    /\ tx' = [tx EXCEPT ![j.order] = Settled(tx[j.order], j)]
    /\ sub' = IF j.kind = "mock_webhook" THEN MockActivated(sub, j)
                                         ELSE Activated(sub, j)
    /\ activations' = [activations EXCEPT ![j.order] = OneMore(@)]
    /\ End(w)
    /\ UNCHANGED <<remote, ipns, posted>>

\* Commit of a handler that only records the provider's answer.
CommitStatus(w) ==
    LET j == job[w] IN
    /\ j.pc = "apply"
    /\ ~Activates(j)
    /\ tx' = [tx EXCEPT ![j.order] = Settled(tx[j.order], j)]
    /\ End(w)
    /\ UNCHANGED <<sub, activations, remote, ipns, posted>>

-----------------------------------------------------------------------------
(* The owner's own change of plan, and handlers that die.                  *)

\* The subscription saved as a whole, as it was read.
BadPlanPickedWhole(row, j) == [j.seenSub EXCEPT !.plan_code = j.plan]

\* What the owner's session leaves in the subscription row.
PlanPicked(row, j) ==
    [row EXCEPT !.plan_code = Written(row.plan_code, j.seenSub.plan_code,
                                      j.plan)]

PlanChangeRead(w, p) ==
    /\ Begin(w, PlanRequest(p, sub))
    /\ UNCHANGED <<tx, sub, activations, remote, ipns, posted>>

CommitPlanChange(w) ==
    /\ job[w].kind = "plan_change"
    /\ sub' = PlanPicked(sub, job[w])
    /\ End(w)
    /\ UNCHANGED <<tx, activations, remote, ipns, posted>>

\* A timeout or an error of the provider, an exception, a restart: get_db
\* closes the session and nothing of it is kept.
Abort(w) ==
    /\ Crashes
    /\ job[w] # Idle
    /\ End(w)
    /\ UNCHANGED <<tx, sub, activations, remote, ipns, posted>>

-----------------------------------------------------------------------------

\* The steps a thread takes for a request it has accepted.
Serve(w) ==
    \/ CheckoutCommit(w)
    \/ StatusCheckAnswer(w)
    \/ ReadSubscription(w)
    \/ CommitActivation(w)
    \/ CommitStatus(w)
    \/ CommitPlanChange(w)

Next ==
    \/ \E w \in Threads, o \in Orders, p \in Plans :
           \/ \E t \in Texts : CheckoutCall(w, o, p, t)
           \/ MockCheckout(w, o, p)
    \/ \E o \in Orders, t \in Texts :
           \/ ProviderReports(o, t) \/ UnsignedReport(o, t)
           \/ IpnRead(o, t) \/ IpnIgnored(o, t)
    \/ \E w \in Threads, o \in Orders :
           \/ StatusCheckRead(w, o)
           \/ MockWebhookKnown(w, o)
           \/ \E s \in Buttons : MockWebhookRead(w, o, s)
    \/ \E w \in Threads, p \in ManualPlans : PlanChangeRead(w, p)
    \/ \E w \in Workers : Serve(w) \/ Abort(w)

Spec == Init /\ [][Next]_vars

\* Threads are scheduled; nothing is assumed of requests or of the provider.
FairSpec == Spec /\ \A w \in Workers : WF_vars(Serve(w))

-----------------------------------------------------------------------------
(* Properties.                                                             *)

\* Every variable has its type, sessions included.
TypeOK ==
    /\ tx \in [Orders -> TxRow]
    /\ sub \in SubRow
    /\ activations \in [Orders -> Tally]
    /\ remote \in [Orders -> Texts \cup {Unheard}]
    /\ ipns \subseteq Orders \X Texts
    /\ posted \subseteq Orders \X Outcomes
    /\ job \in [Workers -> Job]

\* The orders that somebody reported as paid: the mock page was told so, or a
\* text was sent that holds a marker of a payment - the provider's word for a
\* payment it confirmed, a text that means something else, or one that came
\* without a signature.
Reported ==
    {o \in Orders :
        \/ <<o, "paid">> \in posted
        \/ \E t \in Texts :
               /\ <<o, t>> \in ipns /\ Holds(t, PaidMarkers)
               /\ t.means = "paid" /\ SignatureRequired =>
                      remote[o].means = "paid"}

\* The orders that the mock page had no part in.
Unposted == {o \in Orders : \A s \in Outcomes : <<o, s>> \notin posted}

\* A transaction is on record as paid only if this very order was reported as
\* paid, through whatever mixture of notifications, retries and status checks.
\* That the provider confirmed it is more than the code ensures, see
\* ActivatedIfConfirmed.
PaidWasReported ==
    \A o \in Orders :
        tx[o].status = "paid" \/ tx[o].paid_at => o \in Reported

\* A transaction has a payment date exactly if the plan it pays for was
\* activated: nobody pays for nothing, also when a notification and a status
\* check settle the same transaction at once, each from its own old copy of
\* the row (the already_paid tests of both handlers).
PaidIffActivated ==
    \A o \in Orders :
        /\ tx[o].paid_at <=> activations[o] # "never"
        /\ tx[o].status = "paid" => tx[o].paid_at

\* The plan in force is the default, one that an owner picked, or one of an
\* order that was reported as paid and is on record so: no mixture of copies
\* of the subscription row leaves a plan nobody picked or paid for.
PlanIsEarned ==
    \/ sub.plan_code \in {DefaultPlan} \cup ManualPlans
    \/ \E o \in Reported : tx[o].plan_code = sub.plan_code /\ tx[o].paid_at

\* billing_subscription_id names an order of the v2 provider that was paid.
BillIsPaid ==
    sub.billing_subscription_id # NoOrder =>
        LET row == tx[sub.billing_subscription_id] IN
        row.provider = "netopia_v2" /\ row.paid_at

\* The payment date of a transaction is never taken back and its plan never
\* exchanged, whatever a later notification says of it.
PaymentIsKept ==
    [][\A o \in Orders :
          /\ tx[o].paid_at => tx'[o].paid_at
          /\ tx[o].status # "absent" => tx'[o].plan_code = tx[o].plan_code]_tx

\* A "pending" answer never undoes a payment that was recorded after its
\* handler had read the transaction as pending: the late answer of a check
\* that began before the payment and ends after it is harmless.
StalePendingIsHarmless ==
    [][\A o \in Orders :
          tx[o].status = "paid" /\ tx'[o].status = "pending" =>
              \E w \in Workers : /\ job[w].order = o
                                 /\ job[w].seen.status # "pending"
                                 /\ job'[w] = Idle]_tx

\* "If the same successful payment IPN is received multiple times, the
\* transaction remains paid and the subscription activation is not repeated"
\* (docs/netopia-ipn-signature.md): a paid notification that arrives when the
\* payment is on record activates nothing (of orders that the mock page had no
\* part in).
PaidIpnIsIdempotent ==
    [][\A o \in Unposted :
          job[EventLoop].order = o /\ job[EventLoop].seen.paid_at
          /\ job[EventLoop] # job'[EventLoop]
              => activations'[o] = activations[o]]_<<activations, job>>

\* The rows implement the ledger: no interleaving of handlers, sessions and
\* notifications changes the plan in force except by settling an order that
\* was reported as paid or by the owner's choice.
Ledger == INSTANCE SubscriptionLedger WITH
              offer <- [o \in Orders |-> tx[o].plan_code],
              reported <- Reported,
              settled <- {o \in Orders : tx[o].paid_at},
              plan <- sub.plan_code,
              bill <- sub.billing_subscription_id
ImplementsLedger == Ledger!Spec

\* "activate subscription only after confirmed payment" (docs/payments.md): the
\* plan of an order that the mock page had no part in is activated only if the
\* provider confirmed the payment.
ActivatedIfConfirmed ==
    \A o \in Unposted :
        activations[o] # "never" => remote[o].means = "paid"

\* A handler that holds the news of a payment records it.
PaidAnswerLands ==
    \A w \in Workers, o \in Orders :
        (job[w].order = o /\ job[w].report = "paid") ~> tx[o].paid_at

-----------------------------------------------------------------------------
(* The inductive invariant: what makes the properties above hold.          *)

\* The columns of a row that is there, and of one that is not.
RowsFit ==
    \A o \in Orders :
        \/ tx[o] = Absent
        \/ /\ tx[o].status # "absent"
           /\ tx[o].provider # "none"
           /\ tx[o].plan_code # NoPlan

\* What the provider says it has sent, signed confirmations are its own, and
\* a handler that holds the news of a payment was told it of its order.
NewsIsTrue ==
    /\ \A o \in Orders : remote[o] # Unheard => <<o, remote[o]>> \in ipns
    /\ SignatureRequired =>
           \A o \in Orders, t \in Texts :
               <<o, t>> \in ipns /\ t.means = "paid" => remote[o].means = "paid"
    /\ \A w \in Workers : job[w].report = "paid" => job[w].order \in Reported

Settles(j) == j.kind \in {"ipn", "mock_webhook", "status_check"}

\* A session's copy of a row may be old, but only in its status: the row is
\* there, it is of the plan that was read and, but for the mock webhook, of the
\* v2 provider, and if it was read as paid it has a payment date.
SessionFits(j) ==
    /\ j.kind # "idle" \/ j = Idle
    /\ j.kind = "plan_change" => j.plan \in ManualPlans
    /\ j.kind # "plan_change" /\ ~Settles(j) => j.pc = "start"
    /\ j.pc = "apply" => Settles(j)
    /\ Settles(j) =>
         /\ j.order \in Orders
         /\ tx[j.order].status # "absent"
         /\ tx[j.order].plan_code = j.seen.plan_code
         /\ j.kind # "mock_webhook" => tx[j.order].provider = "netopia_v2"
         /\ j.seen.status # "absent"
         /\ j.seen.status = "paid" => tx[j.order].paid_at
         /\ j.pc = "write" => Activates(j)

\* A checkout in flight owns its order, which has no row yet.
CheckoutFits(w) ==
    job[w].kind = "checkout" =>
        /\ job[w].order \in Orders
        /\ job[w].plan \in Plans
        /\ tx[job[w].order] = Absent
        /\ remote[job[w].order] # Unheard
        /\ \A v \in Workers \ {w} :
               job[v].kind = "checkout" => job[v].order # job[w].order

SessionsFit ==
    \A w \in Workers : SessionFits(job[w]) /\ CheckoutFits(w)

IInv ==
    /\ TypeOK
    /\ RowsFit
    /\ NewsIsTrue
    /\ SessionsFit
    /\ PaidWasReported
    /\ PaidIffActivated
    /\ PlanIsEarned
    /\ BillIsPaid
=============================================================================
