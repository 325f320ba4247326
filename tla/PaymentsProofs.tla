--------------------------- MODULE PaymentsProofs ---------------------------
(***************************************************************************)
(* Payments for every number of orders, plans and threads: the inductive   *)
(* invariant, the safety properties it implies, and the step by step       *)
(* implementation of SubscriptionLedger.                                   *)
(***************************************************************************)
EXTENDS Payments, TLAPS

USE DEF Workers, Outcomes, Statuses

-----------------------------------------------------------------------------
(* What the record updates of the handlers return.                         *)

LEMMA IdleRequest ==
    /\ Idle \in Job
    /\ Idle.kind = "idle"
    /\ Idle.pc = "start"
    /\ Idle.report = "pending"
    /\ Idle.order = NoOrder
  BY PlansAssumption DEF Job, Kinds, Idle, TxRow, SubRow, Absent, NewSub

LEMMA CheckoutRequestType ==
    ASSUME NEW o \in Orders, NEW p \in Plans
    PROVE  /\ CheckoutRequest(o, p) \in Job
           /\ CheckoutRequest(o, p).kind = "checkout"
           /\ CheckoutRequest(o, p).pc = "start"
           /\ CheckoutRequest(o, p).order = o
           /\ CheckoutRequest(o, p).plan = p
           /\ CheckoutRequest(o, p).report = "pending"
  BY PlansAssumption
  DEF CheckoutRequest, Job, Kinds, Idle, TxRow, SubRow, Absent, NewSub

LEMMA PlanRequestType ==
    ASSUME NEW p \in Plans, NEW row \in SubRow
    PROVE  /\ PlanRequest(p, row) \in Job
           /\ PlanRequest(p, row).kind = "plan_change"
           /\ PlanRequest(p, row).pc = "write"
           /\ PlanRequest(p, row).plan = p
           /\ PlanRequest(p, row).report = "pending"
           /\ PlanRequest(p, row).order = NoOrder
  BY PlansAssumption DEF PlanRequest, Job, Kinds, Idle, TxRow, SubRow, Absent

LEMMA SettleRequestType ==
    ASSUME NEW kind \in {"ipn", "mock_webhook", "status_check"},
           NEW pc \in {"start", "apply"}, NEW o \in Orders,
           NEW r \in Statuses, NEW row \in TxRow
    PROVE  /\ SettleRequest(kind, pc, o, r, row) \in Job
           /\ SettleRequest(kind, pc, o, r, row).kind = kind
           /\ SettleRequest(kind, pc, o, r, row).pc = pc
           /\ SettleRequest(kind, pc, o, r, row).order = o
           /\ SettleRequest(kind, pc, o, r, row).report = r
           /\ SettleRequest(kind, pc, o, r, row).seen = row
  BY PlansAssumption DEF SettleRequest, Job, Kinds, Idle, SubRow, NewSub

LEMMA AnsweredType ==
    ASSUME NEW j \in Job, NEW r \in Statuses
    PROVE  /\ Answered(j, r) \in Job
           /\ Answered(j, r).kind = j.kind
           /\ Answered(j, r).pc = "apply"
           /\ Answered(j, r).order = j.order
           /\ Answered(j, r).plan = j.plan
           /\ Answered(j, r).report = r
           /\ Answered(j, r).seen = j.seen
  BY DEF Answered, Job

LEMMA WithSubscriptionType ==
    ASSUME NEW j \in Job, NEW row \in SubRow
    PROVE  /\ WithSubscription(j, row) \in Job
           /\ WithSubscription(j, row).kind = j.kind
           /\ WithSubscription(j, row).pc = "write"
           /\ WithSubscription(j, row).order = j.order
           /\ WithSubscription(j, row).plan = j.plan
           /\ WithSubscription(j, row).report = j.report
           /\ WithSubscription(j, row).seen = j.seen
  BY DEF WithSubscription, Job

LEMMA SettledType ==
    ASSUME NEW row \in TxRow, NEW j \in Job
    PROVE  /\ Settled(row, j) \in TxRow
           /\ Settled(row, j).status
                  = Written(row.status, j.seen.status, j.report)
           /\ Settled(row, j).paid_at <=> (row.paid_at \/ j.report = "paid")
           /\ Settled(row, j).provider = row.provider
           /\ Settled(row, j).plan_code = row.plan_code
  BY DEF TxRow, Job, Settled, Written

LEMMA ActivatedType ==
    ASSUME NEW row \in SubRow, NEW j \in Job, j.seen.plan_code \in Plans,
           j.order \in Orders
    PROVE  /\ Activated(row, j) \in SubRow
           /\ Activated(row, j).plan_code \in {row.plan_code, j.seen.plan_code}
           /\ Activated(row, j).billing_subscription_id \in
                  {row.billing_subscription_id, j.order}
           /\ MockActivated(row, j) \in SubRow
           /\ MockActivated(row, j).plan_code \in
                  {row.plan_code, j.seen.plan_code}
           /\ MockActivated(row, j).billing_subscription_id
                  = row.billing_subscription_id
  BY DEF SubRow, Activated, MockActivated, Written

LEMMA PlanPickedType ==
    ASSUME NEW row \in SubRow, NEW j \in Job, j.plan \in Plans
    PROVE  /\ PlanPicked(row, j) \in SubRow
           /\ PlanPicked(row, j).plan_code \in {row.plan_code, j.plan}
           /\ PlanPicked(row, j).billing_subscription_id
                  = row.billing_subscription_id
  BY DEF SubRow, PlanPicked, Written

LEMMA RowTypes ==
    /\ Absent \in TxRow /\ Absent.status = "absent"
    /\ \A j \in Job : j.seen \in TxRow /\ j.seenSub \in SubRow
    /\ \A p \in Plans, v \in {"netopia_mock", "netopia_v2"} :
           [status |-> "pending", provider |-> v, plan_code |-> p,
            paid_at |-> FALSE] \in TxRow
  BY PlansAssumption DEF TxRow, Absent, Job

\* A text of the provider is heard of, and read as one of the four words.
LEMMA TextTypes ==
    ASSUME NEW t \in Texts \cup {Unheard}
    PROVE  /\ Normalize(t) \in Statuses
           /\ Normalize(t) = "paid" <=> Holds(t, PaidMarkers)
           /\ Normalize(t) = "paid" => t \in Texts
           /\ t = Unheard <=> t.means = "none"
  <1>1. t \in Texts => t.means \in {"open"} \cup Outcomes
    BY TextsAssumption DEF Text
  <1>2. Unheard.means = "none" /\ Unheard.markers = {}
    BY DEF Unheard
  <1>3. Normalize(t) = "paid" <=> Holds(t, PaidMarkers)
    BY DEF Normalize
  <1>4. ~Holds(Unheard, PaidMarkers)
    BY <1>2 DEF Holds
  <1>5. QED
    BY <1>1, <1>2, <1>3, <1>4 DEF Normalize

\* What was reported stays so, as notifications and posts are only added and
\* the provider does not take a confirmation back.
HearsMore ==
    /\ posted \subseteq posted'
    /\ ipns \subseteq ipns'
    /\ \A o \in Orders : remote[o].means = "paid" => remote'[o].means = "paid"

LEMMA ReportsStay ==
    ASSUME HearsMore
    PROVE  Reported \subseteq Reported' /\ Reported' \subseteq Orders
  BY DEF HearsMore, Reported

LEMMA SameReports ==
    ASSUME posted' = posted, ipns' = ipns, remote' = remote
    PROVE  Reported' = Reported
  BY DEF Reported
-----------------------------------------------------------------------------
(* The inductive invariant.  Sessions of other threads survive a step that *)
(* keeps every row as they know it.                                        *)

KeepsRows ==
    \A o \in Orders :
        tx[o].status # "absent" =>
            /\ tx'[o].status # "absent"
            /\ tx'[o].plan_code = tx[o].plan_code
            /\ tx'[o].provider = tx[o].provider
            /\ tx[o].paid_at => tx'[o].paid_at

LEMMA OtherSessions ==
    ASSUME SessionsFit, KeepsRows, NEW v \in Workers, job'[v] = job[v]
    PROVE  SessionFits(job[v])'
  BY DEF SessionsFit, KeepsRows, SessionFits, Settles, Activates

\* A step that begins, continues or ends the request of one thread and
\* changes neither rows nor the provider.
LEMMA OneSession ==
    ASSUME IInv, NEW w \in Workers, NEW j \in Job,
           job' = [job EXCEPT ![w] = j],
           tx' = tx, remote' = remote, ipns' = ipns,
           posted \subseteq posted', posted' \subseteq Orders \X Outcomes,
           activations' = activations, sub' \in SubRow,
           SessionFits(j), j.kind # "checkout",
           j.report = "paid" => j.order \in Reported'
    PROVE  TypeOK' /\ RowsFit' /\ NewsIsTrue' /\ SessionsFit' /\ PaidWasReported'
  <1> USE DEF IInv
  <1>1. TypeOK'
    BY DEF TypeOK
  <1>r. Reported \subseteq Reported'
    BY ReportsStay DEF HearsMore
  <1>2. RowsFit' /\ PaidWasReported'
    BY <1>r DEF RowsFit, PaidWasReported
  <1>3. /\ job'[w] = j
        /\ \A v \in Workers : v # w => job'[v] = job[v]
    BY DEF TypeOK
  <1>4. NewsIsTrue'
    BY <1>r, <1>3 DEF NewsIsTrue
  <1>5. ASSUME NEW v \in Workers PROVE SessionFits(job[v])'
    <2>1. CASE v = w
      BY <2>1, <1>3 DEF SessionFits
    <2>2. CASE v # w
      BY <2>2, <1>3, OtherSessions DEF KeepsRows
    <2>3. QED
      BY <2>1, <2>2
  <1>6. ASSUME NEW v \in Workers PROVE CheckoutFits(v)'
    <2>1. \A u \in Workers : job'[u].kind = "checkout" => job'[u] = job[u]
      BY <1>3
    <2>2. QED
      BY <2>1 DEF SessionsFit, CheckoutFits
  <1>7. QED
    BY <1>1, <1>2, <1>4, <1>5, <1>6 DEF SessionsFit

LEMMA IdleFits == SessionFits(Idle)
  BY IdleRequest DEF SessionFits, Settles

LEMMA InitIInv == Init => IInv
  <1> SUFFICES ASSUME Init PROVE IInv
    OBVIOUS
  <1> USE PlansAssumption, OrdersAssumption DEF Init
  <1>1. TypeOK
    BY IdleRequest, RowTypes DEF TypeOK, SubRow, Tally, NewSub
  <1>2. RowsFit /\ NewsIsTrue
    BY IdleRequest DEF RowsFit, NewsIsTrue
  <1>3. SessionsFit
    BY IdleFits, IdleRequest DEF SessionsFit, CheckoutFits
  <1>4. PaidWasReported /\ PaidIffActivated /\ PlanIsEarned /\ BillIsPaid
    BY DEF PaidWasReported, PaidIffActivated, PlanIsEarned, BillIsPaid,
           Absent, NewSub
  <1>5. QED
    BY <1>1, <1>2, <1>3, <1>4 DEF IInv

\* What every step must establish beside the conjuncts of OneSession.
LEMMA SameRows ==
    ASSUME IInv, tx' = tx, sub' = sub, activations' = activations, HearsMore
    PROVE  PaidIffActivated' /\ PlanIsEarned' /\ BillIsPaid' /\ sub' \in SubRow
  BY ReportsStay
  DEF IInv, TypeOK, PaidIffActivated, PlanIsEarned, BillIsPaid

LEMMA ReadingStep ==
    ASSUME IInv, NEW w \in Workers, NEW j \in Job,
           job' = [job EXCEPT ![w] = j],
           tx' = tx, remote' = remote, ipns' = ipns, sub' = sub,
           posted' = posted, activations' = activations,
           SessionFits(j), j.kind # "checkout",
           j.report = "paid" => j.order \in Reported
    PROVE  IInv'
  <1>1. posted' \subseteq Orders \X Outcomes
    BY DEF IInv, TypeOK
  <1>2. HearsMore /\ Reported' = Reported
    BY SameReports DEF HearsMore
  <1>3. QED
    BY <1>1, <1>2, OneSession, SameRows DEF IInv

-----------------------------------------------------------------------------
(* One lemma per action.                                                   *)

LEMMA IpnReadStep ==
    ASSUME IInv, NEW o \in Orders, NEW t \in Texts, IpnRead(o, t)
    PROVE  IInv'
  <1> DEFINE j == SettleRequest("ipn", "apply", o, Normalize(t), tx[o])
  <1>1. /\ Normalize(t) \in Statuses
        /\ Normalize(t) = "paid" => Holds(t, PaidMarkers)
    BY TextTypes
  <1>2. tx[o] \in TxRow /\ tx[o].status # "absent"
    BY DEF IpnRead, IInv, TypeOK, RowsFit, Absent
  <1>3. /\ j \in Job /\ j.kind = "ipn" /\ j.pc = "apply" /\ j.order = o
        /\ j.report = Normalize(t) /\ j.seen = tx[o]
    BY <1>1, <1>2, SettleRequestType
  <1>4. job' = [job EXCEPT ![EventLoop] = j]
    BY DEF IpnRead, Begin
  <1> HIDE DEF j
  <1>5. SessionFits(j)
    BY <1>2, <1>3 DEF SessionFits, Settles, IpnRead, IInv, PaidIffActivated
  <1>6. j.report = "paid" => j.order \in Reported
    BY <1>1, <1>3 DEF IpnRead, IInv, NewsIsTrue, Reported
  <1>7. QED
    BY <1>3, <1>4, <1>5, <1>6, ReadingStep DEF IpnRead

LEMMA MockWebhookReadStep ==
    ASSUME IInv, NEW w \in Threads, NEW o \in Orders, NEW s \in Buttons,
           MockWebhookRead(w, o, s)
    PROVE  IInv'
  <1> DEFINE j == SettleRequest("mock_webhook", "apply", o, s, tx[o])
  <1>1. /\ tx[o] \in TxRow /\ tx[o].status # "absent"
        /\ s \in Outcomes
    BY TextsAssumption DEF MockWebhookRead, IInv, TypeOK
  <1>2. /\ j \in Job /\ j.kind = "mock_webhook" /\ j.pc = "apply"
        /\ j.order = o /\ j.report = s /\ j.seen = tx[o]
    BY <1>1, SettleRequestType
  <1>3. /\ job' = [job EXCEPT ![w] = j]
        /\ tx' = tx /\ sub' = sub /\ activations' = activations
        /\ remote' = remote /\ ipns' = ipns
        /\ posted' = posted \cup {<<o, s>>}
    BY DEF MockWebhookRead, Begin
  <1> HIDE DEF j
  <1>4. SessionFits(j)
    BY <1>1, <1>2
    DEF SessionFits, Settles, MockWebhookRead, IInv, PaidIffActivated
  <1>5. j.report = "paid" => j.order \in Reported'
    BY <1>2, <1>3 DEF Reported
  <1>6. HearsMore /\ posted' \subseteq Orders \X Outcomes
    BY <1>1, <1>3 DEF HearsMore, IInv, TypeOK
  <1>7. PaidIffActivated' /\ PlanIsEarned' /\ BillIsPaid' /\ sub' \in SubRow
    BY <1>3, <1>6, SameRows
  <1>8. TypeOK' /\ RowsFit' /\ NewsIsTrue' /\ SessionsFit' /\ PaidWasReported'
    BY <1>2, <1>3, <1>4, <1>5, <1>6, <1>7, OneSession DEF HearsMore
  <1>9. QED
    BY <1>7, <1>8 DEF IInv

LEMMA StatusCheckReadStep ==
    ASSUME IInv, NEW w \in Threads, NEW o \in Orders, StatusCheckRead(w, o)
    PROVE  IInv'
  <1> DEFINE j == SettleRequest("status_check", "start", o, "pending", tx[o])
  <1>1. tx[o] \in TxRow /\ tx[o].status # "absent"
    BY DEF StatusCheckRead, IInv, TypeOK, RowsFit, Absent
  <1>2. /\ j \in Job /\ j.kind = "status_check" /\ j.pc = "start"
        /\ j.order = o /\ j.report = "pending" /\ j.seen = tx[o]
    BY <1>1, SettleRequestType
  <1>3. job' = [job EXCEPT ![w] = j]
    BY DEF StatusCheckRead, Begin
  <1> HIDE DEF j
  <1>4. SessionFits(j)
    BY <1>1, <1>2
    DEF SessionFits, Settles, StatusCheckRead, IInv, PaidIffActivated
  <1>5. QED
    BY <1>2, <1>3, <1>4, ReadingStep DEF StatusCheckRead

LEMMA StatusCheckAnswerStep ==
    ASSUME IInv, NEW w \in Workers, StatusCheckAnswer(w)
    PROVE  IInv'
  <1> DEFINE r == Normalize(remote[job[w].order])
             j == Answered(job[w], r)
  <1>1. job[w] \in Job /\ SessionFits(job[w])
    BY DEF IInv, TypeOK, SessionsFit
  <1>2. /\ r \in Statuses
        /\ r = "paid" => job[w].order \in Reported
    <2>1. job[w].order \in Orders
      BY <1>1 DEF SessionFits, Settles, StatusCheckAnswer
    <2>2. remote[job[w].order] \in Texts \cup {Unheard}
      BY <2>1 DEF IInv, TypeOK
    <2>3. /\ r \in Statuses
          /\ r = "paid" => /\ Holds(remote[job[w].order], PaidMarkers)
                          /\ remote[job[w].order] \in Texts
      BY <2>2, TextTypes
    <2>4. Holds(Unheard, PaidMarkers) = FALSE
      BY DEF Holds, Unheard
    <2>5. r = "paid" => <<job[w].order, remote[job[w].order]>> \in ipns
      BY <2>1, <2>3, <2>4 DEF IInv, NewsIsTrue
    <2>6. QED
      BY <2>1, <2>3, <2>5 DEF Reported
  <1>3. job' = [job EXCEPT ![w] = j]
    BY DEF StatusCheckAnswer
  <1> HIDE DEF r
  <1>4. /\ j \in Job /\ j.kind = job[w].kind /\ j.pc = "apply"
        /\ j.order = job[w].order /\ j.report = r /\ j.seen = job[w].seen
    BY <1>1, <1>2, AnsweredType
  <1> HIDE DEF j
  <1>5. SessionFits(j)
    BY <1>1, <1>4 DEF SessionFits, Settles, StatusCheckAnswer
  <1>6. j.report = "paid" => j.order \in Reported
    BY <1>2, <1>4
  <1>7. QED
    BY <1>3, <1>4, <1>5, <1>6, ReadingStep DEF StatusCheckAnswer

LEMMA ReadSubscriptionStep ==
    ASSUME IInv, NEW w \in Workers, ReadSubscription(w)
    PROVE  IInv'
  <1> DEFINE j == WithSubscription(job[w], sub)
  <1>1. job[w] \in Job /\ SessionFits(job[w]) /\ sub \in SubRow
    BY DEF IInv, TypeOK, SessionsFit
  <1>2. job' = [job EXCEPT ![w] = j]
    BY DEF ReadSubscription
  <1>3. /\ j \in Job /\ j.kind = job[w].kind /\ j.pc = "write"
        /\ j.order = job[w].order /\ j.report = job[w].report
        /\ j.seen = job[w].seen
    BY <1>1, WithSubscriptionType
  <1> HIDE DEF j
  <1>4. SessionFits(j)
    BY <1>1, <1>3 DEF SessionFits, Settles, ReadSubscription, Activates
  <1>5. j.report = "paid" => j.order \in Reported
    BY <1>3 DEF IInv, NewsIsTrue
  <1>6. QED
    BY <1>2, <1>3, <1>4, <1>5, ReadingStep DEF ReadSubscription

LEMMA PlanChangeReadStep ==
    ASSUME IInv, NEW w \in Threads, NEW p \in ManualPlans, PlanChangeRead(w, p)
    PROVE  IInv'
  <1> DEFINE j == PlanRequest(p, sub)
  <1>1. p \in Plans /\ sub \in SubRow
    BY PlansAssumption DEF IInv, TypeOK
  <1>2. /\ j \in Job /\ j.kind = "plan_change" /\ j.pc = "write"
        /\ j.plan = p /\ j.report = "pending"
    BY <1>1, PlanRequestType
  <1>3. job' = [job EXCEPT ![w] = j]
    BY DEF PlanChangeRead, Begin
  <1> HIDE DEF j
  <1>4. SessionFits(j)
    BY <1>2 DEF SessionFits, Settles
  <1>5. QED
    BY <1>2, <1>3, <1>4, ReadingStep DEF PlanChangeRead

LEMMA AbortStep ==
    ASSUME IInv, NEW w \in Workers, Abort(w)
    PROVE  IInv'
  BY IdleRequest, IdleFits, ReadingStep DEF Abort, End

LEMMA CommitPlanChangeStep ==
    ASSUME IInv, NEW w \in Workers, CommitPlanChange(w)
    PROVE  IInv'
  <1>1. /\ job[w] \in Job /\ job[w].plan \in ManualPlans
        /\ job[w].plan \in Plans /\ sub \in SubRow
    BY PlansAssumption
    DEF CommitPlanChange, IInv, TypeOK, SessionsFit, SessionFits
  <1>2. /\ sub' \in SubRow
        /\ sub'.plan_code \in {sub.plan_code, job[w].plan}
        /\ sub'.billing_subscription_id = sub.billing_subscription_id
    BY <1>1, PlanPickedType DEF CommitPlanChange
  <1>r. posted' \subseteq Orders \X Outcomes /\ Reported' = Reported
    BY SameReports DEF CommitPlanChange, IInv, TypeOK
  <1>3. TypeOK' /\ RowsFit' /\ NewsIsTrue' /\ SessionsFit' /\ PaidWasReported'
    BY <1>r, <1>2, IdleRequest, IdleFits, OneSession DEF CommitPlanChange, End
  <1>4. PaidIffActivated'
    BY DEF CommitPlanChange, IInv, PaidIffActivated
  <1>5. PlanIsEarned'
    BY <1>r, <1>1, <1>2 DEF CommitPlanChange, IInv, PlanIsEarned
  <1>6. BillIsPaid'
    BY <1>2 DEF CommitPlanChange, IInv, BillIsPaid
  <1>7. QED
    BY <1>3, <1>4, <1>5, <1>6 DEF IInv

LEMMA CheckoutCallStep ==
    ASSUME IInv, NEW w \in Threads, NEW o \in Orders, NEW p \in Plans,
           NEW t \in Texts, CheckoutCall(w, o, p, t)
    PROVE  IInv'
  <1> USE DEF IInv
  <1> DEFINE r == CheckoutRequest(o, p)
  <1>1. /\ r \in Job /\ r.kind = "checkout" /\ r.pc = "start" /\ r.order = o
        /\ r.plan = p /\ r.report = "pending"
    BY CheckoutRequestType
  <1>2. /\ job' = [job EXCEPT ![w] = r] /\ job[w] = Idle
        /\ tx' = tx /\ sub' = sub /\ activations' = activations
        /\ remote' = [remote EXCEPT ![o] = t]
        /\ ipns' = ipns \cup {<<o, t>>} /\ posted' = posted
        /\ remote[o] = Unheard /\ tx[o] = Absent
        /\ t.means = "open" /\ t # Unheard
        /\ Unheard.means = "none"
    BY DEF CheckoutCall, Begin, Unheard
  <1> HIDE DEF r
  <1>3. TypeOK'
    BY <1>1, <1>2 DEF TypeOK
  <1>r. HearsMore /\ Reported \subseteq Reported'
    BY <1>2, ReportsStay DEF HearsMore, TypeOK
  <1>4. /\ job'[w] = r
        /\ \A v \in Workers \ {w} : job'[v] = job[v]
    BY <1>2 DEF TypeOK
  <1>5. RowsFit'
    BY <1>2 DEF RowsFit
  <1>6. NewsIsTrue'
    BY <1>1, <1>2, <1>4, <1>r DEF NewsIsTrue, TypeOK
  <1>7. ASSUME NEW v \in Workers PROVE SessionFits(job[v])'
    <2>1. CASE v = w
      BY <1>1, <1>4, <2>1 DEF SessionFits, Settles
    <2>2. CASE v # w
      BY <1>2, <1>4, <2>2, OtherSessions DEF KeepsRows
    <2>3. QED
      BY <2>1, <2>2
  <1>8. ASSUME NEW v \in Workers PROVE CheckoutFits(v)'
    <2>1. \A u \in Workers \ {w} :
              job[u].kind = "checkout" => job[u].order # o
      BY <1>2 DEF SessionsFit, CheckoutFits
    <2>2. CASE v = w
      BY <1>1, <1>2, <1>4, <2>1, <2>2 DEF CheckoutFits, TypeOK
    <2>3. CASE v # w
      BY <1>1, <1>2, <1>4, <2>1, <2>3 DEF SessionsFit, CheckoutFits, TypeOK
    <2>4. QED
      BY <2>2, <2>3
  <1>9. PaidWasReported'
    BY <1>2, <1>r DEF PaidWasReported
  <1>10. PaidIffActivated' /\ PlanIsEarned' /\ BillIsPaid'
    BY <1>2, <1>r, SameRows
  <1>11. QED
    BY <1>3, <1>5, <1>6, <1>7, <1>8, <1>9, <1>10 DEF SessionsFit

\* A plan in force stays earned while the rows that earned it are kept.
LEMMA PlanStays ==
    ASSUME IInv, sub'.plan_code = sub.plan_code, Reported' = Reported,
           \A q \in Orders : tx[q].status # "absent" =>
               /\ tx'[q].plan_code = tx[q].plan_code
               /\ tx[q].paid_at => tx'[q].paid_at
    PROVE  PlanIsEarned'
  <1>1. CASE sub.plan_code \in {DefaultPlan} \cup ManualPlans
    BY <1>1 DEF PlanIsEarned
  <1>2. ASSUME NEW q \in Reported, tx[q].plan_code = sub.plan_code,
               tx[q].paid_at
        PROVE  PlanIsEarned'
    <2>1. q \in Orders
      BY DEF Reported
    <2>2. tx[q].status # "absent"
      BY <1>2, <2>1 DEF IInv, RowsFit, Absent
    <2>3. tx'[q].plan_code = sub'.plan_code /\ tx'[q].paid_at
      BY <1>2, <2>1, <2>2
    <2>4. QED
      BY <2>3, <1>2 DEF PlanIsEarned
  <1>3. QED
    BY <1>1, <1>2 DEF IInv, PlanIsEarned

\* A row is inserted for an order that has none and that no session, except
\* the one that ends, is about.
LEMMA InsertStep ==
    ASSUME IInv, NEW o \in Orders, NEW row \in TxRow,
           tx[o] = Absent, row.status = "pending",
           row.provider # "none", row.plan_code # NoPlan, ~row.paid_at,
           tx' = [tx EXCEPT ![o] = row],
           sub' = sub, activations' = activations, ipns' = ipns,
           remote' = remote, posted' = posted,
           job' \in [Workers -> Job],
           \A w \in Workers : \/ job'[w] = Idle
                              \/ /\ job'[w] = job[w]
                                 /\ job[w].kind = "checkout" =>
                                        job[w].order # o
    PROVE  IInv'
  <1> USE DEF IInv
  <1>1. TypeOK'
    BY DEF TypeOK
  <1>2. /\ tx'[o] = row
        /\ \A q \in Orders \ {o} : tx'[q] = tx[q]
    BY DEF TypeOK
  <1>3. RowsFit'
    BY <1>2 DEF RowsFit
  <1>r. Reported' = Reported
    BY SameReports
  <1>4. NewsIsTrue'
    BY <1>r, IdleRequest DEF NewsIsTrue
  <1>5. KeepsRows
    BY <1>2 DEF KeepsRows, Absent
  <1>6. ASSUME NEW w \in Workers PROVE SessionFits(job[w])'
    <2>1. CASE job'[w] = Idle
      BY <2>1, IdleRequest DEF SessionFits, Settles
    <2>2. CASE job'[w] = job[w]
      BY <1>5, <2>2, OtherSessions
    <2>3. QED
      BY <2>1, <2>2
  <1>7. ASSUME NEW w \in Workers PROVE CheckoutFits(w)'
    <2>1. ASSUME NEW v \in Workers, job'[v].kind = "checkout"
          PROVE  job'[v] = job[v] /\ job[v].order # o
      BY <2>1, IdleRequest
    <2>2. QED
      BY <1>2, <2>1 DEF SessionsFit, CheckoutFits
  <1>8. PaidWasReported' /\ PaidIffActivated'
    BY <1>2, <1>r DEF PaidWasReported, PaidIffActivated, Absent
  <1>9. PlanIsEarned'
    BY <1>2, <1>r, PlanStays DEF Absent
  <1>10. BillIsPaid'
    BY <1>2 DEF BillIsPaid, TypeOK, SubRow, Absent
  <1>11. QED
    BY <1>1, <1>3, <1>4, <1>6, <1>7, <1>8, <1>9, <1>10 DEF SessionsFit

LEMMA CheckoutCommitStep ==
    ASSUME IInv, NEW w \in Workers, CheckoutCommit(w)
    PROVE  IInv'
  <1> DEFINE row == [status |-> "pending", provider |-> "netopia_v2",
                     plan_code |-> job[w].plan, paid_at |-> FALSE]
  <1>1. /\ job[w].order \in Orders /\ job[w].plan \in Plans
        /\ tx[job[w].order] = Absent
        /\ \A v \in Workers \ {w} :
               job[v].kind = "checkout" => job[v].order # job[w].order
    BY DEF CheckoutCommit, IInv, SessionsFit, CheckoutFits
  <1>2. /\ row \in TxRow /\ row.status = "pending" /\ row.provider # "none"
        /\ row.plan_code # NoPlan /\ ~row.paid_at
    BY <1>1, PlansAssumption DEF TxRow
  <1>3. tx' = [tx EXCEPT ![job[w].order] = row] /\ remote' = remote
    BY DEF CheckoutCommit
  <1> HIDE DEF row
  <1>4. /\ job' \in [Workers -> Job]
        /\ \A v \in Workers :
               job'[v] = IF v = w THEN Idle ELSE job[v]
    BY IdleRequest DEF CheckoutCommit, End, IInv, TypeOK
  <1>5. \A v \in Workers : \/ job'[v] = Idle
                           \/ /\ job'[v] = job[v]
                              /\ job[v].kind = "checkout" =>
                                     job[v].order # job[w].order
    BY <1>1, <1>4
  <1>6. /\ sub' = sub /\ activations' = activations /\ ipns' = ipns
        /\ posted' = posted
    BY DEF CheckoutCommit
  <1>7. QED
    BY <1>1, <1>2, <1>3, <1>4, <1>5, <1>6, InsertStep

LEMMA MockCheckoutStep ==
    ASSUME IInv, NEW w \in Threads, NEW o \in Orders, NEW p \in Plans,
           MockCheckout(w, o, p)
    PROVE  IInv'
  <1> DEFINE row == [status |-> "pending", provider |-> "netopia_mock",
                     plan_code |-> p, paid_at |-> FALSE]
  <1>1. \A v \in Workers : job[v].kind = "checkout" => job[v].order # o
    BY DEF MockCheckout, IInv, SessionsFit, CheckoutFits
  <1>2. /\ row \in TxRow /\ row.status = "pending" /\ row.provider # "none"
        /\ row.plan_code # NoPlan /\ ~row.paid_at
    BY PlansAssumption DEF TxRow
  <1>3. tx' = [tx EXCEPT ![o] = row] /\ job' = job
    BY DEF MockCheckout
  <1> HIDE DEF row
  <1>4. QED
    BY <1>1, <1>2, <1>3, InsertStep DEF MockCheckout, IInv, TypeOK

\* News of an order, true or not the provider's, changes no row.
LEMMA NewsStep ==
    ASSUME IInv, HearsMore, NewsIsTrue',
           remote' \in [Orders -> Texts \cup {Unheard}],
           \A q \in Orders : remote[q] # Unheard => remote'[q] # Unheard,
           ipns' \subseteq Orders \X Texts, posted' = posted,
           tx' = tx, sub' = sub, activations' = activations, job' = job
    PROVE  IInv'
  <1> USE DEF IInv
  <1>1. TypeOK'
    BY DEF TypeOK
  <1>2. RowsFit' /\ PaidWasReported'
    BY ReportsStay DEF RowsFit, PaidWasReported
  <1>3. SessionsFit'
    <2>1. \A w \in Workers : SessionFits(job[w])'
      BY OtherSessions DEF KeepsRows
    <2>2. \A w \in Workers : CheckoutFits(w)'
      BY DEF SessionsFit, CheckoutFits
    <2>3. QED
      BY <2>1, <2>2 DEF SessionsFit
  <1>4. QED
    BY <1>1, <1>2, <1>3, SameRows

LEMMA ProviderReportsStep ==
    ASSUME IInv, NEW o \in Orders, NEW t \in Texts, ProviderReports(o, t)
    PROVE  IInv' /\ HearsMore
  <1>1. /\ remote \in [Orders -> Texts \cup {Unheard}]
        /\ remote' = [remote EXCEPT ![o] = t]
        /\ ipns' = ipns \cup {<<o, t>>} /\ posted' = posted
        /\ job' = job
        /\ remote[o].means = "paid" => t.means = "paid"
    BY DEF ProviderReports, IInv, TypeOK
  <1>2. t # Unheard
    BY TextTypes, TextsAssumption DEF Unheard, Text
  <1>3. HearsMore
    BY <1>1 DEF HearsMore
  <1>4. NewsIsTrue'
    <2>1. \A q \in Orders : remote'[q] # Unheard => <<q, remote'[q]>> \in ipns'
      BY <1>1 DEF IInv, NewsIsTrue
    <2>2. SignatureRequired =>
              \A q \in Orders, u \in Texts :
                  <<q, u>> \in ipns' /\ u.means = "paid" =>
                      remote'[q].means = "paid"
      BY <1>1 DEF IInv, NewsIsTrue
    <2>3. QED
      BY <1>1, <1>3, <2>1, <2>2, ReportsStay DEF IInv, NewsIsTrue
  <1>5. QED
    BY <1>1, <1>2, <1>3, <1>4, NewsStep DEF ProviderReports, IInv, TypeOK

LEMMA UnsignedReportStep ==
    ASSUME IInv, NEW o \in Orders, NEW t \in Texts, UnsignedReport(o, t)
    PROVE  IInv' /\ HearsMore
  <1>1. /\ ~SignatureRequired
        /\ ipns' = ipns \cup {<<o, t>>} /\ posted' = posted
        /\ remote' = remote /\ job' = job
    BY DEF UnsignedReport
  <1>2. HearsMore
    BY <1>1 DEF HearsMore
  <1>3. NewsIsTrue'
    BY <1>1, <1>2, ReportsStay DEF IInv, NewsIsTrue
  <1>4. QED
    BY <1>1, <1>2, <1>3, NewsStep DEF UnsignedReport, IInv, TypeOK

\* A session that settles its row: what the commits of handlers with and
\* without an activation have in common.
LEMMA SettleStep ==
    ASSUME IInv, NEW w \in Workers, Settles(job[w]),
           tx' = [tx EXCEPT ![job[w].order] = Settled(tx[job[w].order], job[w])],
           job' = [job EXCEPT ![w] = Idle],
           remote' = remote, ipns' = ipns, posted' = posted
    PROVE  /\ job[w].order \in Orders
           /\ Reported' = Reported
           /\ tx' \in [Orders -> TxRow]
           /\ job' \in [Workers -> Job]
           /\ \A q \in Orders \ {job[w].order} : tx'[q] = tx[q]
           /\ tx'[job[w].order].paid_at <=>
                  (tx[job[w].order].paid_at \/ job[w].report = "paid")
           /\ KeepsRows
           /\ RowsFit' /\ NewsIsTrue' /\ SessionsFit' /\ PaidWasReported'
           /\ \A q \in Orders : tx'[q].status = "paid" => tx'[q].paid_at
  <1> USE DEF IInv
  <1> DEFINE j == job[w]
             new == Settled(tx[j.order], j)
  <1>1. j \in Job /\ SessionFits(j)
    BY DEF TypeOK, SessionsFit
  <1>2. /\ j.order \in Orders /\ tx[j.order] \in TxRow
        /\ tx[j.order].status # "absent"
        /\ j.seen.status = "paid" => tx[j.order].paid_at
        /\ j.report \in Statuses
    BY <1>1 DEF SessionFits, TypeOK, Job
  <1>3. /\ new \in TxRow
        /\ new.status = Written(tx[j.order].status, j.seen.status, j.report)
        /\ new.paid_at <=> (tx[j.order].paid_at \/ j.report = "paid")
        /\ new.provider = tx[j.order].provider
        /\ new.plan_code = tx[j.order].plan_code
    BY <1>1, <1>2, SettledType
  <1>4. tx' = [tx EXCEPT ![j.order] = new]
    OBVIOUS
  <1> HIDE DEF new
  <1>5. /\ tx' \in [Orders -> TxRow]
        /\ tx'[j.order] = new
        /\ \A q \in Orders \ {j.order} : tx'[q] = tx[q]
    BY <1>2, <1>3, <1>4 DEF TypeOK
  <1>6. new.status # "absent"
    BY <1>2, <1>3 DEF Written
  <1>7. KeepsRows
    BY <1>2, <1>3, <1>5, <1>6 DEF KeepsRows
  <1>8. RowsFit'
    <2>1. tx[j.order] # Absent
      BY <1>2, RowTypes
    <2>2. QED
      BY <1>2, <1>3, <1>5, <1>6, <2>1 DEF RowsFit
  <1>9. /\ job' \in [Workers -> Job]
        /\ \A v \in Workers : job'[v] = IF v = w THEN Idle ELSE job[v]
    BY IdleRequest DEF TypeOK
  <1>r. Reported' = Reported
    BY SameReports
  <1>10. NewsIsTrue'
    BY <1>r, <1>9, IdleRequest DEF NewsIsTrue
  <1>11. ASSUME NEW v \in Workers PROVE SessionFits(job[v])'
    <2>1. CASE v = w
      BY <1>9, <2>1, IdleRequest DEF SessionFits, Settles
    <2>2. CASE v # w
      BY <1>7, <1>9, <2>2, OtherSessions
    <2>3. QED
      BY <2>1, <2>2
  <1>12. ASSUME NEW v \in Workers PROVE CheckoutFits(v)'
    <2>1. ASSUME NEW u \in Workers, job'[u].kind = "checkout"
          PROVE  job'[u] = job[u] /\ job[u].order # j.order
      <3>1. job'[u] = job[u]
        BY <1>9, <2>1, IdleRequest
      <3>2. tx[job[u].order].status = "absent"
        BY <2>1, <3>1, RowTypes DEF SessionsFit, CheckoutFits
      <3>3. QED
        BY <1>2, <3>1, <3>2
    <2>2. QED
      BY <1>5, <2>1 DEF SessionsFit, CheckoutFits
  <1>13. PaidWasReported'
    <2>1. j.order \in Reported \/ (j.report # "paid" /\ ~tx[j.order].paid_at
                                   /\ tx[j.order].status # "paid")
      BY <1>2 DEF NewsIsTrue, PaidWasReported
    <2>2. QED
      BY <1>r, <1>2, <1>3, <1>5, <2>1 DEF PaidWasReported, Written
  <1>14. \A q \in Orders : tx'[q].status = "paid" => tx'[q].paid_at
    BY <1>2, <1>3, <1>5 DEF PaidIffActivated, Written
  <1>15. QED
    BY <1>r, <1>2, <1>3, <1>5, <1>7, <1>8, <1>9, <1>10, <1>11, <1>12, <1>13,
       <1>14 DEF SessionsFit

\* A handler that activates nothing changes no payment date.
LEMMA CommitStatusEffect ==
    ASSUME IInv, NEW w \in Workers, CommitStatus(w)
    PROVE  /\ job[w].order \in Orders
           /\ Reported' = Reported
           /\ remote' = remote /\ ipns' = ipns /\ posted' = posted
           /\ sub' = sub /\ activations' = activations
           /\ tx' \in [Orders -> TxRow]
           /\ job' \in [Workers -> Job]
           /\ \A q \in Orders : tx'[q].paid_at <=> tx[q].paid_at
           /\ KeepsRows
           /\ \A q \in Orders \ {job[w].order} : tx'[q] = tx[q]
           /\ tx[job[w].order].status # "absent"
           /\ RowsFit' /\ NewsIsTrue' /\ SessionsFit' /\ PaidWasReported'
           /\ \A q \in Orders : tx'[q].status = "paid" => tx'[q].paid_at
  <1>1. Settles(job[w]) /\ job[w].order \in Orders
    BY DEF CommitStatus, IInv, SessionsFit, SessionFits
  <1>2. /\ tx' = [tx EXCEPT ![job[w].order] =
                     Settled(tx[job[w].order], job[w])]
        /\ job' = [job EXCEPT ![w] = Idle]
        /\ remote' = remote /\ ipns' = ipns /\ posted' = posted
        /\ sub' = sub /\ activations' = activations
    BY DEF CommitStatus, End
  <1>3. /\ tx' \in [Orders -> TxRow]
        /\ Reported' = Reported
        /\ job' \in [Workers -> Job]
        /\ \A q \in Orders \ {job[w].order} : tx'[q] = tx[q]
        /\ tx'[job[w].order].paid_at <=>
               (tx[job[w].order].paid_at \/ job[w].report = "paid")
        /\ KeepsRows
        /\ RowsFit' /\ NewsIsTrue' /\ SessionsFit' /\ PaidWasReported'
        /\ \A q \in Orders : tx'[q].status = "paid" => tx'[q].paid_at
    BY <1>1, <1>2, SettleStep
  <1>4. tx'[job[w].order].paid_at <=> tx[job[w].order].paid_at
    \* an answer "paid" that activates nothing was read as paid already
    <2>1. job[w].report = "paid" => tx[job[w].order].paid_at
      BY <1>1
      DEF CommitStatus, Activates, IInv, SessionsFit, SessionFits
    <2>2. QED
      BY <1>3, <2>1
  <1>5. tx[job[w].order].status # "absent"
    BY <1>1 DEF IInv, SessionsFit, SessionFits
  <1>6. \A q \in Orders : tx'[q].paid_at <=> tx[q].paid_at
    BY <1>1, <1>3, <1>4
  <1>7. QED
    BY <1>1, <1>2, <1>3, <1>5, <1>6

LEMMA CommitStatusStep ==
    ASSUME IInv, NEW w \in Workers, CommitStatus(w)
    PROVE  IInv'
  <1>1. /\ job[w].order \in Orders
        /\ remote' = remote /\ ipns' = ipns /\ posted' = posted
        /\ Reported' = Reported
        /\ sub' = sub /\ activations' = activations
        /\ tx' \in [Orders -> TxRow]
        /\ job' \in [Workers -> Job]
        /\ \A q \in Orders : tx'[q].paid_at <=> tx[q].paid_at
        /\ KeepsRows
        /\ RowsFit' /\ NewsIsTrue' /\ SessionsFit' /\ PaidWasReported'
        /\ \A q \in Orders : tx'[q].status = "paid" => tx'[q].paid_at
    BY CommitStatusEffect
  <1>2. TypeOK'
    BY <1>1 DEF IInv, TypeOK
  <1>3. PaidIffActivated'
    BY <1>1 DEF IInv, PaidIffActivated
  <1>4. /\ \A q \in Orders : tx[q].status # "absent" =>
               /\ tx'[q].plan_code = tx[q].plan_code
               /\ tx'[q].provider = tx[q].provider
               /\ tx[q].paid_at => tx'[q].paid_at
        /\ \A q \in Orders : tx[q].status = "absent" =>
               /\ tx[q].plan_code = NoPlan /\ tx[q].provider = "none"
    BY <1>1 DEF KeepsRows, IInv, RowsFit, Absent
  <1>5. PlanIsEarned'
    BY <1>1, <1>4, PlanStays
  <1>6. BillIsPaid'
    BY <1>1, <1>4 DEF IInv, BillIsPaid, TypeOK, SubRow
  <1>7. QED
    BY <1>1, <1>2, <1>3, <1>5, <1>6 DEF IInv

\* What the commit of an activating handler does to rows and subscription.
LEMMA CommitActivationEffect ==
    ASSUME IInv, NEW w \in Workers, CommitActivation(w)
    PROVE  LET j == job[w]
               o == j.order
           IN
           /\ o \in Orders /\ j \in Job
           /\ tx[o].status # "absent"
           /\ tx[o].plan_code \in Plans
           /\ j.kind # "mock_webhook" => tx[o].provider = "netopia_v2"
           /\ remote' = remote /\ ipns' = ipns /\ posted' = posted
           /\ o \in Reported /\ Reported' = Reported
           /\ tx' \in [Orders -> TxRow]
           /\ job' \in [Workers -> Job]
           /\ \A q \in Orders \ {o} : tx'[q] = tx[q]
           /\ tx'[o].paid_at
           /\ KeepsRows
           /\ RowsFit' /\ NewsIsTrue' /\ SessionsFit' /\ PaidWasReported'
           /\ \A q \in Orders : tx'[q].status = "paid" => tx'[q].paid_at
           /\ sub \in SubRow /\ sub' \in SubRow
           /\ sub'.plan_code \in {sub.plan_code, tx[o].plan_code}
           /\ sub'.billing_subscription_id \in
                  IF j.kind = "mock_webhook"
                  THEN {sub.billing_subscription_id}
                  ELSE {sub.billing_subscription_id, o}
           /\ activations' = [activations EXCEPT ![o] = OneMore(@)]
  <1> DEFINE j == job[w]
             o == j.order
  <1>1. /\ j \in Job /\ Settles(j) /\ o \in Orders /\ Activates(j)
        /\ tx[o].status # "absent"
        /\ tx[o].plan_code = j.seen.plan_code
        /\ j.kind # "mock_webhook" => tx[o].provider = "netopia_v2"
    BY DEF CommitActivation, IInv, TypeOK, SessionsFit, SessionFits, Settles
  <1>2. j.report = "paid" /\ o \in Reported
    BY <1>1 DEF Activates, IInv, NewsIsTrue
  <1>3. j.seen.plan_code \in Plans
    <2>1. tx[o].plan_code # NoPlan
      BY <1>1, RowTypes DEF IInv, RowsFit
    <2>2. tx[o].plan_code \in Plans \cup {NoPlan}
      BY <1>1 DEF IInv, TypeOK, TxRow
    <2>3. QED
      BY <1>1, <2>1, <2>2
  <1>4. /\ tx' = [tx EXCEPT ![o] = Settled(tx[o], j)]
        /\ job' = [job EXCEPT ![w] = Idle]
        /\ remote' = remote /\ ipns' = ipns /\ posted' = posted
        /\ activations' = [activations EXCEPT ![o] = OneMore(@)]
        /\ sub' = IF j.kind = "mock_webhook" THEN MockActivated(sub, j)
                                             ELSE Activated(sub, j)
    BY DEF CommitActivation, End
  <1>5. /\ tx' \in [Orders -> TxRow]
        /\ Reported' = Reported
        /\ job' \in [Workers -> Job]
        /\ \A q \in Orders \ {o} : tx'[q] = tx[q]
        /\ tx'[o].paid_at <=> (tx[o].paid_at \/ j.report = "paid")
        /\ KeepsRows
        /\ RowsFit' /\ NewsIsTrue' /\ SessionsFit' /\ PaidWasReported'
        /\ \A q \in Orders : tx'[q].status = "paid" => tx'[q].paid_at
    BY <1>1, <1>4, SettleStep
  <1>6. sub \in SubRow
    BY DEF IInv, TypeOK
  <1>7. /\ sub' \in SubRow
        /\ sub'.plan_code \in {sub.plan_code, tx[o].plan_code}
        /\ sub'.billing_subscription_id \in
               IF j.kind = "mock_webhook"
               THEN {sub.billing_subscription_id}
               ELSE {sub.billing_subscription_id, o}
    BY <1>1, <1>3, <1>4, <1>6, ActivatedType
  <1>8. QED
    BY <1>1, <1>2, <1>3, <1>4, <1>5, <1>6, <1>7

LEMMA CommitActivationStep ==
    ASSUME IInv, NEW w \in Workers, CommitActivation(w)
    PROVE  IInv'
  <1> DEFINE j == job[w]
             o == j.order
  <1>1. /\ o \in Orders /\ tx[o].status # "absent"
        /\ j.kind # "mock_webhook" => tx[o].provider = "netopia_v2"
        /\ remote' = remote /\ ipns' = ipns /\ posted' = posted
        /\ o \in Reported /\ Reported' = Reported
        /\ tx' \in [Orders -> TxRow]
        /\ job' \in [Workers -> Job]
        /\ \A q \in Orders \ {o} : tx'[q] = tx[q]
        /\ tx'[o].paid_at
        /\ KeepsRows
        /\ RowsFit' /\ NewsIsTrue' /\ SessionsFit' /\ PaidWasReported'
        /\ \A q \in Orders : tx'[q].status = "paid" => tx'[q].paid_at
        /\ sub \in SubRow /\ sub' \in SubRow
        /\ sub'.plan_code \in {sub.plan_code, tx[o].plan_code}
        /\ sub'.billing_subscription_id \in
               IF j.kind = "mock_webhook"
               THEN {sub.billing_subscription_id}
               ELSE {sub.billing_subscription_id, o}
        /\ activations' = [activations EXCEPT ![o] = OneMore(@)]
    BY CommitActivationEffect
  <1>2. /\ activations' \in [Orders -> Tally]
        /\ activations'[o] # "never"
        /\ \A q \in Orders \ {o} : activations'[q] = activations[q]
    BY <1>1 DEF IInv, TypeOK, Tally, OneMore
  <1>3. TypeOK'
    BY <1>1, <1>2 DEF IInv, TypeOK
  <1>4. PaidIffActivated'
    BY <1>1, <1>2 DEF IInv, PaidIffActivated
  <1>5. /\ \A q \in Orders : tx[q].status # "absent" =>
               /\ tx'[q].plan_code = tx[q].plan_code
               /\ tx'[q].provider = tx[q].provider
               /\ tx[q].paid_at => tx'[q].paid_at
        /\ \A q \in Orders : tx[q].status = "absent" =>
               /\ tx[q].plan_code = NoPlan /\ tx[q].provider = "none"
    BY <1>1 DEF KeepsRows, IInv, RowsFit, Absent
  <1>6. PlanIsEarned'
    <2>1. CASE sub'.plan_code = sub.plan_code
      BY <1>1, <1>5, <2>1, PlanStays
    <2>2. CASE sub'.plan_code = tx[o].plan_code
      <3>1. tx'[o].plan_code = sub'.plan_code /\ tx'[o].paid_at
        BY <1>1, <1>5, <2>2
      <3>2. QED
        BY <1>1, <3>1 DEF PlanIsEarned
    <2>3. QED
      BY <1>1, <2>1, <2>2
  <1>7. BillIsPaid'
    BY <1>1, <1>5 DEF IInv, BillIsPaid, SubRow
  <1>8. QED
    BY <1>1, <1>3, <1>4, <1>6, <1>7 DEF IInv

LEMMA StutterStep ==
    ASSUME IInv, UNCHANGED vars
    PROVE  IInv'
  <1>1. Reported' = Reported
    BY SameReports DEF vars
  <1>2. QED
    BY <1>1
    DEF vars, IInv, TypeOK, RowsFit, NewsIsTrue, SessionsFit, SessionFits,
        CheckoutFits, Settles, Activates, PaidWasReported,
        PaidIffActivated, PlanIsEarned, BillIsPaid

LEMMA NextIInv == IInv /\ [Next]_vars => IInv'
  <1> SUFFICES ASSUME IInv, [Next]_vars PROVE IInv'
    OBVIOUS
  <1>1. CASE UNCHANGED vars
    BY <1>1, StutterStep
  <1>2. CASE Next
    <2>1. ASSUME NEW w \in Threads, NEW o \in Orders, NEW p \in Plans,
                 \/ \E t \in Texts : CheckoutCall(w, o, p, t)
                 \/ MockCheckout(w, o, p)
          PROVE  IInv'
      BY <2>1, CheckoutCallStep, MockCheckoutStep
    <2>2. ASSUME NEW o \in Orders, NEW t \in Texts,
                 \/ ProviderReports(o, t) \/ UnsignedReport(o, t)
                 \/ IpnRead(o, t) \/ IpnIgnored(o, t)
          PROVE  IInv'
      BY <2>2, ProviderReportsStep, UnsignedReportStep, IpnReadStep,
         StutterStep DEF IpnIgnored
    <2>4. ASSUME NEW w \in Threads, NEW o \in Orders,
                 \/ StatusCheckRead(w, o) \/ MockWebhookKnown(w, o)
                 \/ \E s \in Buttons : MockWebhookRead(w, o, s)
          PROVE  IInv'
      BY <2>4, StatusCheckReadStep, MockWebhookReadStep, StutterStep
      DEF MockWebhookKnown
    <2>5. ASSUME NEW w \in Threads, NEW p \in ManualPlans,
                 PlanChangeRead(w, p)
          PROVE  IInv'
      BY <2>5, PlanChangeReadStep
    <2>6. ASSUME NEW w \in Workers, Serve(w) \/ Abort(w)
          PROVE  IInv'
      BY <2>6, CheckoutCommitStep, StatusCheckAnswerStep,
         ReadSubscriptionStep, CommitActivationStep, CommitStatusStep,
         CommitPlanChangeStep, AbortStep DEF Serve
    <2>7. QED
      BY <1>2, <2>1, <2>2, <2>4, <2>5, <2>6 DEF Next
  <1>3. QED
    BY <1>1, <1>2

-----------------------------------------------------------------------------
(* Theorems.                                                               *)

\* The inductive invariant holds in every reachable state.
THEOREM Invariance == Spec => []IInv
  BY InitIInv, NextIInv, PTL DEF Spec

\* Every variable keeps its type, for any orders, plans and threads.
THEOREM TypeCorrect == Spec => []TypeOK
  <1>1. IInv => TypeOK
    BY DEF IInv
  <1>2. QED
    BY <1>1, Invariance, PTL

\* Whatever is recorded as paid was reported as paid, that very order.
THEOREM PaidIsReported == Spec => []PaidWasReported
  <1>1. IInv => PaidWasReported
    BY DEF IInv
  <1>2. QED
    BY <1>1, Invariance, PTL

\* A payment is on record exactly if its plan was activated, under every
\* interleaving of notifications, status checks and crashes.
THEOREM PaymentActivates == Spec => []PaidIffActivated
  <1>1. IInv => PaidIffActivated
    BY DEF IInv
  <1>2. QED
    BY <1>1, Invariance, PTL

\* The plan in force was given, picked or reported as paid for.
THEOREM PlanEarned == Spec => []PlanIsEarned
  <1>1. IInv => PlanIsEarned
    BY DEF IInv
  <1>2. QED
    BY <1>1, Invariance, PTL

\* The subscription is billed by an order of the v2 provider that was paid.
THEOREM BillPaid == Spec => []BillIsPaid
  <1>1. IInv => BillIsPaid
    BY DEF IInv
  <1>2. QED
    BY <1>1, Invariance, PTL

-----------------------------------------------------------------------------
(* What a step may do to the transactions.                                 *)

Inserts(o) ==
    /\ tx[o] = Absent
    /\ ~tx'[o].paid_at
    /\ tx'[o].status = "pending"
    /\ tx'[o].plan_code \in Plans
    /\ tx' = [tx EXCEPT ![o] = tx'[o]]

SettlesRow(w) ==
    /\ Settles(job[w])
    /\ tx' = [tx EXCEPT ![job[w].order] = Settled(tx[job[w].order], job[w])]
    /\ job' = [job EXCEPT ![w] = Idle]
    /\ remote' = remote /\ ipns' = ipns /\ posted' = posted

LEMMA CheckoutCommitInserts ==
    ASSUME IInv, NEW w \in Workers, CheckoutCommit(w)
    PROVE  job[w].order \in Orders /\ Inserts(job[w].order)
  <1> DEFINE row == [status |-> "pending", provider |-> "netopia_v2",
                     plan_code |-> job[w].plan, paid_at |-> FALSE]
  <1>1. /\ job[w].order \in Orders /\ job[w].plan \in Plans
        /\ tx[job[w].order] = Absent
    BY DEF CheckoutCommit, IInv, SessionsFit, CheckoutFits
  <1>2. /\ row.status = "pending" /\ row.plan_code \in Plans /\ ~row.paid_at
    BY <1>1
  <1>3. tx' = [tx EXCEPT ![job[w].order] = row]
    BY DEF CheckoutCommit
  <1> HIDE DEF row
  <1>4. tx'[job[w].order] = row
    BY <1>1, <1>3 DEF IInv, TypeOK
  <1>5. QED
    BY <1>1, <1>2, <1>3, <1>4 DEF Inserts

LEMMA MockCheckoutInserts ==
    ASSUME IInv, NEW w \in Threads, NEW o \in Orders, NEW p \in Plans,
           MockCheckout(w, o, p)
    PROVE  Inserts(o)
  <1> DEFINE row == [status |-> "pending", provider |-> "netopia_mock",
                     plan_code |-> p, paid_at |-> FALSE]
  <1>1. /\ row.status = "pending" /\ row.plan_code \in Plans /\ ~row.paid_at
    OBVIOUS
  <1>2. tx' = [tx EXCEPT ![o] = row] /\ tx[o] = Absent
    BY DEF MockCheckout
  <1> HIDE DEF row
  <1>3. tx'[o] = row
    BY <1>2 DEF IInv, TypeOK
  <1>4. QED
    BY <1>1, <1>2, <1>3 DEF Inserts

LEMMA RowChange ==
    ASSUME IInv, [Next]_vars
    PROVE  \/ tx' = tx
           \/ \E o \in Orders : Inserts(o)
           \/ \E w \in Workers : SettlesRow(w)
  <1>1. ASSUME NEW w \in Workers, CheckoutCommit(w)
        PROVE  \E o \in Orders : Inserts(o)
    BY <1>1, CheckoutCommitInserts
  <1>2. ASSUME NEW w \in Threads, NEW o \in Orders, NEW p \in Plans,
               MockCheckout(w, o, p)
        PROVE  Inserts(o)
    BY <1>2, MockCheckoutInserts
  <1>3. ASSUME NEW w \in Workers, CommitActivation(w) \/ CommitStatus(w)
        PROVE  SettlesRow(w)
    BY <1>3 DEF SettlesRow, CommitActivation, CommitStatus, End, Settles,
                IInv, SessionsFit, SessionFits
  <1>4. CASE UNCHANGED vars
    BY <1>4 DEF vars
  <1>5. CASE Next
    <2>1. CASE \E w \in Threads, o \in Orders, p \in Plans :
                   \/ \E t \in Texts : CheckoutCall(w, o, p, t)
                   \/ MockCheckout(w, o, p)
      BY <2>1, <1>2 DEF CheckoutCall
    <2>2. CASE \E w \in Workers : Serve(w) \/ Abort(w)
      BY <2>2, <1>1, <1>3
      DEF Serve, StatusCheckAnswer, ReadSubscription, CommitPlanChange, Abort
    <2>3. CASE \/ \E o \in Orders, t \in Texts :
                     \/ ProviderReports(o, t) \/ UnsignedReport(o, t)
                     \/ IpnRead(o, t) \/ IpnIgnored(o, t)
               \/ \E w \in Threads, o \in Orders :
                     \/ StatusCheckRead(w, o) \/ MockWebhookKnown(w, o)
                     \/ \E s \in Buttons : MockWebhookRead(w, o, s)
               \/ \E w \in Threads, p \in ManualPlans : PlanChangeRead(w, p)
      BY <2>3 DEF ProviderReports, UnsignedReport, IpnRead, IpnIgnored, vars,
                  StatusCheckRead, MockWebhookRead, MockWebhookKnown,
                  PlanChangeRead
    <2>4. QED
      BY <1>5, <2>1, <2>2, <2>3 DEF Next
  <1>6. QED
    BY <1>4, <1>5

\* The payment date of a transaction is never taken back and its plan never
\* exchanged.
THEOREM PaymentKept == Spec => PaymentIsKept
  <1> DEFINE Kept(o) ==
                 /\ tx[o].paid_at => tx'[o].paid_at
                 /\ tx[o].status # "absent" => tx'[o].plan_code = tx[o].plan_code
  <1>1. ASSUME IInv, [Next]_vars
        PROVE  [\A o \in Orders : Kept(o)]_tx
    <2>1. ASSUME NEW o \in Orders, Inserts(o)
          PROVE  \A q \in Orders : Kept(q)
      BY <1>1, <2>1 DEF Inserts, IInv, TypeOK, Absent
    <2>2. ASSUME NEW w \in Workers, SettlesRow(w)
          PROVE  \A q \in Orders : Kept(q)
      <3>1. KeepsRows
        BY <1>1, <2>2, SettleStep DEF SettlesRow
      <3>2. \A q \in Orders : tx[q].paid_at => tx[q].status # "absent"
        BY <1>1 DEF IInv, RowsFit, Absent
      <3>3. QED
        BY <3>1, <3>2 DEF KeepsRows
    <2>3. QED
      BY <1>1, <2>1, <2>2, RowChange
  <1>2. QED
    BY <1>1, Invariance, PTL DEF Spec, PaymentIsKept

\* A late "pending" answer does not undo a payment that was recorded after
\* its handler had read the transaction as pending.
THEOREM StalePendingHarmless == Spec => StalePendingIsHarmless
  <1> DEFINE Harmless(o) ==
                 tx[o].status = "paid" /\ tx'[o].status = "pending" =>
                     \E w \in Workers : /\ job[w].order = o
                                        /\ job[w].seen.status # "pending"
                                        /\ job'[w] = Idle
  <1>1. ASSUME IInv, [Next]_vars
        PROVE  [\A o \in Orders : Harmless(o)]_tx
    <2>1. ASSUME NEW o \in Orders, Inserts(o)
          PROVE  \A q \in Orders : Harmless(q)
      BY <1>1, <2>1 DEF Inserts, IInv, TypeOK, Absent
    <2>2. ASSUME NEW w \in Workers, SettlesRow(w)
          PROVE  \A q \in Orders : Harmless(q)
      <3> DEFINE o == job[w].order
      <3>1. /\ o \in Orders
            /\ \A q \in Orders \ {o} : tx'[q] = tx[q]
        BY <1>1, <2>2, SettleStep DEF SettlesRow
      <3>2. job[w] \in Job /\ tx[o] \in TxRow
        BY <1>1, <3>1 DEF IInv, TypeOK
      <3>3. tx'[o].status =
                Written(tx[o].status, job[w].seen.status, job[w].report)
        BY <1>1, <2>2, <3>1, <3>2, SettledType DEF SettlesRow, IInv, TypeOK
      <3>4. job'[w] = Idle
        BY <1>1, <2>2 DEF SettlesRow, IInv, TypeOK
      <3>5. Harmless(o)
        BY <3>3, <3>4 DEF Written
      <3>6. QED
        BY <3>1, <3>5
    <2>3. QED
      BY <1>1, <2>1, <2>2, RowChange
  <1>2. QED
    BY <1>1, Invariance, PTL DEF Spec, StalePendingIsHarmless
-----------------------------------------------------------------------------
(* The rows implement the ledger.                                          *)

\* An order enters the database at a plan it had not been offered at.
LEMMA InsertOffers ==
    ASSUME IInv, NEW o \in Orders, Inserts(o),
           Reported' = Reported, sub' = sub
    PROVE  Ledger!Next
  <1>1. /\ tx \in [Orders -> TxRow] /\ tx[o] = Absent
        /\ tx' = [tx EXCEPT ![o] = tx'[o]]
        /\ tx'[o].plan_code \in Plans /\ ~tx'[o].paid_at
    BY DEF IInv, TypeOK, Inserts
  <1>2. tx[o].plan_code = NoPlan /\ ~tx[o].paid_at
    BY <1>1 DEF Absent
  <1>3. \A q \in Orders \ {o} : tx'[q] = tx[q]
    BY <1>1
  <1>4. [q \in Orders |-> tx'[q].plan_code] =
            [[q \in Orders |-> tx[q].plan_code]
                EXCEPT ![o] = tx'[o].plan_code]
    BY <1>3
  <1>5. {q \in Orders : tx'[q].paid_at} = {q \in Orders : tx[q].paid_at}
    BY <1>1, <1>2, <1>3
  <1>6. ASSUME NEW p \in Plans, p = tx'[o].plan_code
        PROVE  Ledger!Offer(o, p)
    BY <1>2, <1>4, <1>5, <1>6 DEF Ledger!Offer
  <1>7. QED
    BY <1>1, <1>6 DEF Ledger!Next

\* News of one order reports it as paid or is nothing to the ledger.
LEMMA NewsReports ==
    ASSUME HearsMore, NEW o \in Orders,
           \A q \in Orders \ {o} : q \in Reported' => q \in Reported,
           tx' = tx, sub' = sub
    PROVE  Ledger!Next \/ UNCHANGED Ledger!ledger
  <1>1. Reported \subseteq Reported' /\ Reported' \subseteq Orders
    BY ReportsStay
  <1>2. CASE o \in Reported'
    <2>1. Reported' = Reported \cup {o}
      BY <1>1, <1>2
    <2>2. Ledger!Report(o)
      BY <2>1 DEF Ledger!Report
    <2>3. QED
      BY <2>2 DEF Ledger!Next
  <1>3. CASE o \notin Reported'
    <2>1. Reported' = Reported
      BY <1>1, <1>3
    <2>2. QED
      BY <2>1 DEF Ledger!ledger
  <1>4. QED
    BY <1>2, <1>3

\* ... if it is a text of that order, or a post about it.
LEMMA NewsOfOne ==
    ASSUME NEW o \in Orders, NEW t, NEW s,
           \/ ipns' = ipns \/ ipns' = ipns \cup {<<o, t>>},
           \/ posted' = posted \/ posted' = posted \cup {<<o, s>>},
           \A q \in Orders \ {o} : remote'[q] = remote[q]
    PROVE  \A q \in Orders \ {o} : q \in Reported' => q \in Reported
  BY DEF Reported

\* The commit of an activation settles an order that was reported.
LEMMA ActivationSettles ==
    ASSUME IInv, NEW w \in Workers, CommitActivation(w)
    PROVE  Ledger!Next
  <1> DEFINE o == job[w].order
  <1>1. /\ o \in Orders /\ tx[o].status # "absent"
        /\ o \in Reported /\ Reported' = Reported
        /\ \A q \in Orders \ {o} : tx'[q] = tx[q]
        /\ tx'[o].paid_at
        /\ KeepsRows
        /\ sub'.plan_code \in {sub.plan_code, tx[o].plan_code}
        /\ sub'.billing_subscription_id \in {sub.billing_subscription_id, o}
    BY CommitActivationEffect
  <1>2. tx[o].plan_code # NoPlan
    BY <1>1, RowTypes DEF IInv, RowsFit
  <1>3. tx'[o].plan_code = tx[o].plan_code
    BY <1>1 DEF KeepsRows
  <1>4. [q \in Orders |-> tx'[q].plan_code] =
            [q \in Orders |-> tx[q].plan_code]
    BY <1>1, <1>3
  <1>5. {q \in Orders : tx'[q].paid_at} =
            {q \in Orders : tx[q].paid_at} \cup {o}
    BY <1>1
  <1>6. ASSUME NEW q \in Orders, q = o
        PROVE  Ledger!Settle(q)
    BY <1>1, <1>2, <1>4, <1>5, <1>6 DEF Ledger!Settle
  <1>7. QED
    BY <1>1, <1>6 DEF Ledger!Next

\* Recording an answer that activates nothing is nothing to the ledger.
LEMMA StatusStutters ==
    ASSUME IInv, NEW w \in Workers, CommitStatus(w)
    PROVE  UNCHANGED Ledger!ledger
  <1> DEFINE o == job[w].order
  <1>1. /\ o \in Orders /\ Reported' = Reported /\ sub' = sub
        /\ \A q \in Orders : tx'[q].paid_at <=> tx[q].paid_at
        /\ KeepsRows
        /\ \A q \in Orders \ {o} : tx'[q] = tx[q]
        /\ tx[o].status # "absent"
    BY CommitStatusEffect
  <1>2. tx'[o].plan_code = tx[o].plan_code
    BY <1>1 DEF KeepsRows
  <1>3. [q \in Orders |-> tx'[q].plan_code] =
            [q \in Orders |-> tx[q].plan_code]
    BY <1>1, <1>2
  <1>4. {q \in Orders : tx'[q].paid_at} = {q \in Orders : tx[q].paid_at}
    BY <1>1
  <1>5. QED
    BY <1>1, <1>3, <1>4 DEF Ledger!ledger

\* The owner's change is a choice, or lost to one committed before it.
LEMMA PlanChangePicks ==
    ASSUME IInv, NEW w \in Workers, CommitPlanChange(w)
    PROVE  Ledger!Next \/ UNCHANGED Ledger!ledger
  <1>1. /\ job[w].kind = "plan_change" /\ sub' = PlanPicked(sub, job[w])
        /\ tx' = tx /\ Reported' = Reported
        /\ sub \in SubRow /\ job[w] \in Job
        /\ job[w].plan \in ManualPlans
    BY SameReports
    DEF CommitPlanChange, IInv, TypeOK, SessionsFit, SessionFits
  <1>2. /\ sub'.plan_code \in {sub.plan_code, job[w].plan}
        /\ sub'.billing_subscription_id = sub.billing_subscription_id
    BY <1>1 DEF PlanPicked, Written, SubRow
  <1>3. CASE sub'.plan_code = job[w].plan
    <2>1. ASSUME NEW p \in ManualPlans, p = job[w].plan
          PROVE  Ledger!Pick(p)
      BY <1>1, <1>2, <1>3, <2>1 DEF Ledger!Pick
    <2>2. QED
      BY <1>1, <2>1 DEF Ledger!Next
  <1>4. CASE sub'.plan_code = sub.plan_code
    BY <1>1, <1>2, <1>4 DEF Ledger!ledger
  <1>5. QED
    BY <1>2, <1>3, <1>4

LEMMA SameLedger ==
    ASSUME tx' = tx, remote' = remote, ipns' = ipns, posted' = posted, sub' = sub
    PROVE  UNCHANGED Ledger!ledger
  BY SameReports DEF Ledger!ledger

LEMMA LedgerInit == Init => Ledger!Init
  BY DEF Init, Ledger!Init, Absent, NewSub, Reported

LEMMA LedgerStep ==
    IInv /\ [Next]_vars => [Ledger!Next]_(Ledger!ledger)
  <1> SUFFICES ASSUME IInv, [Next]_vars
               PROVE  Ledger!Next \/ UNCHANGED Ledger!ledger
    OBVIOUS
  <1>1. ASSUME NEW w \in Threads, NEW o \in Orders, NEW p \in Plans,
               MockCheckout(w, o, p)
        PROVE  Ledger!Next
    BY <1>1, MockCheckoutInserts, InsertOffers, SameReports DEF MockCheckout
  <1>2. ASSUME NEW o \in Orders, NEW w, NEW p, NEW t, NEW s,
               \/ CheckoutCall(w, o, p, t)
               \/ t \in Texts /\ (ProviderReports(o, t)
                                   \/ UnsignedReport(o, t))
               \/ MockWebhookRead(w, o, s)
        PROVE  Ledger!Next \/ UNCHANGED Ledger!ledger
    <2>1. remote \in [Orders -> Texts \cup {Unheard}]
      BY DEF IInv, TypeOK
    <2>2. /\ ipns' = ipns \/ ipns' = ipns \cup {<<o, t>>}
          /\ posted' = posted \/ posted' = posted \cup {<<o, s>>}
          /\ \A q \in Orders \ {o} : remote'[q] = remote[q]
          /\ tx' = tx /\ sub' = sub
      BY <1>2, <2>1
      DEF CheckoutCall, ProviderReports, UnsignedReport, MockWebhookRead
    <2>3. HearsMore
      <3>1. CASE CheckoutCall(w, o, p, t)
        BY <2>1, <2>2, <3>1 DEF HearsMore, CheckoutCall, Unheard
      <3>2. CASE MockWebhookRead(w, o, s)
        BY <2>2, <3>2 DEF HearsMore, MockWebhookRead
      <3>3. QED
        BY <1>2, <3>1, <3>2, ProviderReportsStep, UnsignedReportStep
    <2>4. QED
      BY <2>2, <2>3, NewsOfOne, NewsReports
  <1>3. ASSUME NEW w \in Workers, CheckoutCommit(w)
        PROVE  Ledger!Next
    <2>1. /\ job[w].order \in Orders /\ Inserts(job[w].order)
          /\ Reported' = Reported /\ sub' = sub
      BY <1>3, CheckoutCommitInserts, SameReports DEF CheckoutCommit
    <2>2. ASSUME NEW o \in Orders, o = job[w].order
          PROVE  Inserts(o)
      BY <2>1, <2>2 DEF Inserts
    <2>3. QED
      BY <2>1, <2>2, InsertOffers
  <1>4. ASSUME NEW w \in Workers, Serve(w) \/ Abort(w)
        PROVE  Ledger!Next \/ UNCHANGED Ledger!ledger
    <2>1. CASE StatusCheckAnswer(w) \/ ReadSubscription(w) \/ Abort(w)
      BY <2>1, SameLedger DEF StatusCheckAnswer, ReadSubscription, Abort
    <2>2. QED
      BY <1>3, <1>4, <2>1, ActivationSettles, StatusStutters, PlanChangePicks
      DEF Serve
  <1>5. CASE \/ UNCHANGED vars
             \/ \E o \in Orders, t \in Texts :
                    IpnRead(o, t) \/ IpnIgnored(o, t)
             \/ \E w \in Threads, o \in Orders :
                    StatusCheckRead(w, o) \/ MockWebhookKnown(w, o)
             \/ \E w \in Threads, p \in ManualPlans : PlanChangeRead(w, p)
    BY <1>5, SameLedger DEF vars, IpnRead, IpnIgnored, StatusCheckRead,
                            MockWebhookKnown, PlanChangeRead
  <1>6. QED
    BY <1>1, <1>2, <1>4, <1>5 DEF Next

\* No interleaving of handlers, sessions and notifications changes the plan
\* in force except as the ledger allows: by settling an order that was
\* reported as paid, or by the owner's choice.
THEOREM LedgerImplemented == Spec => ImplementsLedger
  BY LedgerInit, LedgerStep, Invariance, PTL
  DEF Spec, ImplementsLedger, Ledger!Spec
=============================================================================
