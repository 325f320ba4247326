------------------------- MODULE SubscriptionLedger -------------------------
(***************************************************************************)
(* What the payments of an organisation promise to its subscription, with  *)
(* no handlers, sessions or notifications: an order is offered at a plan,  *)
(* it is reported as paid, and settling it is the only way, beside the     *)
(* owner's own choice, in which the plan in force can change.              *)
(***************************************************************************)
CONSTANTS Orders, Plans, NoPlan, DefaultPlan, ManualPlans, NoOrder

VARIABLES
    offer,       \* the plan an order is for, NoPlan before it is recorded
    reported,    \* orders that were reported as paid
    settled,     \* orders recorded as paid
    plan,        \* the plan in force
    bill         \* the order the subscription is billed by

ledger == <<offer, reported, settled, plan, bill>>

Init ==
    /\ offer = [o \in Orders |-> NoPlan]
    /\ reported = {}
    /\ settled = {}
    /\ plan = DefaultPlan
    /\ bill = NoOrder

\* A plan is offered once and never exchanged.
Offer(o, p) ==
    /\ offer[o] = NoPlan
    /\ offer' = [offer EXCEPT ![o] = p]
    /\ UNCHANGED <<reported, settled, plan, bill>>

\* An order may be reported as paid before it is recorded here.
Report(o) ==
    /\ reported' = reported \cup {o}
    /\ UNCHANGED <<offer, settled, plan, bill>>

\* Settling an order activates its plan, unless another change of the plan
\* that was made at the same time prevails.  An order may be settled again.
Settle(o) ==
    /\ offer[o] # NoPlan
    /\ o \in reported
    /\ settled' = settled \cup {o}
    /\ plan' \in {plan, offer[o]}
    /\ bill' \in {bill, o}
    /\ UNCHANGED <<offer, reported>>

Pick(p) ==
    /\ plan' = p
    /\ UNCHANGED <<offer, reported, settled, bill>>

Next ==
    \/ \E o \in Orders, p \in Plans : Offer(o, p)
    \/ \E o \in Orders : Report(o) \/ Settle(o)
    \/ \E p \in ManualPlans : Pick(p)

Spec == Init /\ [][Next]_ledger
=============================================================================
