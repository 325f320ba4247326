----------------------------- MODULE MCPayments -----------------------------
(***************************************************************************)
(* Payments on small instances.                                            *)
(***************************************************************************)
EXTENDS Payments, TLC

CONSTANTS o1, o2, w1, w2, loop, none, no_plan

TwoPlans == {"one", "pro"}
OrderSymmetry == Permutations(Orders)
ThreadSymmetry == Permutations(Threads)

\* Texts that mean what they are read as, and some that do not.
Opened == [means |-> "open", markers |-> {}]
Confirmed == [means |-> "paid", markers |-> {"paid", "confirmed"}]
Cancelled == [means |-> "cancelled", markers |-> {"cancel", "cancelled", "fail"}]
Unpaid == [means |-> "failed", markers |-> {"paid", "declined"}]
Code13 == [means |-> "failed", markers |-> {"3"}]
Code5 == [means |-> "paid", markers |-> {}]

PaidTexts == {Opened, Confirmed}
AllTexts == {Opened, Confirmed, Cancelled}
MixedTexts == {Opened, Unpaid}
MisreadTexts == {Opened, Code13, Code5}
=============================================================================
