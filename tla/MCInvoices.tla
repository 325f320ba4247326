----------------------------- MODULE MCInvoices -----------------------------
(***************************************************************************)
(* Invoices on small instances.                                            *)
(***************************************************************************)
EXTENDS Invoices, TLC

CONSTANTS i1, i2, w1, w2, sched

\* Every line that a file may have; the lines that sessions disagree most
\* about: a rejection that only a mark lifts, and a status nobody knows.
AnyFile == FileRow
FewFiles == {
    [anaf |-> "rejected", message |-> "none", verdict |-> "validated"],
    [anaf |-> "other", message |-> "none", verdict |-> "rejected"]}

ThreadSymmetry == Permutations(Threads)
=============================================================================
