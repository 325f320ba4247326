-------------------------- MODULE MCAnafSubmission --------------------------
(***************************************************************************)
(* AnafSubmission on small instances.                                      *)
(***************************************************************************)
EXTENDS AnafSubmission, TLC

CONSTANTS u1, u2, w1, w2, sched

\* What ANAF says: that it is at work, a validation, and three refusals: "nok";
\* "XML cu erori nepreluat de sistem", with a word that validates; and one
\* whose archive ends in an element that validates.
Text(means, markers, last) == [means |-> means, markers |-> markers, last |-> last]
Waiting == Text("pending", {"in prelucrare"}, {"in prelucrare"})
Validated == Text("validated", {"ok"}, {"ok"})
Refused == Text("rejected", {"nok", "ok"}, {"nok", "ok"})
NotTaken == Text("rejected", {"preluat"}, {"preluat"})
EndsWell == Text("rejected", {"eroare", "preluat"}, {"preluat"})
AllReplies == {Waiting, Validated, Refused, NotTaken, EndsWell}
PlainReplies == {Waiting, Validated, Refused}

Symmetry == Permutations(Threads) \cup Permutations(Uploads)
=============================================================================
