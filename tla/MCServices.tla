----------------------------- MODULE MCServices -----------------------------
(***************************************************************************)
(* The small services on small instances.  They share no state, so a       *)
(* behaviour moves only one of them, the part: the states are the sum of   *)
(* theirs and not the product.                                             *)
(***************************************************************************)
EXTENDS AnafAnswers, Credentials, Deadlines, Digest, Quotas, RateLimit,
        SavedViews, TLC

CONSTANTS v1, v2, v3, c1, c2, r1, k1, s1, s2, t1, t2, t3,
    p1, p2, p3, w1, w2

TwoPlans == {"one", "starter"}
FewOrganizations == [one |-> 1, starter |-> 2]
FewInvoices == [one |-> 1, starter |-> 3]
FewDocuments == [one |-> 1, starter |-> 2]

VARIABLE part

Rests(name, vs) == part # name => UNCHANGED vs

Init ==
    /\ part \in {"answers", "credentials", "deadlines", "digest", "quotas",
                 "rate", "views"}
    /\ AnswersInit /\ CredentialsInit /\ DeadlinesInit
    /\ DigestInit /\ QuotasInit /\ RateInit /\ ViewsInit

Next ==
    /\ UNCHANGED part
    /\ \/ part = "answers" /\ AnswersNext
       \/ part = "credentials" /\ CredentialsNext
       \/ part = "deadlines" /\ DeadlinesNext
       \/ part = "digest" /\ DigestNext
       \/ part = "quotas" /\ QuotasNext
       \/ part = "rate" /\ RateNext
       \/ part = "views" /\ ViewsNext
    /\ Rests("answers", answersVars)
    /\ Rests("credentials", credentialsVars)
    /\ Rests("deadlines", deadlinesVars)
    /\ Rests("digest", digestVars)
    /\ Rests("quotas", quotasVars)
    /\ Rests("rate", rateVars)
    /\ Rests("views", viewsVars)

Spec ==
    Init /\ [][Next]_<<part, answersVars, credentialsVars, deadlinesVars,
                       digestVars, quotasVars, rateVars, viewsVars>>

Symmetry ==
    Permutations(Clients) \cup Permutations(SettingsThreads)
=============================================================================
