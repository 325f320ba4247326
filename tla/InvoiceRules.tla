---------------------------- MODULE InvoiceRules ----------------------------
(***************************************************************************)
(* What an invoice shows and which alert it calls for                      *)
(* (backend/app/services.py): compute_internal_status and                  *)
(* build_alert_for_invoice, used by every import, synchronisation, status  *)
(* check and parsed response.                                              *)
(***************************************************************************)

Verdicts == {"validated", "pending", "rejected"}
\* "other": a status that compute_internal_status does not know, such as the
\* "uploaded" of an upload to ANAF.
AnafStatuses == Verdicts \cup {"sent", "unsent", "other"}
InternalStatuses == Verdicts \cup {"unsent", "near_deadline", "overdue"}
AlertTypes == {"invoice_rejected", "invoice_overdue", "invoice_near_deadline",
               "invoice_unsent", "anaf_message"}

\* Today, seen from the deadline of an invoice: "near" is two days before it
\* or less, "late" the day after it (Deadlines counts the days).
Phases == {"early", "near", "late"}

\* compute_internal_status.
InternalStatus(anaf, when) ==
    CASE anaf \in {"validated", "rejected"} -> anaf
      [] anaf = "unsent" -> [early |-> "unsent", near |-> "near_deadline",
                             late |-> "overdue"][when]
      [] anaf \in {"sent", "pending"} /\ when = "late" -> "overdue"
      [] OTHER -> "pending"

\* build_alert_for_invoice: the type of alert a row calls for, if any.
AlertsFor(r) ==
    CASE r.internal = "validated" -> {}
      [] r.internal = "rejected" -> {"invoice_rejected"}
      [] r.internal = "overdue" -> {"invoice_overdue"}
      [] r.internal = "near_deadline" -> {"invoice_near_deadline"}
      [] r.internal = "unsent" -> {"invoice_unsent"}
      [] OTHER -> IF r.message = "none" THEN {} ELSE {"anaf_message"}

\* The internal statuses that are problems, with their alerts.  "unsent" is
\* not one of them: mark_unsent gives that status and raises no alert.
ProblemAlert == [rejected |-> "invoice_rejected",
                 overdue |-> "invoice_overdue",
                 near_deadline |-> "invoice_near_deadline"]
Problems == DOMAIN ProblemAlert
=============================================================================
