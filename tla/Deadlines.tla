------------------------------ MODULE Deadlines ------------------------------
(***************************************************************************)
(* The days of one invoice: add_business_days and compute_internal_status  *)
(* of backend/app/services.py under the calendar, and the synchronisation  *)
(* that shows their result.  Days are numbered from a Monday, day 0.       *)
(***************************************************************************)
EXTENDS InvoiceRules, Integers, FiniteSets

CONSTANTS
    Horizon,     \* the last day looked at
    MaxGap,      \* days from one synchronisation to the next at most
    Thresholds   \* values asked for near_deadline_days

ASSUME CalendarAssumption ==
    /\ Horizon \in Nat /\ MaxGap \in Nat \ {0}
    /\ Thresholds \subseteq Int

VARIABLES
    issued,      \* issue_date
    today,
    anaf,        \* anaf_status
    shown,       \* internal_status, "none" before the import
    synced,      \* the day of the last synchronisation
    threshold    \* near_deadline_days of the organisation

deadlinesVars == <<issued, today, anaf, shown, synced, threshold>>

-----------------------------------------------------------------------------

\* date.weekday() < 5.
IsWorkday(day) == day % 7 < 5

\* A defect: a weekend that is counted while it is skipped.
BadAddBusinessDays(start, days) ==
    LET after[left \in 0..days] ==
            IF left = 0 THEN start
            ELSE LET d == after[left - 1] IN
                 IF IsWorkday(d + 1) THEN d + 1 ELSE d + 2
    IN after[days]

\* add_business_days: one day at a time, of which only workdays count.
AddBusinessDays(start, days) ==
    LET walk[day \in Nat] ==
            [left \in Nat |->
                IF left = 0 THEN day
                ELSE walk[day + 1][IF IsWorkday(day + 1) THEN left - 1 ELSE left]]
    IN walk[start][days]

DueDate(start) == AddBusinessDays(start, 5)

\* A defect: the day of the deadline counts as late, and of the two days
\* before it only one as near.
BadPhaseOn(start, day) ==
    CASE day >= DueDate(start) -> "late"
      [] day < DueDate(start) /\ DueDate(start) - day <= 1 -> "near"
      [] OTHER -> "early"

\* The comparisons of compute_internal_status.
PhaseOn(start, day) ==
    CASE day > DueDate(start) -> "late"
      [] day <= DueDate(start) /\ DueDate(start) - day <= 2 -> "near"
      [] OTHER -> "early"

DeadlinesInit ==
    /\ issued = 0 /\ today = 0 /\ synced = 0
    /\ anaf = "unsent" /\ shown = "none"
    /\ threshold = 2

\* The invoice is imported unsent, on the day of its issue or later
\* (bound: it was issued in the first week).
ImportOn(start) ==
    /\ shown = "none"
    /\ start \in 0..6 /\ start <= today
    /\ issued' = start
    /\ shown' = InternalStatus(anaf, PhaseOn(start, today))
    /\ synced' = today
    /\ UNCHANGED <<today, anaf, threshold>>

\* The scheduler's job comes at least every MaxGap days.
NextDay ==
    /\ today < Horizon
    /\ shown = "none" \/ today - synced < MaxGap
    /\ today' = today + 1
    /\ UNCHANGED <<issued, anaf, shown, synced, threshold>>

\* sync_invoice_status: what the connector says, and what is made of it.
Sync(said) ==
    /\ shown # "none"
    /\ anaf' = said
    /\ shown' = InternalStatus(said, PhaseOn(issued, today))
    /\ synced' = today
    /\ UNCHANGED <<issued, today, threshold>>

\* update_notification_settings: from one day to two weeks.
Clamped(days) == CASE days < 1 -> 1 [] days > 14 -> 14 [] OTHER -> days

SetThreshold(days) ==
    /\ threshold' = Clamped(days)
    /\ UNCHANGED <<issued, today, anaf, shown, synced>>

DeadlinesNext ==
    \/ NextDay
    \/ \E start \in 0..6 : ImportOn(start)
    \/ \E said \in AnafStatuses : Sync(said)
    \/ \E days \in Thresholds : SetThreshold(days)

DeadlinesSpec == DeadlinesInit /\ [][DeadlinesNext]_deadlinesVars

-----------------------------------------------------------------------------
(* Properties.                                                             *)

\* The deadline is the fifth workday after the issue date, whichever day of
\* the week that was, and no later day (add_business_days).
DeadlineIsFifthWorkday ==
    LET due == DueDate(issued) IN
    /\ IsWorkday(due)
    /\ Cardinality({d \in (issued + 1)..due : IsWorkday(d)}) = 5

\* An invoice that stays unsent is shown near its deadline before it is shown
\* late, as long as no more than MaxGap days pass between synchronisations:
\* the window of compute_internal_status is three days long, weekends too.
WarnedBeforeLate ==
    [][shown = "unsent" /\ anaf' = "unsent" => shown' # "overdue"]_deadlinesVars


-----------------------------------------------------------------------------
(* The inductive invariant of the proofs.                                  *)

\* What is shown as unsent was so on the day of the synchronisation, with three
\* days or more to go.
DeadlinesInv ==
    /\ issued \in 0..6 /\ today \in Nat /\ synced \in Nat /\ synced <= today
    /\ anaf \in AnafStatuses
    /\ shown # "none" => today - synced <= MaxGap
    /\ shown = "unsent" => DueDate(issued) - synced > 2
=============================================================================
