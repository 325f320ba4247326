------------------------------ MODULE Invoices ------------------------------
(***************************************************************************)
(* The invoices of one organisation, the synchronisation of their status   *)
(* with ANAF and the alerts it raises: backend/app/services.py,            *)
(* sync_service.py, jobs.py, bulk_actions_service.py and their handlers in *)
(* main.py, with the mock connector (integration.mode = "mock").           *)
(*                                                                         *)
(* A sweep loads all open invoices, works through its copies one by one    *)
(* and commits once at its end; users synchronise, mark and resolve in     *)
(* sessions of their own meanwhile.                                        *)
(***************************************************************************)
EXTENDS InvoiceRules, UnitOfWork, Naturals, FiniteSets

CONSTANTS
    Invoices,        \* invoices that may be imported
    Files,           \* what an imported file may say of an invoice
    Threads,         \* threads of the pool that runs the sync handlers
    Scheduler,       \* the thread of the APScheduler job
    Crashes          \* may a session end before its commit?

VARIABLES
    row,       \* invoices, by invoice
    phase,     \* today, seen from an invoice's due_submission_date
    open,      \* alerts with status "open", by invoice and alert_type
    raised,    \* alert types that an invoice has a row of, open or resolved
    job        \* per thread, the session of the request it is serving

vars == <<row, phase, open, raised, job>>

-----------------------------------------------------------------------------
(* Rows.                                                                   *)

Workers == Threads \cup {Scheduler}
Messages == {"none", "imported", "processing", "refused"}

\* A line of an imported file, and what makes the connector's verdict on it.
FileRow == [anaf: AnafStatuses, message: {"none", "imported"},
            verdict: Verdicts]

\* verdict: what the mock connector derives from the number, the customer
\* and the amount of the invoice, none of which ever changes.
InvoiceRow == [internal: InternalStatuses, anaf: AnafStatuses,
               message: Messages, verdict: Verdicts]
NoRow == [internal |-> "none", anaf |-> "none", message |-> "none",
          verdict |-> "none"]

ASSUME SchedulerAssumption == Scheduler \notin Threads
ASSUME SessionsAreFinite == IsFiniteSet(Threads)
ASSUME FilesAssumption == Files \subseteq FileRow
ASSUME CrashesAssumption == Crashes \in BOOLEAN

Imported == {i \in Invoices : row[i] # NoRow}

\* MockAnafClient.fetch_invoice_status: a rejection stays one.
Answer(r) ==
    IF r.anaf = "rejected"
    THEN [status |-> "rejected",
          message |-> IF r.message = "none" THEN "refused" ELSE r.message]
    ELSE [status |-> r.verdict,
          message |-> [validated |-> "none", pending |-> "processing",
                       rejected |-> "refused"][r.verdict]]

\* sync_invoice_status, on the session's copy of the row.
Synced(r, when) ==
    [r EXCEPT !.anaf = Answer(r).status,
              !.message = Answer(r).message,
              !.internal = InternalStatus(Answer(r).status, when)]

\* mark_unsent and mark_pending of the bulk actions.
Marked(r, status) == [r EXCEPT !.internal = status, !.anaf = "pending"]

\* What the commit of a session leaves in a row.
Merged(r, loaded, new) ==
    [r EXCEPT !.internal = Written(r.internal, loaded.internal, new.internal),
              !.anaf = Written(r.anaf, loaded.anaf, new.anaf),
              !.message = Written(r.message, loaded.message, new.message)]

-----------------------------------------------------------------------------
(* Sessions.                                                               *)

\* todo: invoices still to be worked on; seen: rows as loaded; image: the
\* session's copies; alerts: what it has added.
Nothing == [i \in Invoices |-> NoRow]
Idle == [kind |-> "idle", todo |-> {}, seen |-> Nothing, image |-> Nothing,
         alerts |-> {}]
Job == [kind: {"idle", "sync", "mark"},
        todo: SUBSET Invoices,
        seen: [Invoices -> InvoiceRow \cup {NoRow}],
        image: [Invoices -> InvoiceRow \cup {NoRow}],
        alerts: SUBSET (Invoices \X AlertTypes)]

Loaded(ids) == [i \in Invoices |-> IF i \in ids THEN row[i] ELSE NoRow]

Begin(w, request) ==
    /\ job[w] = Idle
    /\ job' = [job EXCEPT ![w] = request]

Init ==
    /\ row = [i \in Invoices |-> NoRow]
    /\ phase = [i \in Invoices |-> "early"]
    /\ open = [i \in Invoices |-> [t \in AlertTypes |-> 0]]
    /\ raised = [i \in Invoices |-> {}]
    /\ job = [w \in Workers |-> Idle]

-----------------------------------------------------------------------------
(* Days pass, invoices arrive, alerts are resolved.                        *)

DayPasses(i) ==
    /\ phase[i] # "late"
    /\ phase' = [phase EXCEPT ![i] = IF @ = "early" THEN "near" ELSE "late"]
    /\ UNCHANGED <<row, open, raised, job>>

\* upload_invoices and public_api_create_invoice: the invoice and its first
\* alert are committed together; nobody else can know of it before.
Import(i, file) ==
    LET r == [internal |-> InternalStatus(file.anaf, phase[i]),
              anaf |-> file.anaf, message |-> file.message,
              verdict |-> file.verdict] IN
    /\ row[i] = NoRow
    /\ row' = [row EXCEPT ![i] = r]
    /\ open' = [open EXCEPT ![i] =
                   [t \in AlertTypes |-> IF t \in AlertsFor(r) THEN 1 ELSE 0]]
    /\ raised' = [raised EXCEPT ![i] = AlertsFor(r)]
    /\ UNCHANGED <<phase, job>>

\* resolve_alert: one alert by its id.
ResolveAlert(i, t) ==
    /\ open[i][t] > 0
    /\ open' = [open EXCEPT ![i][t] = @ - 1]
    /\ UNCHANGED <<row, phase, raised, job>>

\* resolve_related_alerts of the bulk actions.
ResolveRelated(ids) ==
    /\ open' = [i \in Invoices |-> IF i \in ids THEN [t \in AlertTypes |-> 0]
                                                ELSE open[i]]
    /\ UNCHANGED <<row, phase, raised, job>>

-----------------------------------------------------------------------------
(* Synchronisation and marks.                                              *)

\* A defect: a sweep that asks only for the invoices that wait for ANAF.
BadSweepBeginPending(w) ==
    LET ids == {i \in Imported : row[i].internal \in {"pending", "overdue"}} IN
    /\ Begin(w, [Idle EXCEPT !.kind = "sync", !.todo = ids,
                             !.seen = Loaded(ids), !.image = Loaded(ids)])
    /\ UNCHANGED <<row, phase, open, raised>>

\* run_status_check, by the scheduler or by POST /jobs/run-status-check, and
\* sync_all_invoice_statuses: every invoice that is not validated.
SweepBegin(w) ==
    LET ids == {i \in Imported : row[i].internal # "validated"} IN
    /\ Begin(w, [Idle EXCEPT !.kind = "sync", !.todo = ids,
                             !.seen = Loaded(ids), !.image = Loaded(ids)])
    /\ UNCHANGED <<row, phase, open, raised>>

\* sync_single_invoice_status, the bulk action sync_status, and
\* sync_all_invoice_statuses with only_open = False.
SyncBegin(w, ids) ==
    /\ ids # {} /\ ids \subseteq Imported
    /\ Begin(w, [Idle EXCEPT !.kind = "sync", !.todo = ids,
                             !.seen = Loaded(ids), !.image = Loaded(ids)])
    /\ UNCHANGED <<row, phase, open, raised>>

\* Defects: the alert is added unasked; any open alert of the invoice stands
\* for it; an alert that was resolved stands for it.
BadMissingUnasked(i, r) == AlertsFor(r)
BadMissingAnyType(i, r) ==
    {t \in AlertsFor(r) : \A other \in AlertTypes : open[i][other] = 0}
BadMissingResolved(i, r) == AlertsFor(r) \ raised[i]

\* create_alert_for_invoice: the alert of a row, unless one of that type is
\* open.
Missing(i, r) == {t \in AlertsFor(r) : open[i][t] = 0}

\* One turn of the loop: the status of the invoice, and its alert unless one
\* of that type is open.
SyncOne(w, i) ==
    LET new == Synced(job[w].seen[i], phase[i]) IN
    /\ i \in job[w].todo
    /\ job' = [job EXCEPT ![w].todo = @ \ {i},
                          ![w].image[i] = new,
                          ![w].alerts = @ \cup ({i} \X Missing(i, new))]
    /\ UNCHANGED <<row, phase, open, raised>>

\* mark_unsent and mark_pending: no alert is raised or resolved.
MarkBegin(w, ids, status) ==
    /\ ids # {} /\ ids \subseteq Imported
    /\ Begin(w, [Idle EXCEPT
           !.kind = "mark", !.seen = Loaded(ids),
           !.image = [i \in Invoices |-> IF i \in ids
                                         THEN Marked(row[i], status)
                                         ELSE NoRow]])
    /\ UNCHANGED <<row, phase, open, raised>>

\* The commit at the end of a handler or of the scheduler's job.
Commit(w) ==
    LET j == job[w] IN
    /\ j # Idle
    /\ j.todo = {}
    /\ row' = [i \in Invoices |-> Merged(row[i], j.seen[i], j.image[i])]
    /\ open' = [i \in Invoices |-> [t \in AlertTypes |->
                   open[i][t] + IF <<i, t>> \in j.alerts THEN 1 ELSE 0]]
    /\ raised' = [i \in Invoices |->
                     raised[i] \cup {t \in AlertTypes : <<i, t>> \in j.alerts}]
    /\ job' = [job EXCEPT ![w] = Idle]
    /\ UNCHANGED phase

\* An exception, a deadlock that the database breaks, a restart: the session
\* is closed, and with it everything the sweep has done so far.
Abort(w) ==
    /\ Crashes
    /\ job[w] # Idle
    /\ job' = [job EXCEPT ![w] = Idle]
    /\ UNCHANGED <<row, phase, open, raised>>

-----------------------------------------------------------------------------

Work(w) == Commit(w) \/ \E i \in Invoices : SyncOne(w, i)

UserMarks ==
    \E w \in Threads, ids \in SUBSET Invoices, s \in {"unsent", "pending"} :
        MarkBegin(w, ids, s)

Next ==
    \/ \E i \in Invoices : DayPasses(i)
    \/ \E i \in Invoices, file \in Files : Import(i, file)
    \/ \E i \in Invoices, t \in AlertTypes : ResolveAlert(i, t)
    \/ \E ids \in SUBSET Invoices : ResolveRelated(ids)
    \/ \E w \in Workers : SweepBegin(w)
    \/ \E w \in Threads, ids \in SUBSET Invoices : SyncBegin(w, ids)
    \/ UserMarks
    \/ \E w \in Workers : Work(w) \/ Abort(w)

Spec == Init /\ [][Next]_vars

\* Threads are scheduled, and the job comes back after every interval.
FairSpec ==
    /\ Spec
    /\ \A w \in Workers : WF_vars(Work(w))
    /\ WF_vars(SweepBegin(Scheduler))

-----------------------------------------------------------------------------
(* Properties.                                                             *)

\* The columns hold what the code may write into them.
TypeOK ==
    /\ row \in [Invoices -> InvoiceRow \cup {NoRow}]
    /\ phase \in [Invoices -> Phases]
    /\ open \in [Invoices -> [AlertTypes -> Nat]]
    /\ raised \in [Invoices -> SUBSET AlertTypes]
    /\ job \in [Workers -> Job]

\* An invoice that shows a problem has had the alert of that problem, though
\* the status and the alert may come from different sessions: each of them
\* writes internal_status only if it differs from the copy it loaded, and
\* adds an alert only if it saw none open (create_alert_for_invoice).
ProblemIsRaised ==
    \A i \in Imported :
        row[i].internal \in Problems =>
            ProblemAlert[row[i].internal] \in raised[i]

\* create_alert_for_invoice looks for an open alert and then inserts, and no
\* unique index forbids a second one; but there are never more open alerts of
\* one type for one invoice than there are sessions at once.
DuplicatesAreFew ==
    \A i \in Invoices, t \in AlertTypes :
        LET adding == {w \in Workers : <<i, t>> \in job[w].alerts} IN
        open[i][t] + Cardinality(adding) <= Cardinality(Workers)

\* A user's mark takes back what ANAF decided, and nothing else does: a sweep
\* that loaded an invoice before it was marked and decided anew does not put
\* an earlier status over ANAF's verdict.
VerdictIsKept ==
    [][\A i \in Imported :
          /\ row[i].internal = row[i].verdict
          /\ row[i].internal \in {"validated", "rejected"}
          /\ row'[i].internal # row[i].internal
          => \E w \in Workers : /\ job[w].kind = "mark"
                                /\ job[w].image[i] # NoRow
                                /\ job'[w] = Idle]_vars

\* Statuses may be out of date, and internal_status and anaf_status of a row
\* may come from different sessions.  Once users stop marking invoices, the
\* scheduler's sweeps make each internal_status what compute_internal_status
\* gives for its anaf_status today.  Validated ones no sweep looks at again:
\* such a row may keep another anaf_status for good.
StatusesConverge ==
    <>[][~UserMarks]_vars =>
        <>[](\A i \in Imported :
                row[i].internal \in
                    {"validated", InternalStatus(row[i].anaf, phase[i])})

\* Resolving the alert of a problem that is still there silences it only until
\* a sweep finds no open one.
ProblemIsReminded ==
    \A i \in Invoices : \A s \in Problems :
        row[i].internal = s /\ open[i][ProblemAlert[s]] = 0
            ~> row[i].internal # s \/ open[i][ProblemAlert[s]] > 0

-----------------------------------------------------------------------------
(* The inductive invariant of the proofs.                                  *)

\* A rejection that the connector would not give comes from the imported file;
\* internal_status says the same until the invoice is marked.
RejectionShows(r) ==
    r.anaf = "rejected" /\ r.verdict # "rejected" => r.internal = "rejected"

RowsFit ==
    \A i \in Invoices :
        /\ RejectionShows(row[i])
        /\ \A t \in AlertTypes : open[i][t] > 0 => t \in raised[i]

\* The alert of a copy is there, or will be by the same commit.
AlertComes(j, i, t) == t \in raised[i] \/ <<i, t>> \in j.alerts

\* What a session has made of the copy of an invoice it loaded: nothing yet, a
\* mark, or a synchronisation.
CopyFits(j, i) ==
    LET seen == j.seen[i]
        new == j.image[i] IN
    \/ new.internal = seen.internal /\ new.anaf = seen.anaf
    \/ j.kind = "mark" /\ new.internal \in {"unsent", "pending"} /\ new.anaf = "pending"
    \/ /\ j.kind = "sync"
       /\ new.anaf = Answer(seen).status
       /\ \E when \in Phases : new.internal = InternalStatus(new.anaf, when)
       /\ new.internal \in Problems => AlertComes(j, i, ProblemAlert[new.internal])

\* A session knows rows that are there; a rejection that it did not see is one
\* that the connector gives.
SessionFits(j) ==
    \A i \in Invoices :
        /\ j.seen[i] = NoRow =>
              /\ j.image[i] = NoRow /\ i \notin j.todo
              /\ \A t \in AlertTypes : <<i, t>> \notin j.alerts
        /\ j.seen[i] # NoRow =>
              /\ row[i] # NoRow /\ row[i].verdict = j.seen[i].verdict
              /\ j.image[i] # NoRow /\ RejectionShows(j.seen[i])
              /\ i \in j.todo => j.kind = "sync"
              /\ row[i].anaf = "rejected" /\ row[i].verdict # "rejected" =>
                     j.seen[i].anaf = "rejected"
              /\ CopyFits(j, i)

IInv ==
    /\ TypeOK
    /\ RowsFit
    /\ ProblemIsRaised
    /\ DuplicatesAreFew
    /\ \A w \in Workers : SessionFits(job[w])
=============================================================================
