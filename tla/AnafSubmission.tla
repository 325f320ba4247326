--------------------------- MODULE AnafSubmission ---------------------------
(***************************************************************************)
(* The submission of one invoice to ANAF: backend/app/                      *)
(* anaf_upload_service.py, anaf_status_service.py and                       *)
(* anaf_response_parser.py, with the scheduler's sweeps and the users'      *)
(* marks over the same row, the connector in real mode.                     *)
(*                                                                          *)
(* ANAF is called between the read of the invoice and the commit of what    *)
(* it answered: up to a minute in which the row may move on.  What ANAF     *)
(* says of an upload is a text, which the code reads by the markers in it;  *)
(* an answer to stareMesaj states a status, so that the order of its        *)
(* elements does not matter (AnafAnswers).  A user who names a message or a *)
(* document names one of this invoice.                                      *)
(***************************************************************************)
EXTENDS AnafWords, InvoiceRules, UnitOfWork, FiniteSets

CONSTANTS
    Uploads,       \* ids that ANAF may give to an upload
    NoUpload,      \* no id
    Replies,       \* what ANAF may say of an upload
    Threads,       \* threads of the pool that runs the handlers
    Scheduler,     \* the thread of the APScheduler job
    Watched,       \* bound: alert types looked at (each is raised by itself)
    Crashes        \* may a session end before its commit?

VARIABLES
    row,        \* the invoice
    said,       \* what ANAF has said so far of an upload (external)
    phase,      \* today, seen from due_submission_date
    open,       \* alert types of which the invoice has an open alert
    raised,     \* alert types of which it has an alert, open or resolved
    job         \* per thread, the session of the request it is serving

vars == <<row, said, phase, open, raised, job>>

-----------------------------------------------------------------------------
(* The row and the sessions.                                               *)

Workers == Threads \cup {Scheduler}
UploadIds == Uploads \cup {NoUpload}

\* upload: anaf_upload_id; message: there is an anaf_message, and every status
\* that is written brings another.  anaf_download_id and
\* anaf_response_document_id only say which response a request takes if it
\* names none; here it may take any.
InvoiceRow == [anaf: AnafStatuses, internal: InternalStatuses,
               message: {"some"}, upload: UploadIds]

\* A reply: what ANAF means, the markers in its text, and those in the element
\* by which an archive is read: the last one that says anything.
Reply == [means: Verdicts, markers: SUBSET AnafMarkers, last: SUBSET AnafMarkers]

ASSUME RepliesAssumption ==
    Replies \subseteq Reply /\ \A t \in Replies : t.last \subseteq t.markers
ASSUME SessionsAreFinite == IsFiniteSet(Threads)
ASSUME WatchedAssumption == Watched \subseteq AlertTypes
ASSUME NoUploadAssumption == NoUpload \notin Uploads
ASSUME CrashesAssumption == Crashes \in BOOLEAN

Issued == {u \in Uploads : said[u] # {}}
Decisions(u) == {t \in said[u] : t.means # "pending"}
\* What ANAF says now of an upload.
Latest(u) == IF Decisions(u) = {} THEN said[u] ELSE Decisions(u)

\* The invoice as imported, and no invoice loaded.
Imported == [anaf |-> "unsent", internal |-> "unsent", message |-> "some",
             upload |-> NoUpload]

\* seen, image: the row as loaded and the session's copy; alerts: those it
\* adds.
Idle == [kind |-> "idle", step |-> "idle", seen |-> Imported,
         image |-> Imported, alerts |-> {}]
Job == [kind: {"idle", "upload", "check", "parse", "sync", "mark"},
        step: {"idle", "calling", "loaded", "ready"},
        seen: InvoiceRow, image: InvoiceRow, alerts: SUBSET Watched]

\* A request that has loaded the invoice.
Request(kind, step, image) ==
    [Idle EXCEPT !.kind = kind, !.step = step, !.seen = row, !.image = image]

Begin(w, request) ==
    /\ job[w] = Idle
    /\ job' = [job EXCEPT ![w] = request]
    /\ UNCHANGED <<row, said, phase, open, raised>>

Init ==
    /\ row = Imported
    /\ said = [u \in Uploads |-> {}]
    /\ phase = "early"
    /\ open = AlertsFor(Imported) \cap Watched
    /\ raised = AlertsFor(Imported) \cap Watched
    /\ job = [w \in Workers |-> Idle]

\* create_alert_for_invoice: the alert of a copy, unless one is open.
Missing(r) == (AlertsFor(r) \cap Watched) \ open

\* The session has done its work on its copy and added these alerts.
Worked(w, image, alerts) ==
    /\ job' = [job EXCEPT ![w].step = "ready", ![w].image = image,
                          ![w].alerts = alerts]
    /\ UNCHANGED <<row, phase, open, raised>>

\* A defect: the internal status of a validation is not computed anew.
BadWithStatusKeepsInternal(r, status) ==
    [r EXCEPT !.anaf = status, !.internal =
        IF status = "validated" THEN @ ELSE InternalStatus(status, phase)]

\* A status with a message, and what follows from it.
WithStatus(r, status) ==
    [r EXCEPT !.anaf = status, !.internal = InternalStatus(status, phase)]

\* A defect: a rejection by ANAF raises no alert here, for a sweep may do it.
BadAlerting(r) ==
    IF r.internal \in (Problems \ {"rejected"}) \cup {"unsent"}
    THEN Missing(r) ELSE {}

\* A status that ANAF gave: an alert only if it is one of a problem, or of an
\* invoice that was not sent.
Alerting(r) ==
    IF r.internal \in Problems \cup {"unsent"} THEN Missing(r) ELSE {}

-----------------------------------------------------------------------------
(* Upload.                                                                 *)

\* upload_invoice_xml_to_anaf, with a token at hand; nothing asks whether the
\* invoice was uploaded before.
UploadBegin(w) == Begin(w, Request("upload", "calling", row))

\* A defect: an upload whose id cannot be read takes the earlier id back.
BadUploaded(r, id) ==
    [r EXCEPT !.upload = id, !.internal = "pending",
              !.anaf = IF id = NoUpload THEN "pending" ELSE "other"]

\* What is made of the answer; "other" is the status "uploaded".
Uploaded(r, id) ==
    [r EXCEPT !.upload = IF id = NoUpload THEN @ ELSE id,
              !.internal = "pending",
              !.anaf = IF id = NoUpload THEN "pending" ELSE "other"]

\* ANAF gives an id, and says from now on that it is at work.
AnafAccepts(u, t) ==
    /\ t.means = "pending"
    /\ said' = [said EXCEPT ![u] = {t}]

\* ANAF accepts the invoice under a new id, which extract_upload_id finds in
\* the answer or does not.
UploadAccepted(w, u, id, t) ==
    LET j == job[w] IN
    /\ j.kind = "upload" /\ j.step = "calling"
    /\ u \in Uploads \ Issued /\ id \in {u, NoUpload}
    /\ AnafAccepts(u, t)
    /\ Worked(w, Uploaded(j.image, id), {})

\* The answer is lost after ANAF accepted the invoice (a timeout): only an
\* audit entry is committed.
UploadAnswerLost(w, u, t) ==
    /\ job[w].kind = "upload" /\ job[w].step = "calling"
    /\ u \in Uploads \ Issued
    /\ AnafAccepts(u, t)
    /\ job' = [job EXCEPT ![w] = Idle]
    /\ UNCHANGED <<row, phase, open, raised>>

\* A call that fails: only an audit entry is committed.
CallFails(w) ==
    /\ job[w].step = "calling"
    /\ job' = [job EXCEPT ![w] = Idle]
    /\ UNCHANGED <<row, said, phase, open, raised>>

\* ANAF validates or rejects what it accepted, and says so in one way or
\* another: in its answers to stareMesaj, in the response archive.
AnafSays(u, t) ==
    /\ u \in Issued /\ t.means # "pending"
    /\ \A d \in Decisions(u) : d.means = t.means
    /\ said' = [said EXCEPT ![u] = @ \cup {t}]
    /\ UNCHANGED <<row, phase, open, raised, job>>

-----------------------------------------------------------------------------
(* Status and response.                                                    *)

\* check_invoice_status_from_anaf: an invoice with an upload id.
CheckBegin(w) ==
    /\ row.upload # NoUpload
    /\ Begin(w, Request("check", "calling", row))

\* ANAF answers for the upload the session loaded, and the answer is read:
\* parse_anaf_status_response.
CheckAnswered(w, t) ==
    LET new == WithStatus(job[w].image, NormalizeAnafStatus(t.markers, {})) IN
    /\ job[w].kind = "check" /\ job[w].step = "calling"
    /\ t \in Latest(job[w].image.upload)
    /\ UNCHANGED said
    /\ Worked(w, new, Alerting(new))

\* An answer about the request, not about the invoice ("Errors"), is read as
\* a rejection of the invoice: "error" is one of the markers.
CheckRefused(w) ==
    LET new == WithStatus(job[w].image, NormalizeAnafStatus({"error"}, {})) IN
    /\ job[w].kind = "check" /\ job[w].step = "calling"
    /\ UNCHANGED said
    /\ Worked(w, new, Alerting(new))

\* parse_and_apply_anaf_response, of the document the row names or the one the
\* user gives: a response that was downloaded, which is there once ANAF has
\* decided.  parse_xml_content overwrites the status at every element that says
\* anything, so that a refusal before the last one is not seen.  A response
\* that says nothing the parser knows is not applied, nor is one with
\* apply_result = False.
ParseApplied(w, u, t) ==
    LET new == WithStatus(row, NormalizeFromText(t.last)) IN
    /\ t \in Decisions(u)
    /\ NormalizeFromText(t.last) # "none"
    /\ Begin(w, [Request("parse", "ready", new) EXCEPT !.alerts = Alerting(new)])

-----------------------------------------------------------------------------
(* Sweeps, marks and alerts.                                               *)

\* sync_invoice_status: by the scheduler, if the invoice is not validated, or
\* for a user.
SweepBegin(w) ==
    /\ row.internal # "validated"
    /\ Begin(w, Request("sync", "loaded", row))

\* RealAnafClient without a base_url answers with the copy's own status and a
\* message about its settings.
SyncOne(w) ==
    LET new == WithStatus(job[w].image, job[w].image.anaf) IN
    /\ job[w].kind = "sync" /\ job[w].step = "loaded"
    /\ UNCHANGED said
    /\ Worked(w, new, Missing(new))

\* mark_unsent and mark_pending of the bulk actions.
Mark(w, status) ==
    Begin(w, Request("mark", "ready", [row EXCEPT !.internal = status,
                                                  !.anaf = "pending"]))

\* resolve_alert, and resolve_related_alerts for all of them.
Resolve(types) ==
    /\ types \subseteq open /\ types # {}
    /\ open' = open \ types
    /\ UNCHANGED <<row, said, phase, raised, job>>

DayPasses ==
    /\ phase # "late"
    /\ phase' = IF phase = "early" THEN "near" ELSE "late"
    /\ UNCHANGED <<row, said, open, raised, job>>

-----------------------------------------------------------------------------

\* What the commit of a session leaves in the row.
Merged(seen, new) ==
    [column \in DOMAIN row |-> Written(row[column], seen[column], new[column])]

Commit(w) ==
    LET j == job[w] IN
    /\ j.step = "ready"
    /\ row' = Merged(j.seen, j.image)
    /\ open' = open \cup j.alerts
    /\ raised' = raised \cup j.alerts
    /\ job' = [job EXCEPT ![w] = Idle]
    /\ UNCHANGED <<said, phase>>

\* An exception, a restart: the session is rolled back.
Abort(w) ==
    /\ Crashes
    /\ job[w] # Idle
    /\ job' = [job EXCEPT ![w] = Idle]
    /\ UNCHANGED <<row, said, phase, open, raised>>

UserRequest(w) ==
    \/ UploadBegin(w) \/ CheckBegin(w) \/ SweepBegin(w)
    \/ \E u \in Uploads, t \in Replies : ParseApplied(w, u, t)
    \/ \E status \in {"unsent", "pending"} : Mark(w, status)

Answer(w) ==
    \/ CheckRefused(w) \/ CallFails(w)
    \/ \E t \in Replies : CheckAnswered(w, t)
    \/ \E u \in Uploads, t \in Replies :
           \/ \E id \in UploadIds : UploadAccepted(w, u, id, t)
           \/ UploadAnswerLost(w, u, t)

Next ==
    \/ DayPasses
    \/ \E u \in Uploads, t \in Replies : AnafSays(u, t)
    \/ \E types \in SUBSET Watched : Resolve(types)
    \/ \E w \in Threads : UserRequest(w) \/ Answer(w)
    \/ SweepBegin(Scheduler)
    \/ \E w \in Workers : SyncOne(w) \/ Commit(w) \/ Abort(w)

Spec == Init /\ [][Next]_vars

\* Calls end (httpx gives each a timeout), threads are scheduled, the job comes
\* back after every interval, and not all of its sessions are lost.
FairSpec ==
    /\ Spec
    /\ \A w \in Threads : WF_vars(Answer(w))
    /\ \A w \in Workers : SF_vars(SyncOne(w)) /\ SF_vars(Commit(w))
    /\ WF_vars(SweepBegin(Scheduler))

-----------------------------------------------------------------------------
(* Properties.                                                             *)

\* The columns hold what the code may write into them.
TypeOK ==
    /\ row \in InvoiceRow
    /\ said \in [Uploads -> SUBSET Replies]
    /\ phase \in Phases
    /\ open \subseteq raised /\ raised \subseteq Watched
    /\ job \in [Workers -> Job]

\* A text, or its last element, with a word that validates and none that both
\* readers know to reject.  That ANAF means it so is more than the code can
\* see: "XML cu erori nepreluat de sistem" is a refusal, and holds "preluat".
SaysValidated(t) ==
    \E markers \in {t.markers, t.last} :
        /\ markers \cap ResponseValidations # {}
        /\ markers \cap StatusRejections = {}

\* The invoice shows as validated only if ANAF has said so of an upload of it,
\* in a word that validates beside none that rejects, whichever session wrote
\* the status, in whatever order answers, uploads, sweeps and marks were
\* committed (normalize_anaf_status, normalize_status_from_text).
ValidatedWasSaid ==
    "validated" \in {row.internal, row.anaf} =>
        \E u \in Uploads : \E t \in said[u] : SaysValidated(t)

\* An id that ANAF gave is never lost from the row again: a sweep that loaded
\* the invoice before the upload writes its anaf_upload_id only if it differs
\* from what it loaded, and an upload without a readable id keeps the earlier
\* one.
UploadIdIsKept ==
    [][row.upload \in Issued => row'.upload \in Issued]_vars

\* An invoice that shows a problem has had the alert of that problem.
ProblemIsRaised ==
    /\ row.internal \in Problems
    /\ ProblemAlert[row.internal] \in Watched
    => ProblemAlert[row.internal] \in raised

\* A status check and a sweep may write anaf_status and internal_status of the
\* row from two different copies.  A validated invoice that shows otherwise is
\* put right by a later sweep, unless its status is taken back.
ValidatedIsShown ==
    row.anaf = "validated" ~> row.internal = "validated" \/ row.anaf # "validated"

-----------------------------------------------------------------------------
(* The inductive invariant of the proofs.                                  *)

\* A row, or a copy of it, names an upload that ANAF knows, and shows as
\* validated only if ANAF said so of one.
RowFits(r) ==
    /\ r.upload # NoUpload => r.upload \in Issued
    /\ "validated" \in {r.internal, r.anaf} =>
           \E u \in Uploads : \E t \in said[u] : SaysValidated(t)

\* A session does not lose an upload id, asks for the status of one it has, and
\* brings the alert of the problem that it writes.
SessionFits(j) ==
    /\ RowFits(j.seen) /\ RowFits(j.image)
    /\ j.seen.upload # NoUpload \/ (j.kind = "check" /\ j.step = "calling") =>
           j.image.upload # NoUpload
    /\ /\ j.image.internal # j.seen.internal
       /\ j.image.internal \in Problems
       /\ ProblemAlert[j.image.internal] \in Watched
       => ProblemAlert[j.image.internal] \in raised \cup j.alerts

IInv ==
    /\ TypeOK
    /\ RowFits(row)
    /\ ProblemIsRaised
    /\ \A w \in Workers : SessionFits(job[w])
=============================================================================
