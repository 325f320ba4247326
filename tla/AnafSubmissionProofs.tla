------------------------ MODULE AnafSubmissionProofs ------------------------
(***************************************************************************)
(* AnafSubmission for every number of uploads and threads: the inductive   *)
(* invariant, and the properties it implies.                               *)
(***************************************************************************)
EXTENDS AnafSubmission, TLAPS

USE DEF Workers, UploadIds

-----------------------------------------------------------------------------
(* What the rules return.                                                  *)

LEMMA InternalStatusType ==
    ASSUME NEW anaf \in AnafStatuses, NEW when \in Phases
    PROVE  /\ InternalStatus(anaf, when) \in InternalStatuses
           /\ InternalStatus(anaf, when) = "validated" => anaf = "validated"
  BY DEF InternalStatus, InternalStatuses, AnafStatuses, Verdicts, Phases

LEMMA AlertsForType ==
    ASSUME NEW r \in InvoiceRow
    PROVE  r.internal \in Problems => ProblemAlert[r.internal] \in AlertsFor(r)
  BY DEF InvoiceRow, AlertsFor, Problems, ProblemAlert

LEMMA QuietStatuses ==
    "unsent" \notin Problems /\ "pending" \notin Problems
  BY DEF Problems, ProblemAlert

LEMMA WithStatusType ==
    ASSUME TypeOK, NEW r \in InvoiceRow, NEW status \in AnafStatuses
    PROVE  /\ WithStatus(r, status) \in InvoiceRow
           /\ WithStatus(r, status).anaf = status
           /\ WithStatus(r, status).internal = InternalStatus(status, phase)
           /\ WithStatus(r, status).upload = r.upload
           /\ "validated" \in {WithStatus(r, status).internal, status} =>
                  status = "validated"
  <1>1. phase \in Phases
    BY DEF TypeOK
  <1>2. /\ InternalStatus(status, phase) \in InternalStatuses
        /\ InternalStatus(status, phase) = "validated" => status = "validated"
    BY <1>1, InternalStatusType
  <1>3. QED
    BY <1>2 DEF WithStatus, InvoiceRow

LEMMA UploadedType ==
    ASSUME NEW r \in InvoiceRow, NEW id \in UploadIds
    PROVE  /\ Uploaded(r, id) \in InvoiceRow
           /\ Uploaded(r, id).upload = IF id = NoUpload THEN r.upload ELSE id
           /\ Uploaded(r, id).internal = "pending"
           /\ Uploaded(r, id).anaf \in {"pending", "other"}
  BY DEF Uploaded, InvoiceRow, AnafStatuses, InternalStatuses, Verdicts

LEMMA MergedType ==
    ASSUME TypeOK, NEW seen \in InvoiceRow, NEW new \in InvoiceRow
    PROVE  /\ Merged(seen, new) \in InvoiceRow
           /\ Merged(seen, new).internal = Written(row.internal, seen.internal, new.internal)
           /\ Merged(seen, new).anaf = Written(row.anaf, seen.anaf, new.anaf)
           /\ Merged(seen, new).upload = Written(row.upload, seen.upload, new.upload)
  BY DEF Merged, Written, InvoiceRow, TypeOK

\* The alerts that a session brings for a copy.
LEMMA AlertsType ==
    ASSUME TypeOK, NEW r \in InvoiceRow
    PROVE  /\ Missing(r) \in SUBSET Watched /\ Alerting(r) \in SUBSET Watched
           /\ r.internal \in Problems /\ ProblemAlert[r.internal] \in Watched =>
                 /\ ProblemAlert[r.internal] \in raised \cup Missing(r)
                 /\ ProblemAlert[r.internal] \in raised \cup Alerting(r)
  <1>1. open \subseteq raised
    BY DEF TypeOK
  <1>2. QED
    BY <1>1, AlertsForType DEF Missing, Alerting

-----------------------------------------------------------------------------
(* What the readers make of a text.                                        *)

\* ANAF has said so of an upload.
ValidationSaid == \E u \in Uploads : \E t \in said[u] : SaysValidated(t)

LEMMA ReadStatus ==
    ASSUME NEW t \in Replies
    PROVE  /\ NormalizeAnafStatus(t.markers, {}) \in AnafStatuses
           /\ NormalizeAnafStatus(t.markers, {}) = "validated" =>
                  SaysValidated(t)
  <1>1. t.markers \cup {} = t.markers
    OBVIOUS
  <1>2. NormalizeAnafStatus(t.markers, {}) \in Verdicts
    BY <1>1 DEF NormalizeAnafStatus, Verdicts
  <1>3. NormalizeAnafStatus(t.markers, {}) = "validated" =>
            /\ t.markers \cap StatusValidations # {}
            /\ t.markers \cap StatusRejections = {}
    BY <1>1 DEF NormalizeAnafStatus
  <1>4. StatusValidations \subseteq ResponseValidations
    BY DEF ResponseValidations
  <1>5. QED
    BY <1>2, <1>3, <1>4 DEF SaysValidated, AnafStatuses

LEMMA ReadResponse ==
    ASSUME NEW t \in Replies, NormalizeFromText(t.last) # "none"
    PROVE  /\ NormalizeFromText(t.last) \in AnafStatuses
           /\ NormalizeFromText(t.last) = "validated" => SaysValidated(t)
  <1>1. NormalizeFromText(t.last) \in Verdicts
    BY DEF NormalizeFromText, Verdicts
  <1>2. NormalizeFromText(t.last) = "validated" =>
            /\ t.last \cap ResponseValidations # {}
            /\ t.last \cap ResponseRejections = {}
    BY DEF NormalizeFromText
  <1>3. StatusRejections \subseteq ResponseRejections
    BY DEF ResponseRejections
  <1>4. QED
    BY <1>1, <1>2, <1>3 DEF SaysValidated, AnafStatuses

LEMMA ReadError ==
    /\ NormalizeAnafStatus({"error"}, {}) \in AnafStatuses
    /\ NormalizeAnafStatus({"error"}, {}) # "validated"
  <1>1. {"error"} \cup {} = {"error"}
    OBVIOUS
  <1>2. NormalizeAnafStatus({"error"}, {}) = "rejected"
    BY <1>1 DEF NormalizeAnafStatus, StatusRejections
  <1>3. QED
    BY <1>2 DEF AnafStatuses, Verdicts

-----------------------------------------------------------------------------
(* Sessions.                                                               *)

Kinds == {"idle", "upload", "check", "parse", "sync", "mark"}
Steps == {"idle", "calling", "loaded", "ready"}

LEMMA JobFields ==
    ASSUME NEW j \in Job
    PROVE  /\ j.seen \in InvoiceRow /\ j.image \in InvoiceRow
           /\ j.kind \in Kinds /\ j.step \in Steps /\ j.alerts \in SUBSET Watched
  BY DEF Job, Kinds, Steps

LEMMA ImportedFits ==
    /\ Imported \in InvoiceRow /\ Imported.internal = "unsent"
    /\ Imported.anaf = "unsent" /\ Imported.upload = NoUpload
  BY DEF Imported, InvoiceRow, AnafStatuses, InternalStatuses

LEMMA IdleFields ==
    /\ Idle \in Job /\ Idle.kind = "idle"
    /\ Idle.seen = Imported /\ Idle.image = Imported
  BY ImportedFits DEF Idle, Job

LEMMA IdleFits == SessionFits(Idle)
  BY IdleFields, ImportedFits, QuietStatuses DEF SessionFits, RowFits

LEMMA RequestType ==
    ASSUME TypeOK, NEW kind \in Kinds, NEW step \in Steps, NEW image \in InvoiceRow
    PROVE  /\ Request(kind, step, image) \in Job
           /\ Request(kind, step, image).kind = kind
           /\ Request(kind, step, image).step = step
           /\ Request(kind, step, image).seen = row
           /\ Request(kind, step, image).image = image
  BY DEF Request, Idle, Job, Kinds, Steps, TypeOK

\* A parsed response: its session brings its alerts at once.
ParseRequest(new) ==
    [Request("parse", "ready", new) EXCEPT !.alerts = Alerting(new)]

LEMMA ParseRequestType ==
    ASSUME TypeOK, NEW new \in InvoiceRow
    PROVE  /\ ParseRequest(new) \in Job
           /\ ParseRequest(new).kind = "parse" /\ ParseRequest(new).step = "ready"
           /\ ParseRequest(new).seen = row /\ ParseRequest(new).image = new
           /\ ParseRequest(new).alerts = Alerting(new)
  <1> DEFINE q == Request("parse", "ready", new)
  <1>1. /\ q \in Job /\ q.kind = "parse" /\ q.step = "ready"
        /\ q.seen = row /\ q.image = new
    BY RequestType DEF Kinds, Steps
  <1>2. Alerting(new) \in SUBSET Watched
    BY AlertsType
  <1> HIDE DEF q
  <1>3. ParseRequest(new) = [q EXCEPT !.alerts = Alerting(new)]
    BY DEF ParseRequest, q
  <1>4. QED
    BY <1>1, <1>2, <1>3 DEF Job

\* A session that has done its work.
Ready(j, image, alerts) ==
    [j EXCEPT !.step = "ready", !.image = image, !.alerts = alerts]

LEMMA ReadyType ==
    ASSUME NEW j \in Job, NEW image \in InvoiceRow, NEW alerts \in SUBSET Watched
    PROVE  /\ Ready(j, image, alerts) \in Job
           /\ Ready(j, image, alerts).kind = j.kind
           /\ Ready(j, image, alerts).step = "ready"
           /\ Ready(j, image, alerts).seen = j.seen
           /\ Ready(j, image, alerts).image = image
           /\ Ready(j, image, alerts).alerts = alerts
  BY DEF Ready, Job

LEMMA WorkedIsReady ==
    ASSUME TypeOK, NEW w \in Workers, NEW image, NEW alerts, Worked(w, image, alerts)
    PROVE  /\ job' = [job EXCEPT ![w] = Ready(job[w], image, alerts)]
           /\ row' = row /\ phase' = phase /\ open' = open /\ raised' = raised
  BY DEF Worked, Ready, TypeOK

-----------------------------------------------------------------------------
(* What a step must keep.                                                  *)

\* ANAF forgets nothing, and neither do the alerts.
Remembers ==
    /\ Issued \subseteq Issued'
    /\ \A u \in Uploads : said[u] \subseteq said'[u]
    /\ raised \subseteq raised'

LEMMA OtherSessions ==
    ASSUME Remembers, NEW v \in Workers, SessionFits(job[v]), job'[v] = job[v]
    PROVE  SessionFits(job[v])'
  BY DEF Remembers, SessionFits, RowFits

LEMMA RowRemembers ==
    ASSUME Remembers, RowFits(row), row' = row
    PROVE  RowFits(row)'
  BY DEF Remembers, RowFits

LEMMA SameAnaf ==
    ASSUME said' = said, raised \subseteq raised'
    PROVE  Remembers
  BY DEF Remembers, Issued

\* A step of one session that writes nothing.
LEMMA OneSession ==
    ASSUME IInv, NEW w \in Workers, NEW j \in Job,
           job' = [job EXCEPT ![w] = j],
           row' = row, phase' = phase, open' = open, raised' = raised,
           said' \in [Uploads -> SUBSET Replies], Remembers,
           SessionFits(j)'
    PROVE  IInv'
  <1>1. TypeOK' /\ RowFits(row)' /\ ProblemIsRaised'
    BY RowRemembers DEF IInv, TypeOK, ProblemIsRaised
  <1>2. /\ job'[w] = j
        /\ \A v \in Workers : v # w => job'[v] = job[v]
    BY DEF IInv, TypeOK
  <1>3. ASSUME NEW v \in Workers PROVE SessionFits(job[v])'
    <2>1. CASE v = w
      BY <1>2, <2>1 DEF SessionFits, RowFits
    <2>2. CASE v # w
      BY <1>2, <2>2, OtherSessions DEF IInv
    <2>3. QED
      BY <2>1, <2>2
  <1>4. QED
    BY <1>1, <1>3 DEF IInv

\* The same of a step in which ANAF has no part.
LEMMA QuietSession ==
    ASSUME IInv, NEW w \in Workers, NEW j \in Job,
           job' = [job EXCEPT ![w] = j],
           UNCHANGED <<row, said, phase, open, raised>>, SessionFits(j)
    PROVE  IInv'
  <1>1. Remembers
    BY SameAnaf
  <1>2. SessionFits(j)'
    BY <1>1 DEF Remembers, SessionFits, RowFits
  <1>3. said' \in [Uploads -> SUBSET Replies]
    BY DEF IInv, TypeOK
  <1>4. QED
    BY <1>1, <1>2, <1>3, OneSession

-----------------------------------------------------------------------------
(* One lemma per action.                                                   *)

\* A request begins, and has changed nothing but a mark.
LEMMA BeginStep ==
    ASSUME IInv, NEW w \in Workers, NEW kind \in Kinds, NEW step \in Steps,
           NEW image \in InvoiceRow, RowFits(image),
           image.upload = row.upload,
           image.internal \in {row.internal, "unsent", "pending"},
           kind = "check" => row.upload # NoUpload,
           Begin(w, Request(kind, step, image))
    PROVE  IInv'
  <1> DEFINE j == Request(kind, step, image)
  <1>1. TypeOK /\ RowFits(row)
    BY DEF IInv
  <1>2. j \in Job /\ j.kind = kind /\ j.seen = row /\ j.image = image
    BY <1>1, RequestType
  <1>3. /\ job' = [job EXCEPT ![w] = j]
        /\ UNCHANGED <<row, said, phase, open, raised>>
    BY DEF Begin
  <1> HIDE DEF j
  <1>4. SessionFits(j)
    BY <1>1, <1>2, QuietStatuses DEF SessionFits
  <1>5. QED
    BY <1>2, <1>3, <1>4, QuietSession

LEMMA UnchangedCopy ==
    ASSUME IInv
    PROVE  row \in InvoiceRow /\ RowFits(row)
  BY DEF IInv, TypeOK

LEMMA UploadBeginStep ==
    ASSUME IInv, NEW w \in Workers, UploadBegin(w)
    PROVE  IInv'
  BY UnchangedCopy, BeginStep DEF UploadBegin, Kinds, Steps

LEMMA CheckBeginStep ==
    ASSUME IInv, NEW w \in Workers, CheckBegin(w)
    PROVE  IInv'
  BY UnchangedCopy, BeginStep DEF CheckBegin, Kinds, Steps

LEMMA SweepBeginStep ==
    ASSUME IInv, NEW w \in Workers, SweepBegin(w)
    PROVE  IInv'
  BY UnchangedCopy, BeginStep DEF SweepBegin, Kinds, Steps

LEMMA MarkStep ==
    ASSUME IInv, NEW w \in Workers, NEW status \in {"unsent", "pending"},
           Mark(w, status)
    PROVE  IInv'
  <1> DEFINE image == [row EXCEPT !.internal = status, !.anaf = "pending"]
  <1>1. /\ image \in InvoiceRow /\ image.upload = row.upload
        /\ image.internal = status /\ image.anaf = "pending"
    BY UnchangedCopy DEF InvoiceRow, AnafStatuses, InternalStatuses, Verdicts
  <1>2. Begin(w, Request("mark", "ready", image))
    BY DEF Mark
  <1> HIDE DEF image
  <1>3. RowFits(image)
    BY <1>1, UnchangedCopy DEF RowFits
  <1>4. QED
    BY <1>1, <1>2, <1>3, BeginStep DEF Kinds, Steps

LEMMA ParseAppliedStep ==
    ASSUME IInv, NEW w \in Workers, NEW u \in Uploads, NEW t \in Replies,
           ParseApplied(w, u, t)
    PROVE  IInv'
  <1> DEFINE status == NormalizeFromText(t.last)
             new == WithStatus(row, status)
             j == ParseRequest(new)
  <1>1. TypeOK /\ row \in InvoiceRow /\ RowFits(row)
    BY UnchangedCopy DEF IInv
  <1>2. /\ status \in AnafStatuses /\ t \in said[u]
        /\ status = "validated" => SaysValidated(t)
    BY ReadResponse DEF ParseApplied, Decisions
  <1>3. Begin(w, j)
    BY DEF ParseApplied, ParseRequest
  <1> HIDE DEF status
  <1>4. /\ new \in InvoiceRow /\ new.anaf = status /\ new.upload = row.upload
        /\ "validated" \in {new.internal, new.anaf} => status = "validated"
    BY <1>1, <1>2, WithStatusType
  <1> HIDE DEF new
  <1>5. /\ j \in Job /\ j.kind = "parse" /\ j.seen = row /\ j.image = new
        /\ j.alerts = Alerting(new)
    BY <1>1, <1>4, ParseRequestType
  <1>6. RowFits(new)
    BY <1>1, <1>2, <1>4 DEF RowFits
  <1> HIDE DEF j
  <1>7. SessionFits(j)
    BY <1>1, <1>4, <1>5, <1>6, AlertsType DEF SessionFits
  <1>8. QED
    BY <1>3, <1>5, <1>7, QuietSession DEF Begin

\* A session has done its work on its copy, and brings its alerts.
LEMMA WorkedStep ==
    ASSUME IInv, NEW w \in Workers, NEW old \in Job, old = job[w],
           NEW image \in InvoiceRow, NEW alerts \in SUBSET Watched,
           Worked(w, image, alerts),
           said' \in [Uploads -> SUBSET Replies], Remembers,
           RowFits(image)', old.seen.upload # NoUpload => image.upload # NoUpload,
           /\ image.internal \in Problems
           /\ ProblemAlert[image.internal] \in Watched
           => ProblemAlert[image.internal] \in raised \cup alerts
    PROVE  IInv'
  <1>1. TypeOK /\ SessionFits(old)
    BY DEF IInv, TypeOK
  <1>2. PICK j \in Job : j = Ready(old, image, alerts)
    BY ReadyType
  <1>3. /\ job' = [job EXCEPT ![w] = j]
        /\ row' = row /\ phase' = phase /\ open' = open /\ raised' = raised
    BY <1>1, <1>2, WorkedIsReady
  <1>4. /\ j.step = "ready" /\ j.seen = old.seen
        /\ j.image = image /\ j.alerts = alerts
    BY <1>2, ReadyType
  <1>5. RowFits(j.seen)'
    BY <1>1, <1>4 DEF SessionFits, RowFits, Remembers
  <1>6. SessionFits(j)'
    BY <1>3, <1>4, <1>5 DEF SessionFits
  <1>7. QED
    BY <1>3, <1>6, OneSession

\* ANAF has given an id, and forgets nothing.
LEMMA AcceptedIsSaid ==
    ASSUME TypeOK, NEW u \in Uploads, NEW t \in Replies, u \notin Issued,
           AnafAccepts(u, t), raised' = raised
    PROVE  /\ said' \in [Uploads -> SUBSET Replies]
           /\ Remembers /\ u \in Issued'
  <1>1. /\ said \in [Uploads -> SUBSET Replies]
        /\ said' = [said EXCEPT ![u] = {t}] /\ said[u] = {}
    BY DEF TypeOK, AnafAccepts, Issued
  <1>2. \A q \in Uploads : said[q] \subseteq said'[q]
    BY <1>1
  <1>3. QED
    BY <1>1, <1>2 DEF Remembers, Issued

LEMMA UploadAcceptedStep ==
    ASSUME IInv, NEW w \in Threads, NEW u \in Uploads, NEW id \in UploadIds,
           NEW t \in Replies, UploadAccepted(w, u, id, t)
    PROVE  IInv'
  <1>1. PICK old \in Job : old = job[w]
    BY DEF IInv, TypeOK
  <1>2. TypeOK /\ SessionFits(old) /\ old.image \in InvoiceRow
    BY <1>1, JobFields DEF IInv
  <1>3. PICK image \in InvoiceRow : image = Uploaded(old.image, id)
    BY <1>2, UploadedType
  <1>4. /\ image.upload = IF id = NoUpload THEN old.image.upload ELSE id
        /\ image.internal = "pending" /\ image.anaf \in {"pending", "other"}
    BY <1>2, <1>3, UploadedType
  <1>5. /\ AnafAccepts(u, t) /\ u \notin Issued
        /\ id \in {u, NoUpload} /\ raised' = raised
        /\ Worked(w, image, {})
    BY <1>1, <1>3 DEF UploadAccepted, Worked
  <1>6. said' \in [Uploads -> SUBSET Replies]
    BY <1>5, AcceptedIsSaid DEF IInv
  <1>7. Remembers /\ u \in Issued'
    BY <1>5, AcceptedIsSaid DEF IInv
  <1>8. RowFits(image)'
    BY <1>2, <1>4, <1>5, <1>7 DEF RowFits, SessionFits, Remembers
  <1>9. old.seen.upload # NoUpload => image.upload # NoUpload
    BY <1>2, <1>4 DEF SessionFits
  <1>10. QED
    BY <1>1, <1>4, <1>5, <1>6, <1>7, <1>8, <1>9, QuietStatuses, WorkedStep

\* A session ends, whatever ANAF remembers of it.
LEMMA SessionEnds ==
    ASSUME IInv, NEW w \in Workers, job' = [job EXCEPT ![w] = Idle],
           row' = row, phase' = phase, open' = open, raised' = raised,
           said' \in [Uploads -> SUBSET Replies], Remembers
    PROVE  IInv'
  <1>1. SessionFits(Idle)'
    BY IdleFields, ImportedFits, QuietStatuses DEF SessionFits, RowFits
  <1>2. QED
    BY <1>1, IdleFields, OneSession

LEMMA UploadAnswerLostStep ==
    ASSUME IInv, NEW w \in Threads, NEW u \in Uploads, NEW t \in Replies,
           UploadAnswerLost(w, u, t)
    PROVE  IInv'
  <1>1. AnafAccepts(u, t) /\ u \notin Issued /\ raised' = raised
    BY DEF UploadAnswerLost
  <1>2. said' \in [Uploads -> SUBSET Replies] /\ Remembers
    BY <1>1, AcceptedIsSaid DEF IInv
  <1>3. QED
    BY <1>2, SessionEnds DEF UploadAnswerLost

\* A call that failed, a session rolled back.
LEMMA SessionLost ==
    ASSUME IInv, NEW w \in Workers, job' = [job EXCEPT ![w] = Idle],
           UNCHANGED <<row, said, phase, open, raised>>
    PROVE  IInv'
  BY SameAnaf, SessionEnds DEF IInv, TypeOK

\* A status that is written with the message and the alerts it brings.
LEMMA StatusStep ==
    ASSUME IInv, NEW w \in Workers, NEW status \in AnafStatuses,
           NEW alerts \in SUBSET Watched, UNCHANGED said,
           status = "validated" => ValidationSaid,
           Worked(w, WithStatus(job[w].image, status), alerts),
           /\ WithStatus(job[w].image, status).internal \in Problems
           /\ ProblemAlert[WithStatus(job[w].image, status).internal] \in Watched
           => ProblemAlert[WithStatus(job[w].image, status).internal]
                  \in raised \cup alerts
    PROVE  IInv'
  <1>1. PICK old \in Job : old = job[w]
    BY DEF IInv, TypeOK
  <1>2. TypeOK /\ SessionFits(old) /\ old.image \in InvoiceRow
    BY <1>1, JobFields DEF IInv
  <1>3. PICK image \in InvoiceRow : image = WithStatus(old.image, status)
    BY <1>2, WithStatusType
  <1>4. /\ image.upload = old.image.upload /\ image.anaf = status
        /\ "validated" \in {image.internal, status} => status = "validated"
    BY <1>2, <1>3, WithStatusType
  <1>5. Worked(w, image, alerts) /\ raised' = raised
    BY <1>1, <1>3 DEF Worked
  <1>6. Remembers /\ said' \in [Uploads -> SUBSET Replies]
    BY <1>2, <1>5, SameAnaf DEF TypeOK
  <1>7. RowFits(image)'
    BY <1>2, <1>4, <1>6 DEF RowFits, SessionFits, Remembers, ValidationSaid
  <1>8. old.seen.upload # NoUpload => image.upload # NoUpload
    BY <1>2, <1>4 DEF SessionFits
  <1>9. QED
    BY <1>1, <1>3, <1>5, <1>6, <1>7, <1>8, WorkedStep

LEMMA CheckAnsweredStep ==
    ASSUME IInv, NEW w \in Threads, NEW t \in Replies, CheckAnswered(w, t)
    PROVE  IInv'
  <1> DEFINE u == job[w].image.upload
             status == NormalizeAnafStatus(t.markers, {})
             new == WithStatus(job[w].image, status)
  <1>1. TypeOK /\ job[w] \in Job /\ SessionFits(job[w])
    BY DEF IInv, TypeOK
  <1>2. u \in Issued
    BY <1>1 DEF CheckAnswered, SessionFits, RowFits
  <1>3. u \in Uploads /\ t \in said[u]
    BY <1>2 DEF Issued, CheckAnswered, Latest, Decisions
  <1>4. status \in AnafStatuses /\ (status = "validated" => SaysValidated(t))
    BY ReadStatus
  <1>5. UNCHANGED said /\ Worked(w, new, Alerting(new))
    BY DEF CheckAnswered
  <1> HIDE DEF status
  <1>6. new \in InvoiceRow
    BY <1>1, <1>4, JobFields, WithStatusType
  <1>7. Alerting(new) \in SUBSET Watched
        /\ (new.internal \in Problems /\ ProblemAlert[new.internal] \in Watched
               => ProblemAlert[new.internal] \in raised \cup Alerting(new))
    BY <1>1, <1>6, AlertsType
  <1>8. status = "validated" => ValidationSaid
    BY <1>3, <1>4 DEF ValidationSaid
  <1>9. QED
    BY <1>4, <1>5, <1>7, <1>8, StatusStep

LEMMA CheckRefusedStep ==
    ASSUME IInv, NEW w \in Threads, CheckRefused(w)
    PROVE  IInv'
  <1> DEFINE status == NormalizeAnafStatus({"error"}, {})
             new == WithStatus(job[w].image, status)
  <1>1. TypeOK /\ job[w] \in Job
    BY DEF IInv, TypeOK
  <1>2. status \in AnafStatuses /\ status # "validated"
    BY ReadError
  <1>4. UNCHANGED said /\ Worked(w, new, Alerting(new))
    BY DEF CheckRefused
  <1> HIDE DEF status
  <1>3. new \in InvoiceRow
    BY <1>1, <1>2, JobFields, WithStatusType
  <1>5. Alerting(new) \in SUBSET Watched
        /\ (new.internal \in Problems /\ ProblemAlert[new.internal] \in Watched
               => ProblemAlert[new.internal] \in raised \cup Alerting(new))
    BY <1>1, <1>3, AlertsType
  <1>6. QED
    BY <1>2, <1>4, <1>5, StatusStep

LEMMA SyncOneStep ==
    ASSUME IInv, NEW w \in Workers, SyncOne(w)
    PROVE  IInv'
  <1> DEFINE status == job[w].image.anaf
             new == WithStatus(job[w].image, status)
  <1>1. TypeOK /\ job[w] \in Job /\ SessionFits(job[w])
    BY DEF IInv, TypeOK
  <1>2. job[w].image \in InvoiceRow /\ RowFits(job[w].image)
    BY <1>1, JobFields DEF SessionFits
  <1>3. status \in AnafStatuses
        /\ (status = "validated" => ValidationSaid)
    BY <1>2 DEF InvoiceRow, RowFits, ValidationSaid
  <1>4. new \in InvoiceRow
    BY <1>1, <1>2, <1>3, WithStatusType
  <1>5. UNCHANGED said /\ Worked(w, new, Missing(new))
    BY DEF SyncOne
  <1>6. Missing(new) \in SUBSET Watched
        /\ (new.internal \in Problems /\ ProblemAlert[new.internal] \in Watched
               => ProblemAlert[new.internal] \in raised \cup Missing(new))
    BY <1>1, <1>4, AlertsType
  <1>7. QED
    BY <1>3, <1>5, <1>6, StatusStep

LEMMA CommitStep ==
    ASSUME IInv, NEW w \in Workers, Commit(w)
    PROVE  IInv'
  <1>1. PICK old \in Job : old = job[w]
    BY DEF IInv, TypeOK
  <1>2. /\ TypeOK /\ RowFits(row) /\ SessionFits(old)
        /\ old.seen \in InvoiceRow /\ old.image \in InvoiceRow
        /\ old.alerts \in SUBSET Watched
    BY <1>1, JobFields DEF IInv
  <1>3. /\ row' = Merged(old.seen, old.image) /\ said' = said
        /\ phase' = phase /\ open' = open \cup old.alerts
        /\ raised' = raised \cup old.alerts /\ job' = [job EXCEPT ![w] = Idle]
    BY <1>1 DEF Commit
  <1>4. /\ row' \in InvoiceRow
        /\ row'.internal = Written(row.internal, old.seen.internal, old.image.internal)
        /\ row'.anaf = Written(row.anaf, old.seen.anaf, old.image.anaf)
        /\ row'.upload = Written(row.upload, old.seen.upload, old.image.upload)
    BY <1>2, <1>3, MergedType
  <1>5. Remembers
    BY <1>3, SameAnaf
  <1>6. TypeOK'
    BY <1>2, <1>3, <1>4, IdleFields DEF TypeOK
  <1>7. RowFits(row)'
    <2>1. row'.upload # NoUpload => row'.upload \in Issued'
      BY <1>2, <1>4, <1>5 DEF RowFits, SessionFits, Written, Remembers
    <2>2. /\ row'.internal \in {row.internal, old.image.internal}
          /\ row'.anaf \in {row.anaf, old.image.anaf}
      BY <1>4 DEF Written
    <2>3. "validated" \in {row'.internal, row'.anaf} =>
              \E u \in Uploads : \E t \in said'[u] : SaysValidated(t)
      BY <1>2, <1>3, <2>2 DEF RowFits, SessionFits
    <2>4. QED
      BY <2>1, <2>3 DEF RowFits
  <1>8. ProblemIsRaised'
    BY <1>2, <1>3, <1>4 DEF IInv, ProblemIsRaised, SessionFits, Written
  <1>9. ASSUME NEW v \in Workers PROVE SessionFits(job[v])'
    <2>1. CASE v = w
      <3>1. job'[v] = Idle
        BY <1>2, <1>3, <2>1 DEF TypeOK
      <3>2. QED
        BY <3>1, IdleFields, ImportedFits, QuietStatuses DEF SessionFits, RowFits
    <2>2. CASE v # w
      <3>1. job'[v] = job[v]
        BY <1>2, <1>3, <2>2 DEF TypeOK
      <3>2. QED
        BY <1>5, <3>1, OtherSessions DEF IInv
    <2>3. QED
      BY <2>1, <2>2
  <1>10. QED
    BY <1>6, <1>7, <1>8, <1>9 DEF IInv

\* A step in which no session has a part.
LEMMA NoSession ==
    ASSUME IInv, row' = row, job' = job, raised' = raised, Remembers, TypeOK'
    PROVE  IInv'
  <1>1. RowFits(row)' /\ ProblemIsRaised'
    BY RowRemembers DEF IInv, ProblemIsRaised
  <1>2. ASSUME NEW v \in Workers PROVE SessionFits(job[v])'
    BY OtherSessions DEF IInv
  <1>3. QED
    BY <1>1, <1>2 DEF IInv

LEMMA AnafSaysStep ==
    ASSUME IInv, NEW u \in Uploads, NEW t \in Replies, AnafSays(u, t)
    PROVE  IInv'
  <1>1. /\ said \in [Uploads -> SUBSET Replies]
        /\ said' = [said EXCEPT ![u] = @ \cup {t}]
        /\ UNCHANGED <<row, phase, open, raised, job>>
    BY DEF AnafSays, IInv, TypeOK
  <1>2. TypeOK'
    BY <1>1 DEF IInv, TypeOK
  <1>3. Remembers
    <2>1. \A q \in Uploads : said[q] \subseteq said'[q]
      BY <1>1
    <2>2. QED
      BY <1>1, <2>1 DEF Remembers, Issued
  <1>4. QED
    BY <1>1, <1>2, <1>3, NoSession

LEMMA ResolveStep ==
    ASSUME IInv, NEW types \in SUBSET Watched, Resolve(types)
    PROVE  IInv'
  <1>1. TypeOK'
    BY DEF Resolve, IInv, TypeOK
  <1>2. QED
    BY <1>1, SameAnaf, NoSession DEF Resolve

LEMMA DayPassesStep ==
    ASSUME IInv, DayPasses
    PROVE  IInv'
  <1>1. TypeOK'
    BY DEF DayPasses, IInv, TypeOK, Phases
  <1>2. QED
    BY <1>1, SameAnaf, NoSession DEF DayPasses

LEMMA StutterStep ==
    ASSUME IInv, UNCHANGED vars
    PROVE  IInv'
  <1>1. TypeOK'
    BY DEF vars, IInv, TypeOK
  <1>2. QED
    BY <1>1, SameAnaf, NoSession DEF vars

-----------------------------------------------------------------------------
(* The theorems.                                                           *)

LEMMA NextIInv == IInv /\ [Next]_vars => IInv'
  <1> SUFFICES ASSUME IInv, [Next]_vars PROVE IInv'
    OBVIOUS
  <1>1. CASE DayPasses
    BY <1>1, DayPassesStep
  <1>2. ASSUME NEW u \in Uploads, NEW t \in Replies, AnafSays(u, t)
        PROVE  IInv'
    BY <1>2, AnafSaysStep
  <1>3. ASSUME NEW types \in SUBSET Watched, Resolve(types) PROVE IInv'
    BY <1>3, ResolveStep
  <1>4. ASSUME NEW w \in Threads, UserRequest(w) PROVE IInv'
    BY <1>4, UploadBeginStep, CheckBeginStep, SweepBeginStep, ParseAppliedStep,
       MarkStep DEF UserRequest
  <1>5. ASSUME NEW w \in Threads, Answer(w) PROVE IInv'
    <2>1. CASE CallFails(w)
      BY <2>1, SessionLost DEF CallFails
    <2>2. QED
      BY <1>5, <2>1, CheckAnsweredStep, CheckRefusedStep, UploadAcceptedStep,
         UploadAnswerLostStep DEF Answer
  <1>6. CASE SweepBegin(Scheduler)
    BY <1>6, SweepBeginStep
  <1>7. ASSUME NEW w \in Workers, SyncOne(w) \/ Commit(w) \/ Abort(w) PROVE IInv'
    <2>1. CASE Abort(w)
      BY <2>1, SessionLost DEF Abort
    <2>2. QED
      BY <1>7, <2>1, SyncOneStep, CommitStep
  <1>8. CASE UNCHANGED vars
    BY <1>8, StutterStep
  <1>9. QED
    BY <1>1, <1>2, <1>3, <1>4, <1>5, <1>6, <1>7, <1>8 DEF Next

LEMMA InitIInv == Init => IInv
  <1> SUFFICES ASSUME Init PROVE IInv
    OBVIOUS
  <1>1. TypeOK
    BY ImportedFits, IdleFields DEF Init, TypeOK, Phases
  <1>2. RowFits(row) /\ ProblemIsRaised
    BY ImportedFits, QuietStatuses DEF Init, RowFits, ProblemIsRaised
  <1>3. \A w \in Workers : SessionFits(job[w])
    BY IdleFits DEF Init
  <1>4. QED
    BY <1>1, <1>2, <1>3 DEF IInv

\* The inductive invariant holds of every number of uploads and of threads.
THEOREM Invariance == Spec => []IInv
  BY InitIInv, NextIInv, PTL DEF Spec

\* The row, the alerts and the sessions hold what the code may write.
THEOREM TypeCorrect == Spec => []TypeOK
  <1>1. IInv => TypeOK
    BY DEF IInv
  <1>2. QED
    BY <1>1, Invariance, PTL

\* The invoice shows as validated only if ANAF has said so of an upload of it,
\* in a word that validates beside none that rejects.
THEOREM ValidatedIsSaid == Spec => []ValidatedWasSaid
  <1>1. IInv => ValidatedWasSaid
    BY DEF IInv, RowFits, ValidatedWasSaid
  <1>2. QED
    BY <1>1, Invariance, PTL

\* An invoice that shows a problem has had the alert of that problem.
THEOREM ProblemRaised == Spec => []ProblemIsRaised
  <1>1. IInv => ProblemIsRaised
    BY DEF IInv
  <1>2. QED
    BY <1>1, Invariance, PTL

\* A step that finds an id of ANAF in the row leaves one there.
LEMMA IdStaysInRow ==
    ASSUME IInv, [Next]_vars, row.upload \in Issued
    PROVE  row'.upload \in Issued
  <1>1. CASE \E w \in Workers : Commit(w)
    <2>1. PICK w \in Workers : Commit(w)
      BY <1>1
    <2>2. PICK old \in Job : old = job[w]
      BY DEF IInv, TypeOK
    <2>3. /\ TypeOK /\ RowFits(row) /\ SessionFits(old)
          /\ old.seen \in InvoiceRow /\ old.image \in InvoiceRow
      BY <2>2, JobFields DEF IInv
    <2>4. row' = Merged(old.seen, old.image)
      BY <2>1, <2>2 DEF Commit
    <2>5. row'.upload = Written(row.upload, old.seen.upload, old.image.upload)
      BY <2>3, <2>4, MergedType
    <2>6. CASE old.image.upload = old.seen.upload
      BY <2>5, <2>6 DEF Written
    <2>7. CASE old.image.upload # old.seen.upload
      <3>1. old.image.upload # NoUpload /\ row'.upload = old.image.upload
        BY <2>3, <2>5, <2>7 DEF SessionFits, Written
      <3>2. QED
        BY <2>3, <3>1 DEF SessionFits, RowFits
    <2>8. QED
      BY <2>6, <2>7
  <1>2. CASE ~ \E w \in Workers : Commit(w)
    <2>1. row' = row
      BY <1>2 DEF Next, vars, DayPasses, AnafSays, Resolve, UserRequest,
         Answer, SyncOne, Abort, Worked, Begin, UploadBegin, CheckBegin,
         SweepBegin, ParseApplied, Mark, CheckAnswered, CheckRefused, CallFails,
         UploadAccepted, UploadAnswerLost
    <2>2. QED
      BY <2>1
  <1>3. QED
    BY <1>1, <1>2

\* An id that ANAF gave is never lost from the row again.
THEOREM UploadIdKept == Spec => UploadIdIsKept
  <1>1. IInv /\ [Next]_vars =>
            [row.upload \in Issued => row'.upload \in Issued]_vars
    BY IdStaysInRow
  <1>2. QED
    BY <1>1, Invariance, PTL DEF Spec, UploadIdIsKept
=============================================================================
