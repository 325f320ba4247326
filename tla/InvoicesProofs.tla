--------------------------- MODULE InvoicesProofs ---------------------------
(***************************************************************************)
(* Invoices for every number of invoices and threads: the inductive        *)
(* invariant, and the properties it implies.                               *)
(***************************************************************************)
EXTENDS Invoices, Counting

USE DEF Workers

LEMMA WorkersAreFinite == IsFiniteSet(Workers) /\ Scheduler \in Workers
  BY SessionsAreFinite, FS_AddElement

-----------------------------------------------------------------------------
(* What the rules return.                                                  *)

LEMMA AnswerType ==
    ASSUME NEW r \in InvoiceRow
    PROVE  /\ Answer(r).status \in Verdicts /\ Answer(r).message \in Messages
           /\ r.anaf = "rejected" => Answer(r).status = "rejected"
           /\ r.anaf # "rejected" => Answer(r).status = r.verdict
  BY DEF InvoiceRow, Answer, Verdicts, Messages

LEMMA InternalStatusType ==
    ASSUME NEW anaf \in AnafStatuses, NEW when \in Phases
    PROVE  /\ InternalStatus(anaf, when) \in InternalStatuses
           /\ anaf \in {"validated", "rejected"} => InternalStatus(anaf, when) = anaf
  BY DEF InternalStatus, InternalStatuses, AnafStatuses, Verdicts, Phases

LEMMA AlertsForType ==
    ASSUME NEW r \in InvoiceRow
    PROVE  /\ AlertsFor(r) \in SUBSET AlertTypes
           /\ r.internal \in Problems => ProblemAlert[r.internal] \in AlertsFor(r)
  BY DEF InvoiceRow, AlertsFor, AlertTypes, Problems, ProblemAlert

LEMMA ProblemAlertType ==
    \A s \in Problems : ProblemAlert[s] \in AlertTypes
  BY DEF AlertTypes, Problems, ProblemAlert

LEMMA NoRowIsNone ==
    /\ NoRow \notin InvoiceRow
    /\ NoRow.internal = "none" /\ NoRow.anaf = "none" /\ NoRow.verdict = "none"
    /\ "none" \notin Problems
    /\ RejectionShows(NoRow)
  BY DEF NoRow, InvoiceRow, InternalStatuses, Verdicts, Problems, ProblemAlert,
         RejectionShows

LEMMA SyncedType ==
    ASSUME NEW r \in InvoiceRow, NEW when \in Phases
    PROVE  /\ Synced(r, when) \in InvoiceRow
           /\ Synced(r, when).anaf = Answer(r).status
           /\ Synced(r, when).internal = InternalStatus(Answer(r).status, when)
           /\ Synced(r, when).verdict = r.verdict
  BY AnswerType, InternalStatusType DEF Synced, InvoiceRow, AnafStatuses

LEMMA MarkedType ==
    ASSUME NEW r \in InvoiceRow, NEW s \in {"unsent", "pending"}
    PROVE  /\ Marked(r, s) \in InvoiceRow
           /\ Marked(r, s).anaf = "pending" /\ Marked(r, s).internal = s
  BY DEF Marked, InvoiceRow, AnafStatuses, InternalStatuses, Verdicts

LEMMA MergedType ==
    ASSUME NEW r \in InvoiceRow, NEW seen \in InvoiceRow, NEW new \in InvoiceRow
    PROVE  /\ Merged(r, seen, new) \in InvoiceRow
           /\ Merged(r, seen, new).internal
                  = Written(r.internal, seen.internal, new.internal)
           /\ Merged(r, seen, new).anaf = Written(r.anaf, seen.anaf, new.anaf)
           /\ Merged(r, seen, new).verdict = r.verdict
  BY DEF Merged, Written, InvoiceRow

LEMMA MergedNothing ==
    ASSUME NEW r \in InvoiceRow \cup {NoRow}
    PROVE  Merged(r, NoRow, NoRow) = r
  BY DEF Merged, Written, InvoiceRow, NoRow

LEMMA ImportedType ==
    ASSUME NEW i \in Invoices, NEW file \in Files, NEW when \in Phases
    PROVE  LET r == [internal |-> InternalStatus(file.anaf, when),
                     anaf |-> file.anaf, message |-> file.message,
                     verdict |-> file.verdict]
           IN  r \in InvoiceRow /\ RejectionShows(r)
  <1>1. /\ file.anaf \in AnafStatuses /\ file.message \in Messages
        /\ file.verdict \in Verdicts
    BY FilesAssumption DEF FileRow, Messages
  <1>2. QED
    BY <1>1, InternalStatusType DEF InvoiceRow, RejectionShows

-----------------------------------------------------------------------------
(* Sessions.                                                               *)

Kinds == {"idle", "sync", "mark"}

LEMMA JobFields ==
    ASSUME NEW j \in Job, NEW i \in Invoices
    PROVE  /\ j.seen[i] \in InvoiceRow \cup {NoRow}
           /\ j.image[i] \in InvoiceRow \cup {NoRow}
           /\ j.todo \subseteq Invoices
           /\ j.alerts \subseteq Invoices \X AlertTypes
           /\ j.kind \in Kinds
  BY DEF Job, Kinds

LEMMA IdleFits ==
    /\ Idle \in Job /\ SessionFits(Idle)
    /\ Idle.todo = {} /\ Idle.alerts = {} /\ Idle.seen = Nothing
  BY DEF Idle, Job, Nothing, SessionFits

\* The sessions that SyncBegin and MarkBegin begin.
SyncRequest(ids) ==
    [Idle EXCEPT !.kind = "sync", !.todo = ids,
                 !.seen = Loaded(ids), !.image = Loaded(ids)]
Marks(ids, s) ==
    [i \in Invoices |-> IF i \in ids THEN Marked(row[i], s) ELSE NoRow]
MarkRequest(ids, s) ==
    [Idle EXCEPT !.kind = "mark", !.seen = Loaded(ids), !.image = Marks(ids, s)]

LEMMA LoadedType ==
    ASSUME TypeOK, NEW ids \in SUBSET Invoices
    PROVE  /\ Loaded(ids) \in [Invoices -> InvoiceRow \cup {NoRow}]
           /\ \A i \in Invoices : Loaded(ids)[i] = IF i \in ids THEN row[i] ELSE NoRow
  BY DEF Loaded, TypeOK

LEMMA MarksType ==
    ASSUME TypeOK, NEW ids \in SUBSET Imported, NEW s \in {"unsent", "pending"}
    PROVE  /\ Marks(ids, s) \in [Invoices -> InvoiceRow \cup {NoRow}]
           /\ \A i \in Invoices \ ids : Marks(ids, s)[i] = NoRow
           /\ \A i \in ids : /\ Marks(ids, s)[i] \in InvoiceRow
                             /\ Marks(ids, s)[i].anaf = "pending"
                             /\ Marks(ids, s)[i].internal = s
  <1>1. ids \subseteq Invoices /\ \A i \in ids : row[i] \in InvoiceRow
    BY DEF Imported, TypeOK
  <1>2. QED
    BY <1>1, MarkedType DEF Marks

LEMMA SyncRequestType ==
    ASSUME TypeOK, NEW ids \in SUBSET Invoices
    PROVE  /\ SyncRequest(ids) \in Job
           /\ SyncRequest(ids).kind = "sync" /\ SyncRequest(ids).todo = ids
           /\ SyncRequest(ids).seen = Loaded(ids)
           /\ SyncRequest(ids).image = Loaded(ids)
           /\ SyncRequest(ids).alerts = {}
  BY LoadedType DEF SyncRequest, Idle, Job

LEMMA MarkRequestType ==
    ASSUME TypeOK, NEW ids \in SUBSET Imported, NEW s \in {"unsent", "pending"}
    PROVE  /\ MarkRequest(ids, s) \in Job
           /\ MarkRequest(ids, s).kind = "mark" /\ MarkRequest(ids, s).todo = {}
           /\ MarkRequest(ids, s).seen = Loaded(ids)
           /\ MarkRequest(ids, s).image = Marks(ids, s)
           /\ MarkRequest(ids, s).alerts = {}
  <1>1. ids \in SUBSET Invoices
    BY DEF Imported
  <1>2. QED
    BY <1>1, LoadedType, MarksType DEF MarkRequest, Idle, Job

-----------------------------------------------------------------------------
(* What a step must keep.  Sessions of other threads survive it if every   *)
(* row stays as they know it.                                              *)

KeepsRows ==
    \A i \in Invoices : row[i] # NoRow =>
        /\ row'[i] # NoRow /\ row'[i].verdict = row[i].verdict
        /\ row'[i].anaf = "rejected" /\ row[i].verdict # "rejected" =>
               row[i].anaf = "rejected"
        /\ raised[i] \subseteq raised'[i]

LEMMA OtherSessions ==
    ASSUME KeepsRows, NEW v \in Workers, SessionFits(job[v]), job'[v] = job[v]
    PROVE  SessionFits(job[v])'
  BY DEF KeepsRows, SessionFits, CopyFits, AlertComes

\* The sessions that add an alert.
Adding(i, t) == {w \in Workers : <<i, t>> \in job[w].alerts}

LEMMA AddingIsFinite ==
    ASSUME NEW i, NEW t
    PROVE  /\ Adding(i, t) \subseteq Workers
           /\ Cardinality(Adding(i, t)) \in Nat /\ Cardinality(Workers) \in Nat
           /\ Cardinality(Adding(i, t)) <= Cardinality(Workers)
           /\ Adding(i, t) = {} => Cardinality(Adding(i, t)) = 0
           /\ Cardinality(Workers) >= 1
  <1>1. Adding(i, t) \subseteq Workers
    BY DEF Adding
  <1>2. Cardinality(Workers) \in Nat /\ Cardinality(Workers) # 0
    BY WorkersAreFinite, FS_CardinalityType, FS_EmptySet
  <1>3. QED
    BY <1>1, <1>2, WorkersAreFinite, PartIsSmaller, FS_EmptySet

LEMMA DuplicatesByAdding ==
    DuplicatesAreFew <=>
        \A i \in Invoices, t \in AlertTypes :
            open[i][t] + Cardinality(Adding(i, t)) <= Cardinality(Workers)
  BY DEF DuplicatesAreFew, Adding

LEMMA OpenType ==
    ASSUME TypeOK, NEW i \in Invoices, NEW t \in AlertTypes
    PROVE  open[i][t] \in Nat /\ raised[i] \subseteq AlertTypes
  BY DEF TypeOK

\* A step of one session that writes nothing; it adds an alert only if none is
\* open.
LEMMA OneSession ==
    ASSUME IInv, NEW w \in Workers, NEW j \in Job,
           job' = [job EXCEPT ![w] = j],
           row' = row, phase' = phase, open' = open, raised' = raised,
           SessionFits(j),
           \A i \in Invoices, t \in AlertTypes :
               <<i, t>> \in j.alerts =>
                   <<i, t>> \in job[w].alerts \/ open[i][t] = 0
    PROVE  IInv'
  <1> USE DEF IInv
  <1>1. TypeOK'
    BY DEF TypeOK
  <1>2. RowsFit' /\ ProblemIsRaised'
    BY DEF RowsFit, ProblemIsRaised, Imported, RejectionShows
  <1>3. /\ job'[w] = j
        /\ \A v \in Workers : v # w => job'[v] = job[v]
    BY DEF TypeOK
  <1>4. ASSUME NEW v \in Workers PROVE SessionFits(job[v])'
    <2>1. CASE v = w
      BY <2>1, <1>3 DEF SessionFits, CopyFits, AlertComes
    <2>2. CASE v # w
      BY <2>2, <1>3, OtherSessions DEF KeepsRows
    <2>3. QED
      BY <2>1, <2>2
  <1>5. ASSUME NEW i \in Invoices, NEW t \in AlertTypes
        PROVE  open'[i][t] + Cardinality(Adding(i, t)') <= Cardinality(Workers)
    <2> DEFINE A == Adding(i, t)
               B == Adding(i, t)'
    <2>1. A \in SUBSET Workers /\ B \in SUBSET Workers
      BY DEF Adding
    <2>2. \A v \in Workers : v # w => (v \in B <=> v \in A)
      BY <1>3 DEF Adding
    <2>3. w \in B <=> <<i, t>> \in j.alerts
      BY <1>3 DEF Adding
    <2>4. w \in A <=> <<i, t>> \in job[w].alerts
      BY DEF Adding
    <2>5. open[i][t] + Cardinality(A) <= Cardinality(Workers)
      BY DuplicatesByAdding
    <2>6. open[i][t] \in Nat /\ Cardinality(Workers) \in Nat
      BY OpenType, AddingIsFinite
    <2> HIDE DEF A, B
    <2>7. Cardinality(B) <= Cardinality(Workers)
      BY <2>1, WorkersAreFinite, PartIsSmaller
    <2>8. /\ Cardinality(A) \in Nat /\ Cardinality(B) \in Nat
          /\ (w \in A <=> w \in B) => B = A
          /\ w \notin B => Cardinality(B) <= Cardinality(A)
      BY <2>1, <2>2, WorkersAreFinite, OneMoves
    <2>9. open'[i][t] = open[i][t]
      OBVIOUS
    <2>10. w \in B /\ w \notin A => open'[i][t] + Cardinality(B) <= Cardinality(Workers)
      BY <2>3, <2>4, <2>6, <2>7, <2>8, <2>9
    <2>11. ~(w \in B /\ w \notin A) => Cardinality(B) <= Cardinality(A)
      BY <2>8
    <2>12. open'[i][t] + Cardinality(B) <= Cardinality(Workers)
      BY <2>5, <2>6, <2>8, <2>9, <2>10, <2>11
    <2>13. QED
      BY <2>12 DEF B
  <1>6. DuplicatesAreFew'
    BY <1>5 DEF DuplicatesAreFew, Adding
  <1>7. QED
    BY <1>1, <1>2, <1>4, <1>6

-----------------------------------------------------------------------------
(* One lemma per action.                                                   *)

\* A request begins: it knows the rows as they are, and has changed nothing or
\* marked its copies.
LEMMA RequestFits ==
    ASSUME IInv, NEW ids \in SUBSET Invoices, NEW j \in Job,
           \A i \in ids : row[i] # NoRow /\ j.image[i] # NoRow,
           \A i \in Invoices \ ids : j.image[i] = NoRow,
           j.alerts = {}, j.todo \subseteq ids, j.seen = Loaded(ids),
           j.todo # {} => j.kind = "sync",
           \A i \in ids :
               \/ j.image[i] = row[i]
               \/ /\ j.kind = "mark" /\ j.image[i].anaf = "pending"
                  /\ j.image[i].internal \in {"unsent", "pending"}
    PROVE  SessionFits(j)
  <1>1. TypeOK /\ RowsFit
    BY DEF IInv
  <1>2. \A i \in Invoices : j.seen[i] = IF i \in ids THEN row[i] ELSE NoRow
    BY <1>1, LoadedType
  <1>3. \A i \in ids : CopyFits(j, i)
    BY <1>2 DEF CopyFits
  <1>4. QED
    BY <1>1, <1>2, <1>3 DEF SessionFits, RowsFit

LEMMA BeginStep ==
    ASSUME IInv, NEW w \in Workers, NEW j \in Job,
           SessionFits(j), j.alerts = {}, Begin(w, j),
           UNCHANGED <<row, phase, open, raised>>
    PROVE  IInv'
  <1>1. job' = [job EXCEPT ![w] = j]
    BY DEF Begin
  <1>2. QED
    BY <1>1, OneSession

LEMMA SyncBeginStep ==
    ASSUME IInv, NEW w \in Workers, NEW ids \in SUBSET Imported,
           Begin(w, SyncRequest(ids)), UNCHANGED <<row, phase, open, raised>>
    PROVE  IInv'
  <1> DEFINE j == SyncRequest(ids)
  <1>1. TypeOK /\ ids \in SUBSET Invoices /\ \A i \in ids : row[i] # NoRow
    BY DEF Imported, IInv
  <1>2. \A i \in Invoices : Loaded(ids)[i] = IF i \in ids THEN row[i] ELSE NoRow
    BY <1>1, LoadedType
  <1>3. /\ j \in Job /\ j.alerts = {} /\ j.kind = "sync" /\ j.todo = ids
        /\ j.seen = Loaded(ids) /\ j.image = Loaded(ids)
    BY <1>1, SyncRequestType
  <1> HIDE DEF j
  <1>4. SessionFits(j)
    BY <1>1, <1>2, <1>3, RequestFits
  <1>5. Begin(w, j)
    BY DEF j
  <1>6. QED
    BY <1>3, <1>4, <1>5, BeginStep

LEMMA MarkBeginStep ==
    ASSUME IInv, NEW w \in Workers, NEW ids \in SUBSET Imported,
           NEW s \in {"unsent", "pending"},
           Begin(w, MarkRequest(ids, s)), UNCHANGED <<row, phase, open, raised>>
    PROVE  IInv'
  <1> DEFINE j == MarkRequest(ids, s)
  <1>1. TypeOK /\ ids \in SUBSET Invoices /\ \A i \in ids : row[i] # NoRow
    BY DEF Imported, IInv
  <1>2. /\ \A i \in Invoices \ ids : Marks(ids, s)[i] = NoRow
        /\ \A i \in ids : /\ Marks(ids, s)[i] # NoRow
                          /\ Marks(ids, s)[i].anaf = "pending"
                          /\ Marks(ids, s)[i].internal = s
    BY <1>1, MarksType, NoRowIsNone
  <1>3. /\ j \in Job /\ j.alerts = {} /\ j.kind = "mark" /\ j.todo = {}
        /\ j.seen = Loaded(ids) /\ j.image = Marks(ids, s)
    BY <1>1, MarkRequestType
  <1> HIDE DEF j
  <1>4. SessionFits(j)
    BY <1>1, <1>2, <1>3, RequestFits
  <1>5. Begin(w, j)
    BY DEF j
  <1>6. QED
    BY <1>3, <1>4, <1>5, BeginStep

\* A session after one turn of its loop.
Turned(j, i, new, missing) ==
    [j EXCEPT !.todo = @ \ {i}, !.image[i] = new,
              !.alerts = @ \cup ({i} \X missing)]

LEMMA TurnedType ==
    ASSUME NEW j \in Job, NEW i \in Invoices, NEW new \in InvoiceRow,
           NEW missing \in SUBSET AlertTypes
    PROVE  /\ Turned(j, i, new, missing) \in Job
           /\ Turned(j, i, new, missing).kind = j.kind
           /\ Turned(j, i, new, missing).todo = j.todo \ {i}
           /\ Turned(j, i, new, missing).seen = j.seen
           /\ Turned(j, i, new, missing).image = [j.image EXCEPT ![i] = new]
           /\ Turned(j, i, new, missing).alerts = j.alerts \cup ({i} \X missing)
  BY DEF Turned, Job

LEMMA SyncOneStep ==
    ASSUME IInv, NEW w \in Workers, NEW i \in Invoices, SyncOne(w, i)
    PROVE  IInv'
  <1> DEFINE seen == job[w].seen[i]
             new == Synced(seen, phase[i])
             missing == Missing(i, new)
             j == Turned(job[w], i, new, missing)
  <1>1. /\ TypeOK /\ job[w] \in Job /\ phase[i] \in Phases /\ SessionFits(job[w])
        /\ i \in job[w].todo
    BY DEF IInv, TypeOK, SyncOne
  <1>2. seen \in InvoiceRow /\ seen # NoRow
    BY <1>1, JobFields, NoRowIsNone DEF SessionFits
  <1>3. /\ new \in InvoiceRow /\ new.anaf = Answer(seen).status
        /\ new.internal = InternalStatus(new.anaf, phase[i])
    BY <1>1, <1>2, SyncedType
  <1>4. job' = [job EXCEPT ![w] = j]
    BY <1>1 DEF SyncOne, Turned, TypeOK
  <1> HIDE DEF seen, new
  <1>5. /\ missing \in SUBSET AlertTypes
        /\ \A t \in missing : open[i][t] = 0
        /\ new.internal \in Problems =>
               \/ ProblemAlert[new.internal] \in missing
               \/ ProblemAlert[new.internal] \in raised[i]
    <2>1. AlertsFor(new) \in SUBSET AlertTypes
      BY <1>3, AlertsForType
    <2>2. \A t \in AlertTypes : open[i][t] \in Nat /\ (open[i][t] > 0 => t \in raised[i])
      BY <1>1, OpenType DEF IInv, RowsFit
    <2>3. \A t \in AlertsFor(new) : t \in missing \/ t \in raised[i]
      BY <2>1, <2>2 DEF Missing
    <2>4. QED
      BY <1>3, <2>1, <2>3, AlertsForType DEF Missing
  <1> HIDE DEF missing
  <1>6. /\ j \in Job /\ j.kind = job[w].kind /\ j.todo = job[w].todo \ {i}
        /\ j.seen = job[w].seen /\ j.image = [job[w].image EXCEPT ![i] = new]
        /\ j.alerts = job[w].alerts \cup ({i} \X missing)
    BY <1>1, <1>3, <1>5, TurnedType
  <1> HIDE DEF j
  <1>7. j.kind = "sync"
    BY <1>1, <1>2, <1>6 DEF SessionFits, seen
  <1>8. /\ j.image[i] = new /\ j.seen[i] = seen
        /\ \A k \in Invoices : k # i => j.image[k] = job[w].image[k]
        /\ \A t \in missing : <<i, t>> \in j.alerts
        /\ \A k \in Invoices, t \in AlertTypes :
               k # i => (<<k, t>> \in j.alerts <=> <<k, t>> \in job[w].alerts)
    BY <1>1, <1>6 DEF Job, seen
  <1>9. SessionFits(j)
    <2>1. CopyFits(j, i)
      BY <1>1, <1>3, <1>5, <1>7, <1>8 DEF CopyFits, AlertComes
    <2>2. ASSUME NEW k \in Invoices, k # i
          PROVE  CopyFits(job[w], k) => CopyFits(j, k)
      BY <1>6, <1>8, <2>2, ProblemAlertType DEF CopyFits, AlertComes
    <2>3. QED
      BY <1>1, <1>2, <1>3, <1>6, <1>7, <1>8, <2>1, <2>2, NoRowIsNone DEF SessionFits
  <1>10. \A k \in Invoices, t \in AlertTypes :
            <<k, t>> \in j.alerts => <<k, t>> \in job[w].alerts \/ open[k][t] = 0
    BY <1>5, <1>6
  <1>11. QED
    BY <1>4, <1>6, <1>9, <1>10, OneSession DEF SyncOne

\* The commit of a session, seen from one invoice.
LEMMA CommitWrites ==
    ASSUME IInv, NEW w \in Workers, Commit(w), NEW i \in Invoices
    PROVE  LET j == job[w] IN
           \/ /\ j.seen[i] = NoRow /\ row'[i] = row[i]
              /\ \A t \in AlertTypes : <<i, t>> \notin j.alerts
           \/ /\ row[i] \in InvoiceRow /\ row'[i] \in InvoiceRow
              /\ j.seen[i] \in InvoiceRow /\ j.image[i] \in InvoiceRow
              /\ row[i] # NoRow /\ row'[i] # NoRow /\ j.image[i] # NoRow
              /\ row'[i].internal =
                     Written(row[i].internal, j.seen[i].internal, j.image[i].internal)
              /\ row'[i].anaf = Written(row[i].anaf, j.seen[i].anaf, j.image[i].anaf)
              /\ row'[i].verdict = row[i].verdict
              /\ row[i].verdict = j.seen[i].verdict
              /\ RejectionShows(j.seen[i]) /\ CopyFits(j, i)
              /\ row[i].anaf = "rejected" /\ row[i].verdict # "rejected" =>
                     j.seen[i].anaf = "rejected"
  <1> DEFINE j == job[w]
  <1>1. /\ j \in Job /\ SessionFits(j) /\ row[i] \in InvoiceRow \cup {NoRow}
        /\ row'[i] = Merged(row[i], j.seen[i], j.image[i])
    BY DEF IInv, TypeOK, Commit
  <1>2. /\ j.seen[i] \in InvoiceRow \cup {NoRow}
        /\ j.image[i] \in InvoiceRow \cup {NoRow}
    BY <1>1, JobFields
  <1> HIDE DEF j
  <1>3. CASE j.seen[i] = NoRow
    <2>1. j.image[i] = NoRow /\ \A t \in AlertTypes : <<i, t>> \notin j.alerts
      BY <1>1, <1>3 DEF SessionFits
    <2>2. row'[i] = row[i]
      BY <1>1, <1>3, <2>1, MergedNothing
    <2>3. QED
      BY <1>3, <2>1, <2>2 DEF j
  <1>4. CASE j.seen[i] # NoRow
    <2>1. /\ row[i] \in InvoiceRow /\ j.seen[i] \in InvoiceRow
          /\ j.image[i] \in InvoiceRow /\ row[i] # NoRow /\ j.image[i] # NoRow
          /\ row[i].verdict = j.seen[i].verdict
          /\ RejectionShows(j.seen[i]) /\ CopyFits(j, i)
          /\ row[i].anaf = "rejected" /\ row[i].verdict # "rejected" =>
                 j.seen[i].anaf = "rejected"
      BY <1>1, <1>2, <1>4 DEF SessionFits
    <2>2. /\ row'[i] \in InvoiceRow
          /\ row'[i].internal =
                 Written(row[i].internal, j.seen[i].internal, j.image[i].internal)
          /\ row'[i].anaf = Written(row[i].anaf, j.seen[i].anaf, j.image[i].anaf)
          /\ row'[i].verdict = row[i].verdict
      BY <1>1, <2>1, MergedType
    <2>3. row'[i] # NoRow
      BY <2>2, NoRowIsNone
    <2>4. QED
      BY <2>1, <2>2, <2>3 DEF j
  <1>5. QED
    BY <1>3, <1>4

\* What a synchronisation makes of a copy it changes.
LEMMA SyncedStatus ==
    ASSUME NEW j \in Job, NEW i \in Invoices,
           j.seen[i] \in InvoiceRow, CopyFits(j, i), j.kind # "mark",
           \/ j.image[i].internal # j.seen[i].internal
           \/ j.image[i].anaf # j.seen[i].anaf
    PROVE  /\ j.image[i].anaf = Answer(j.seen[i]).status
           /\ j.image[i].anaf \in Verdicts
           /\ j.image[i].anaf \in {"validated", "rejected"} =>
                  j.image[i].internal = j.image[i].anaf
           /\ j.seen[i].anaf = "rejected" => j.image[i].anaf = "rejected"
           /\ j.seen[i].anaf # "rejected" => j.image[i].anaf = j.seen[i].verdict
  <1>1. PICK when \in Phases :
            /\ j.image[i].anaf = Answer(j.seen[i]).status
            /\ j.image[i].internal = InternalStatus(j.image[i].anaf, when)
    BY DEF CopyFits
  <1>2. /\ j.image[i].anaf \in Verdicts
        /\ j.seen[i].anaf = "rejected" => j.image[i].anaf = "rejected"
        /\ j.seen[i].anaf # "rejected" => j.image[i].anaf = j.seen[i].verdict
    BY <1>1, AnswerType
  <1>3. j.image[i].anaf \in AnafStatuses
    BY <1>2 DEF AnafStatuses
  <1>4. QED
    BY <1>1, <1>2, <1>3, InternalStatusType

LEMMA CommitKeeps ==
    ASSUME IInv, NEW w \in Workers, Commit(w), NEW i \in Invoices
    PROVE  /\ row'[i] \in InvoiceRow \cup {NoRow}
           /\ raised[i] \subseteq raised'[i]
           /\ row[i] # NoRow =>
                 /\ row'[i] # NoRow /\ row'[i].verdict = row[i].verdict
                 /\ row'[i].anaf = "rejected" /\ row[i].verdict # "rejected" =>
                        row[i].anaf = "rejected"
           /\ RejectionShows(row'[i])
           /\ row'[i] # NoRow /\ row'[i].internal \in Problems =>
                  ProblemAlert[row'[i].internal] \in raised'[i]
  <1> DEFINE j == job[w]
  <1>1. /\ j \in Job /\ TypeOK /\ RejectionShows(row[i])
        /\ row[i] # NoRow /\ row[i].internal \in Problems =>
               ProblemAlert[row[i].internal] \in raised[i]
        /\ raised'[i] = raised[i] \cup {t \in AlertTypes : <<i, t>> \in j.alerts}
    BY DEF IInv, TypeOK, Commit, RowsFit, ProblemIsRaised, Imported
  <1>2. raised[i] \subseteq raised'[i]
    BY <1>1
  <1>3. CASE j.seen[i] = NoRow /\ row'[i] = row[i]
    BY <1>1, <1>2, <1>3 DEF TypeOK
  <1>4. CASE /\ row[i] \in InvoiceRow /\ row'[i] \in InvoiceRow
             /\ j.seen[i] \in InvoiceRow /\ j.image[i] \in InvoiceRow
             /\ row[i] # NoRow /\ row'[i] # NoRow /\ j.image[i] # NoRow
             /\ row'[i].internal =
                    Written(row[i].internal, j.seen[i].internal, j.image[i].internal)
             /\ row'[i].anaf = Written(row[i].anaf, j.seen[i].anaf, j.image[i].anaf)
             /\ row'[i].verdict = row[i].verdict
             /\ row[i].verdict = j.seen[i].verdict
             /\ RejectionShows(j.seen[i]) /\ CopyFits(j, i)
             /\ row[i].anaf = "rejected" /\ row[i].verdict # "rejected" =>
                    j.seen[i].anaf = "rejected"
    <2> DEFINE seen == j.seen[i]
               new == j.image[i]
    <2> HIDE DEF j
    <2>1. \/ new.internal = seen.internal /\ new.anaf = seen.anaf
          \/ /\ j.kind = "mark" /\ new.internal \in {"unsent", "pending"}
             /\ new.anaf = "pending"
          \/ /\ new.anaf = Answer(seen).status
             /\ seen.anaf = "rejected" => new.anaf = "rejected"
             /\ seen.anaf # "rejected" => new.anaf = seen.verdict
             /\ new.anaf = "rejected" => new.internal = "rejected"
             /\ new.internal \in Problems => AlertComes(j, i, ProblemAlert[new.internal])
      BY <1>1, <1>4, SyncedStatus DEF CopyFits
    <2>2. row'[i].anaf = "rejected" /\ row[i].verdict # "rejected" =>
              row[i].anaf = "rejected"
      BY <1>4, <2>1 DEF Written
    <2>3. RejectionShows(row'[i])
      BY <1>1, <1>4, <2>1 DEF Written, RejectionShows
    <2>4. row'[i].internal \in Problems => ProblemAlert[row'[i].internal] \in raised'[i]
      <3>1. "unsent" \notin Problems /\ "pending" \notin Problems
        BY DEF Problems, ProblemAlert
      <3>2. CASE new.internal = seen.internal
        BY <1>1, <1>2, <1>4, <3>2 DEF Written
      <3>3. CASE new.internal # seen.internal
        BY <1>1, <1>4, <2>1, <3>1, <3>3, ProblemAlertType DEF Written, AlertComes
      <3>4. QED
        BY <3>2, <3>3
    <2>5. QED
      BY <1>2, <1>4, <2>2, <2>3, <2>4
  <1>5. QED
    BY <1>3, <1>4, CommitWrites

LEMMA CommitStep ==
    ASSUME IInv, NEW w \in Workers, Commit(w)
    PROVE  IInv'
  <1> DEFINE j == job[w]
  <1>1. TypeOK /\ DuplicatesAreFew /\ j \in Job
    BY DEF IInv, TypeOK
  <1>2. /\ job'[w] = Idle
        /\ \A v \in Workers : v # w => job'[v] = job[v]
        /\ job' \in [Workers -> Job]
    BY <1>1, IdleFits DEF Commit, TypeOK
  <1>3. /\ row' \in [Invoices -> InvoiceRow \cup {NoRow}]
        /\ raised' \in [Invoices -> SUBSET AlertTypes]
        /\ phase' = phase
    BY <1>1, CommitKeeps DEF Commit, TypeOK
  <1>4. /\ open' \in [Invoices -> [AlertTypes -> Nat]]
        /\ \A i \in Invoices, t \in AlertTypes :
               /\ open'[i][t] = open[i][t] + IF <<i, t>> \in j.alerts THEN 1 ELSE 0
               /\ raised[i] \subseteq raised'[i]
               /\ <<i, t>> \in j.alerts => t \in raised'[i]
    BY <1>1 DEF Commit, TypeOK
  <1>5. TypeOK'
    BY <1>1, <1>2, <1>3, <1>4 DEF TypeOK
  <1>6. RowsFit'
    <2>1. ASSUME NEW i \in Invoices, NEW t \in AlertTypes, open'[i][t] > 0
          PROVE  t \in raised'[i]
      <3>1. open[i][t] \in Nat /\ (open[i][t] > 0 => t \in raised[i])
        BY <1>1, OpenType DEF IInv, RowsFit
      <3>2. open[i][t] > 0 \/ <<i, t>> \in j.alerts
        BY <1>4, <2>1, <3>1
      <3>3. QED
        BY <1>4, <3>1, <3>2
    <2>2. QED
      BY <2>1, CommitKeeps DEF RowsFit
  <1>7. ProblemIsRaised'
    BY CommitKeeps DEF ProblemIsRaised, Imported
  <1>8. ASSUME NEW v \in Workers PROVE SessionFits(job[v])'
    <2>1. KeepsRows
      BY CommitKeeps DEF KeepsRows
    <2>2. CASE v = w
      <3>1. \A i \in Invoices : Idle.seen[i] = NoRow /\ Idle.image[i] = NoRow
        BY DEF Idle, Nothing
      <3>2. QED
        BY <1>2, <2>2, <3>1, IdleFits DEF SessionFits
    <2>3. CASE v # w
      BY <1>2, <2>1, <2>3, OtherSessions DEF IInv
    <2>4. QED
      BY <2>2, <2>3
  <1>9. ASSUME NEW i \in Invoices, NEW t \in AlertTypes
        PROVE  open'[i][t] + Cardinality(Adding(i, t)') <= Cardinality(Workers)
    <2> DEFINE A == Adding(i, t)
               B == Adding(i, t)'
    <2>1. A \in SUBSET Workers /\ B \in SUBSET Workers
      BY DEF Adding
    <2>2. \A v \in Workers : v # w => (v \in B <=> v \in A)
      BY <1>2 DEF Adding
    <2>3. w \notin B /\ (w \in A <=> <<i, t>> \in j.alerts)
      BY <1>2, IdleFits DEF Adding
    <2>4. open[i][t] + Cardinality(A) <= Cardinality(Workers)
      BY <1>1, DuplicatesByAdding
    <2>5. open[i][t] \in Nat /\ Cardinality(Workers) \in Nat
      BY <1>1, OpenType, AddingIsFinite
    <2>6. open'[i][t] = open[i][t] + IF <<i, t>> \in j.alerts THEN 1 ELSE 0
      BY <1>4
    <2> HIDE DEF A, B
    <2>7. /\ Cardinality(A) \in Nat /\ Cardinality(B) \in Nat
          /\ w \notin B /\ w \in A => Cardinality(B) = Cardinality(A) - 1
          /\ w \notin B => Cardinality(B) <= Cardinality(A)
      BY <2>1, <2>2, WorkersAreFinite, OneMoves
    <2>8. open'[i][t] + Cardinality(B) <= Cardinality(Workers)
      BY <2>3, <2>4, <2>5, <2>6, <2>7
    <2>9. QED
      BY <2>8 DEF B
  <1>10. DuplicatesAreFew'
    BY <1>9 DEF DuplicatesAreFew, Adding
  <1>11. QED
    BY <1>5, <1>6, <1>7, <1>8, <1>10 DEF IInv

\* Nobody knows of an invoice before it is there.
LEMMA ImportStep ==
    ASSUME IInv, NEW i \in Invoices, NEW file \in Files, Import(i, file)
    PROVE  IInv'
  <1> DEFINE r == [internal |-> InternalStatus(file.anaf, phase[i]),
                   anaf |-> file.anaf, message |-> file.message,
                   verdict |-> file.verdict]
  <1>1. /\ TypeOK /\ row[i] = NoRow /\ job' = job /\ phase' = phase
        /\ row' = [row EXCEPT ![i] = r]
        /\ raised' = [raised EXCEPT ![i] = AlertsFor(r)]
        /\ open' = [open EXCEPT ![i] =
                       [t \in AlertTypes |-> IF t \in AlertsFor(r) THEN 1 ELSE 0]]
    BY DEF IInv, Import
  <1>2. r \in InvoiceRow /\ RejectionShows(r)
    BY <1>1, ImportedType DEF TypeOK
  <1> HIDE DEF r
  <1>3. /\ AlertsFor(r) \in SUBSET AlertTypes
        /\ r.internal \in Problems => ProblemAlert[r.internal] \in AlertsFor(r)
        /\ r # NoRow
    BY <1>2, AlertsForType, NoRowIsNone
  <1>4. TypeOK'
    BY <1>1, <1>2, <1>3 DEF TypeOK
  <1>5. /\ row'[i] = r /\ raised'[i] = AlertsFor(r)
        /\ \A t \in AlertTypes : open'[i][t] = IF t \in AlertsFor(r) THEN 1 ELSE 0
        /\ \A k \in Invoices : k # i => /\ row'[k] = row[k] /\ raised'[k] = raised[k]
                                       /\ open'[k] = open[k]
    BY <1>1 DEF TypeOK
  <1>6. RowsFit' /\ ProblemIsRaised'
    BY <1>2, <1>3, <1>5 DEF IInv, RowsFit, ProblemIsRaised, Imported
  <1>7. KeepsRows
    BY <1>1, <1>5 DEF KeepsRows
  <1>8. \A v \in Workers : SessionFits(job[v])'
    BY <1>1, <1>7, OtherSessions DEF IInv
  <1>9. DuplicatesAreFew'
    <2>1. ASSUME NEW k \in Invoices, NEW t \in AlertTypes
          PROVE  open'[k][t] + Cardinality(Adding(k, t)) <= Cardinality(Workers)
      <3>1. CASE k # i
        BY <1>5, <3>1, DuplicatesByAdding DEF IInv
      <3>2. CASE k = i
        <4>1. \A v \in Workers : job[v].seen[i] = NoRow
          BY <1>1 DEF IInv, SessionFits
        <4>2. Adding(i, t) = {}
          BY <4>1 DEF Adding, IInv, SessionFits
        <4>3. Cardinality(Adding(i, t)) = 0 /\ Cardinality(Workers) \in Nat
              /\ Cardinality(Workers) >= 1
          BY <4>2, AddingIsFinite
        <4>4. open'[i][t] \in {0, 1}
          BY <1>5
        <4>5. QED
          BY <3>2, <4>3, <4>4
      <3>3. QED
        BY <3>1, <3>2
    <2>2. QED
      BY <1>1, <2>1 DEF DuplicatesAreFew, Adding
  <1>10. QED
    BY <1>4, <1>6, <1>8, <1>9 DEF IInv

\* Alerts are resolved, and nothing else happens.
LEMMA Resolving ==
    ASSUME IInv, row' = row, phase' = phase, raised' = raised, job' = job,
           open' \in [Invoices -> [AlertTypes -> Nat]],
           \A i \in Invoices, t \in AlertTypes : open'[i][t] <= open[i][t]
    PROVE  IInv'
  <1>1. TypeOK /\ TypeOK'
    BY DEF IInv, TypeOK
  <1>2. \A i \in Invoices, t \in AlertTypes :
            open[i][t] \in Nat /\ open'[i][t] \in Nat
    BY <1>1, OpenType DEF TypeOK
  <1>3. RowsFit' /\ ProblemIsRaised'
    BY <1>2 DEF IInv, RowsFit, ProblemIsRaised, Imported
  <1>4. \A v \in Workers : SessionFits(job[v])'
    BY OtherSessions DEF IInv, KeepsRows
  <1>5. DuplicatesAreFew'
    <2>1. ASSUME NEW i \in Invoices, NEW t \in AlertTypes
          PROVE  open'[i][t] + Cardinality(Adding(i, t)) <= Cardinality(Workers)
      <3>1. open[i][t] + Cardinality(Adding(i, t)) <= Cardinality(Workers)
        BY DuplicatesByAdding DEF IInv
      <3>2. Cardinality(Adding(i, t)) \in Nat /\ Cardinality(Workers) \in Nat
        BY AddingIsFinite
      <3>3. QED
        BY <1>2, <3>1, <3>2
    <2>2. QED
      BY <2>1 DEF DuplicatesAreFew, Adding
  <1>6. QED
    BY <1>1, <1>3, <1>4, <1>5 DEF IInv

LEMMA ResolveAlertStep ==
    ASSUME IInv, NEW i \in Invoices, NEW t \in AlertTypes, ResolveAlert(i, t)
    PROVE  IInv'
  <1>1. open \in [Invoices -> [AlertTypes -> Nat]] /\ open[i][t] \in Nat
    BY DEF IInv, TypeOK
  <1>2. /\ open' = [open EXCEPT ![i][t] = @ - 1] /\ open[i][t] - 1 \in Nat
    BY <1>1 DEF ResolveAlert
  <1>3. open' \in [Invoices -> [AlertTypes -> Nat]]
    BY <1>1, <1>2
  <1>4. \A k \in Invoices, u \in AlertTypes : open'[k][u] <= open[k][u]
    BY <1>1, <1>2
  <1>5. QED
    BY <1>3, <1>4, Resolving DEF ResolveAlert

LEMMA ResolveRelatedStep ==
    ASSUME IInv, NEW ids \in SUBSET Invoices, ResolveRelated(ids)
    PROVE  IInv'
  <1>1. open \in [Invoices -> [AlertTypes -> Nat]]
    BY DEF IInv, TypeOK
  <1>2. /\ open' \in [Invoices -> [AlertTypes -> Nat]]
        /\ \A k \in Invoices, u \in AlertTypes : open'[k][u] <= open[k][u]
    BY <1>1 DEF ResolveRelated
  <1>3. QED
    BY <1>2, Resolving DEF ResolveRelated

LEMMA DayPassesStep ==
    ASSUME IInv, NEW i \in Invoices, DayPasses(i)
    PROVE  IInv'
  <1>1. TypeOK'
    BY DEF IInv, TypeOK, DayPasses, Phases
  <1>2. RowsFit' /\ ProblemIsRaised' /\ DuplicatesAreFew'
    BY DEF IInv, RowsFit, ProblemIsRaised, DuplicatesAreFew, Imported, DayPasses
  <1>3. \A v \in Workers : SessionFits(job[v])'
    BY OtherSessions DEF IInv, KeepsRows, DayPasses
  <1>4. QED
    BY <1>1, <1>2, <1>3 DEF IInv

LEMMA AbortStep ==
    ASSUME IInv, NEW w \in Workers, Abort(w)
    PROVE  IInv'
  BY IdleFits, OneSession DEF Abort

LEMMA StutterStep ==
    ASSUME IInv, UNCHANGED vars
    PROVE  IInv'
  <1>1. TypeOK' /\ RowsFit' /\ ProblemIsRaised' /\ DuplicatesAreFew'
    BY DEF IInv, TypeOK, RowsFit, ProblemIsRaised, DuplicatesAreFew, Imported, vars
  <1>2. \A v \in Workers : SessionFits(job[v])'
    BY OtherSessions DEF IInv, KeepsRows, vars
  <1>3. QED
    BY <1>1, <1>2 DEF IInv

LEMMA NextIInv == IInv /\ [Next]_vars => IInv'
  <1> SUFFICES ASSUME IInv, [Next]_vars PROVE IInv'
    OBVIOUS
  <1>1. ASSUME NEW i \in Invoices, DayPasses(i) PROVE IInv'
    BY <1>1, DayPassesStep
  <1>2. ASSUME NEW i \in Invoices, NEW file \in Files, Import(i, file) PROVE IInv'
    BY <1>2, ImportStep
  <1>3. ASSUME NEW i \in Invoices, NEW t \in AlertTypes, ResolveAlert(i, t)
        PROVE  IInv'
    BY <1>3, ResolveAlertStep
  <1>4. ASSUME NEW ids \in SUBSET Invoices, ResolveRelated(ids) PROVE IInv'
    BY <1>4, ResolveRelatedStep
  <1>5. ASSUME NEW w \in Workers, SweepBegin(w) PROVE IInv'
    <2> DEFINE ids == {i \in Imported : row[i].internal # "validated"}
    <2>1. /\ Begin(w, SyncRequest(ids)) /\ UNCHANGED <<row, phase, open, raised>>
          /\ ids \in SUBSET Imported
      BY <1>5 DEF SweepBegin, SyncRequest
    <2>2. QED
      BY <2>1, SyncBeginStep
  <1>6. ASSUME NEW w \in Threads, NEW ids \in SUBSET Invoices, SyncBegin(w, ids)
        PROVE  IInv'
    <2>1. /\ Begin(w, SyncRequest(ids)) /\ UNCHANGED <<row, phase, open, raised>>
          /\ ids \in SUBSET Imported
      BY <1>6 DEF SyncBegin, SyncRequest
    <2>2. QED
      BY <2>1, SyncBeginStep
  <1>7. ASSUME UserMarks PROVE IInv'
    <2>1. PICK w \in Threads, ids \in SUBSET Invoices, s \in {"unsent", "pending"} :
              MarkBegin(w, ids, s)
      BY <1>7 DEF UserMarks
    <2>2. /\ Begin(w, MarkRequest(ids, s)) /\ UNCHANGED <<row, phase, open, raised>>
          /\ ids \in SUBSET Imported
      BY <2>1 DEF MarkBegin, MarkRequest, Marks
    <2>3. QED
      BY <2>2, MarkBeginStep
  <1>8. ASSUME NEW w \in Workers, Work(w) PROVE IInv'
    BY <1>8, CommitStep, SyncOneStep DEF Work
  <1>9. ASSUME NEW w \in Workers, Abort(w) PROVE IInv'
    BY <1>9, AbortStep
  <1>10. CASE UNCHANGED vars
    BY <1>10, StutterStep
  <1>11. QED
    BY <1>1, <1>2, <1>3, <1>4, <1>5, <1>6, <1>7, <1>8, <1>9, <1>10 DEF Next

LEMMA InitIInv == Init => IInv
  <1> SUFFICES ASSUME Init PROVE IInv
    OBVIOUS
  <1>1. TypeOK
    BY IdleFits DEF Init, TypeOK, Phases
  <1>2. RowsFit /\ ProblemIsRaised
    BY NoRowIsNone DEF Init, RowsFit, ProblemIsRaised, Imported
  <1>3. \A w \in Workers : SessionFits(job[w])
    BY IdleFits DEF Init
  <1>4. DuplicatesAreFew
    <2>1. ASSUME NEW i \in Invoices, NEW t \in AlertTypes
          PROVE  open[i][t] + Cardinality(Adding(i, t)) <= Cardinality(Workers)
      <3>1. open[i][t] = 0 /\ \A w \in Workers : job[w].alerts = {}
        BY IdleFits DEF Init
      <3>2. Adding(i, t) = {}
        BY <3>1 DEF Adding
      <3>3. Cardinality(Adding(i, t)) = 0 /\ Cardinality(Workers) \in Nat
        BY <3>2, AddingIsFinite
      <3>4. QED
        BY <3>1, <3>3
    <2>2. QED
      BY <2>1, DuplicatesByAdding
  <1>5. QED
    BY <1>1, <1>2, <1>3, <1>4 DEF IInv

\* The inductive invariant holds of every number of invoices and sessions.
THEOREM Invariance == Spec => []IInv
  BY InitIInv, NextIInv, PTL DEF Spec

\* The columns, the alerts and the sessions hold what the code may write.
THEOREM TypeCorrect == Spec => []TypeOK
  <1>1. IInv => TypeOK
    BY DEF IInv
  <1>2. QED
    BY <1>1, Invariance, PTL

\* An invoice that shows a problem has had the alert of that problem, whichever
\* sessions wrote the one and the other.
THEOREM ProblemRaised == Spec => []ProblemIsRaised
  <1>1. IInv => ProblemIsRaised
    BY DEF IInv
  <1>2. QED
    BY <1>1, Invariance, PTL

\* There are never more open alerts of one type for one invoice than there are
\* sessions at once.
THEOREM DuplicatesFew == Spec => []DuplicatesAreFew
  <1>1. IInv => DuplicatesAreFew
    BY DEF IInv
  <1>2. QED
    BY <1>1, Invariance, PTL

-----------------------------------------------------------------------------
(* What ANAF decided.                                                      *)

\* The body of VerdictIsKept.
DecidedRow(i) ==
    /\ row[i].internal = row[i].verdict
    /\ row[i].internal \in {"validated", "rejected"}

LEMMA CommitKeepsVerdict ==
    ASSUME IInv, NEW w \in Workers, Commit(w), NEW i \in Imported,
           DecidedRow(i), row'[i].internal # row[i].internal
    PROVE  /\ job[w].kind = "mark" /\ job[w].image[i] # NoRow
           /\ job'[w] = Idle
  <1> DEFINE j == job[w]
  <1>1. i \in Invoices /\ row[i] # NoRow
    BY DEF Imported
  <1>2. j \in Job /\ job'[w] = Idle
    BY DEF IInv, TypeOK, Commit
  <1>3. row'[i] # row[i]
    OBVIOUS
  <1> HIDE DEF j
  <1>4. /\ j.seen[i] \in InvoiceRow /\ j.image[i] # NoRow
        /\ row'[i].internal =
               Written(row[i].internal, j.seen[i].internal, j.image[i].internal)
        /\ row[i].verdict = j.seen[i].verdict
        /\ RejectionShows(j.seen[i]) /\ CopyFits(j, i)
    BY <1>1, <1>3, CommitWrites DEF j
  <1>5. /\ j.image[i].internal # j.seen[i].internal
        /\ row'[i].internal = j.image[i].internal
    BY <1>4 DEF Written
  <1>6. ASSUME j.kind # "mark" PROVE FALSE
    <2>1. /\ j.image[i].anaf \in {"validated", "rejected"} =>
                 j.image[i].internal = j.image[i].anaf
          /\ j.seen[i].anaf = "rejected" => j.image[i].anaf = "rejected"
          /\ j.seen[i].anaf # "rejected" => j.image[i].anaf = j.seen[i].verdict
      BY <1>1, <1>2, <1>4, <1>5, <1>6, SyncedStatus
    <2>2. /\ row[i].internal = j.seen[i].verdict
          /\ row[i].internal \in {"validated", "rejected"}
          /\ j.image[i].internal # row[i].internal
      BY <1>4, <1>5 DEF DecidedRow
    <2>3. CASE j.seen[i].anaf = "rejected"
      <3>1. j.seen[i].verdict # "rejected" => j.seen[i].internal = "rejected"
        BY <1>4, <2>3 DEF RejectionShows
      <3>2. QED
        BY <1>5, <2>1, <2>2, <2>3, <3>1
    <2>4. CASE j.seen[i].anaf # "rejected"
      BY <2>1, <2>2, <2>4
    <2>5. QED
      BY <2>3, <2>4
  <1>7. QED
    BY <1>2, <1>4, <1>6 DEF j

\* Nothing but a user's mark takes back what ANAF decided, however old the copy
\* is that a sweep commits.
THEOREM VerdictKept == Spec => VerdictIsKept
  <1>1. ASSUME IInv, [Next]_vars, NEW i \in Imported, DecidedRow(i),
               row'[i].internal # row[i].internal
        PROVE  \E w \in Workers : /\ job[w].kind = "mark"
                                  /\ job[w].image[i] # NoRow
                                  /\ job'[w] = Idle
    <2>1. i \in Invoices /\ row[i] # NoRow /\ row'[i] # row[i]
      BY <1>1 DEF Imported
    <2>2. ASSUME NEW k \in Invoices, NEW file \in Files, Import(k, file)
          PROVE  FALSE
      BY <1>1, <2>1, <2>2 DEF Import, IInv, TypeOK
    <2>3. \E w \in Workers : Commit(w)
      BY <1>1, <2>1, <2>2 DEF Next, vars, DayPasses, ResolveAlert, ResolveRelated,
         SweepBegin, SyncBegin, UserMarks, MarkBegin, Work, SyncOne, Abort
    <2>4. QED
      BY <1>1, <2>3, CommitKeepsVerdict
  <1>2. IInv /\ [Next]_vars =>
            [\A i \in Imported :
                /\ row[i].internal = row[i].verdict
                /\ row[i].internal \in {"validated", "rejected"}
                /\ row'[i].internal # row[i].internal
                => \E w \in Workers : /\ job[w].kind = "mark"
                                      /\ job[w].image[i] # NoRow
                                      /\ job'[w] = Idle]_vars
    BY <1>1 DEF DecidedRow
  <1>3. QED
    BY <1>2, Invariance, PTL DEF Spec, VerdictIsKept
=============================================================================
