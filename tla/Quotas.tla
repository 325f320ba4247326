------------------------------- MODULE Quotas -------------------------------
(***************************************************************************)
(* What the plan of an organisation allows: backend/app/billing.py and the *)
(* handlers that count before they add (main.py), the storage of documents *)
(* (file_storage.py), and the ways by which documents and invoices come in *)
(* that count nothing: ANAF's responses (anaf_download_service.py) and the *)
(* public API.                                                             *)
(*                                                                         *)
(* The upload handlers are coroutines that do not yield between the count  *)
(* and the commit, so the event loop runs them one after the other; the    *)
(* other handlers run on threads.                                          *)
(***************************************************************************)
EXTENDS Naturals, FiniteSets, FiniteSetsExt

CONSTANTS
    Organizations,   \* bound: ids that organisations of one owner may get
    Home,            \* the organisation whose documents are looked at
    Plans,           \* plan codes, with "one" for a new organisation
    MaxOrganizations, MaxInvoices, MaxDocuments,   \* what each plan allows
    Documents,       \* bound: ids that documents may get
    Paths,           \* places in the storage
    Threads,         \* threads of the pool
    Loop,            \* the event loop
    MaxBatch,        \* bound: invoices of one file
    MaxApi           \* bound: invoices through the public API

VARIABLES
    plan,       \* plan of each organisation, "none" if there is none
    had,        \* plans that the owner's organisations have had
    content,    \* the document whose content a place holds
    stored,     \* rows of documents: their type and place
    response,   \* anaf_response_document_id of an invoice
    imported,   \* invoices of this month from files
    received,   \* invoices of this month through the public API
    job         \* per worker, the session of the request it is serving

quotasVars == <<plan, had, content, stored, response, imported, received, job>>

-----------------------------------------------------------------------------
(* Rows and sessions.                                                      *)

NoDocument == 0
NoPath == "none"
Workers == Threads \cup {Loop}
DocumentTypes == {"invoice_import", "generic", "anaf_response"}
DocumentRow == [type: DocumentTypes, path: Paths]
NoRow == [type |-> "none", path |-> NoPath]

ASSUME OwnerAssumption ==
    IsFiniteSet(Organizations) /\ Organizations \subseteq Nat /\ Home \in Organizations
ASSUME WorkersAssumption ==
    IsFiniteSet(Threads) /\ Threads # {} /\ Loop \notin Threads
ASSUME PlansAssumption ==
    /\ "one" \in Plans /\ "none" \notin Plans /\ IsFiniteSet(Plans)
    /\ \A limit \in {MaxOrganizations, MaxInvoices, MaxDocuments} :
          limit \in [Plans -> Nat]
ASSUME StorageAssumption ==
    /\ IsFiniteSet(Documents) /\ Documents \subseteq Nat \ {NoDocument}
    /\ NoPath \notin Paths
    /\ MaxBatch \in Nat /\ MaxApi \in Nat

Owned == {o \in Organizations : plan[o] # "none"}
Held == {d \in Documents : stored[d] # NoRow}
Saved == {d \in Documents : \E p \in Paths : content[p] = d}
Begun == {job[w].adds : w \in {v \in Workers : job[v].kind = "create"}}

\* The ids that rows get next.
NextDocument == 1 + Max({0} \cup Held \cup Saved)
NextOrganization == 1 + Max({0} \cup Owned \cup Begun)

\* plan: the subscription as the session loaded it; adds: what it inserts.
Idle == [kind |-> "idle", step |-> "idle", plan |-> "none", path |-> NoPath,
         adds |-> NoDocument, count |-> 0]
Job == [kind: {"idle", "create"} \cup DocumentTypes,
        step: {"idle", "saved", "ready"},
        plan: Plans \cup {"none"}, path: Paths \cup {NoPath},
        adds: Documents \cup Organizations \cup {NoDocument},
        count: 0..MaxBatch]

QuotasInit ==
    /\ plan = [o \in Organizations |-> IF o = Home THEN "one" ELSE "none"]
    /\ had = {"one"}
    /\ content = [p \in Paths |-> NoDocument]
    /\ stored = [d \in Documents |-> NoRow]
    /\ response = NoDocument
    /\ imported = 0 /\ received = 0
    /\ job = [w \in Workers |-> Idle]

-----------------------------------------------------------------------------
(* Organisations and plans.                                                *)

\* A defect: as many organisations as the limit may be there already.
BadMayCreate ==
    Cardinality(Owned) <= Max({1} \cup {MaxOrganizations[plan[o]] : o \in Owned})

\* assert_can_create_organization: the best plan of the owner's organisations
\* counts; who owns none may always create one.
MayCreate ==
    Cardinality(Owned) < Max({1} \cup {MaxOrganizations[plan[o]] : o \in Owned})

\* create_organization, up to its commit.
CreateOrganization(w) ==
    /\ w \in Threads /\ job[w] = Idle
    /\ NextOrganization \in Organizations /\ MayCreate
    /\ job' = [job EXCEPT ![w] =
                  [Idle EXCEPT !.kind = "create", !.step = "ready",
                               !.adds = NextOrganization]]
    /\ UNCHANGED <<plan, had, content, stored, response, imported, received>>

\* update_subscription_plan, for a payment or by the owner: any plan, whatever
\* is there already.
UpdatePlan(code) ==
    /\ plan' = [plan EXCEPT ![Home] = code]
    /\ had' = had \cup {code}
    /\ UNCHANGED <<content, stored, response, imported, received, job>>

-----------------------------------------------------------------------------
(* Documents.                                                              *)

\* A defect: a place is named after the file that is uploaded.
BadFreePaths == Paths

\* StorageBackend.save, local or S3: the name is a fresh uuid; which of them
\* makes no difference.
FreePaths ==
    LET free == {p \in Paths : content[p] = NoDocument}
    IN {p \in free : p = CHOOSE q \in free : TRUE}

\* store_upload_file: the content is saved first, outside the transaction,
\* then the row is flushed.
StoreUploadFile(w, p, type) ==
    /\ job[w] = Idle
    /\ NextDocument \in Documents /\ p \in FreePaths
    /\ content' = [content EXCEPT ![p] = NextDocument]
    /\ job' = [job EXCEPT ![w] =
                  [Idle EXCEPT !.kind = type, !.path = p,
                      !.adds = NextDocument,
                      !.plan = plan[Home],
                      !.step = IF type = "invoice_import" THEN "saved"
                                                          ELSE "ready"]]
    /\ UNCHANGED <<plan, had, stored, response, imported, received>>

\* A defect: the upload handlers run on threads, as plain functions do.
BadServedBy(w, type) == TRUE

\* async def upload_invoices, upload_organization_document; def for the rest.
ServedBy(w, type) == w = Loop <=> type # "anaf_response"

\* assert_can_store_document, then the file: upload_organization_document and
\* the first half of upload_invoices.
Upload(w, p, type) ==
    /\ type \in {"invoice_import", "generic"} /\ ServedBy(w, type)
    /\ Cardinality(Held) + 1 <= MaxDocuments[plan[Home]]
    /\ StoreUploadFile(w, p, type)

\* download_anaf_response_zip, after ANAF's answer: no limit is asked for.
Download(w, p) ==
    /\ ServedBy(w, "anaf_response")
    /\ StoreUploadFile(w, p, "anaf_response")

\* assert_can_import_invoices, for the n invoices that were read from the file
\* (of a ZIP, those of its files that could be read), of which some are issued
\* this month: the rows of this month are counted anew, the plan is that of
\* the subscription as loaded before.
Import(w, n, dated) ==
    /\ job[w].kind = "invoice_import" /\ job[w].step = "saved"
    /\ imported + received + n <= MaxInvoices[job[w].plan]
    /\ job' = [job EXCEPT ![w].step = "ready", ![w].count = dated]
    /\ UNCHANGED <<plan, had, content, stored, response, imported, received>>

\* public_api_create_invoice.
ApiInvoice ==
    /\ received < MaxApi
    /\ received' = received + 1
    /\ UNCHANGED <<plan, had, content, stored, response, imported, job>>

\* The commit of a session.
Commit(w) ==
    LET j == job[w] IN
    /\ j.step = "ready"
    /\ \/ /\ j.kind = "create"
          /\ plan' = [plan EXCEPT ![j.adds] = "one"]
          /\ had' = had \cup {"one"}
          /\ UNCHANGED <<stored, response, imported>>
       \/ /\ j.kind \in DocumentTypes
          /\ stored' = [stored EXCEPT ![j.adds] =
                           [type |-> j.kind, path |-> j.path]]
          /\ response' = IF j.kind = "anaf_response" THEN j.adds ELSE response
          /\ imported' = imported + j.count
          /\ UNCHANGED <<plan, had>>
    /\ job' = [job EXCEPT ![w] = Idle]
    /\ UNCHANGED <<content, received>>

\* A file that cannot be read, too many invoices, an exception, a crash: the
\* session is rolled back; what was saved in the storage stays there.
Abort(w) ==
    /\ job[w] # Idle
    /\ job' = [job EXCEPT ![w] = Idle]
    /\ UNCHANGED <<plan, had, content, stored, response, imported, received>>

QuotasNext ==
    \/ ApiInvoice
    \/ \E code \in Plans : UpdatePlan(code)
    \/ \E w \in Workers :
          \/ CreateOrganization(w)
          \/ \E p \in Paths :
                \/ \E type \in DocumentTypes : Upload(w, p, type)
                \/ Download(w, p)
          \/ \E n \in 0..MaxBatch : \E dated \in 0..n : Import(w, n, dated)
          \/ Commit(w) \/ Abort(w)

QuotasSpec == QuotasInit /\ [][QuotasNext]_quotasVars

-----------------------------------------------------------------------------
(* Properties.                                                             *)

\* The columns hold what the code may write into them.
QuotasTypeOK ==
    /\ plan \in [Organizations -> Plans \cup {"none"}]
    /\ had \subseteq Plans
    /\ content \in [Paths -> Documents \cup {NoDocument}]
    /\ stored \in [Documents -> DocumentRow \cup {NoRow}]
    /\ response \in Documents \cup {NoDocument}
    /\ imported \in Nat /\ received \in Nat
    /\ job \in [Workers -> Job]

\* Uploads stay within a plan that the organisation has had, though the
\* handlers count first and insert later while plans change and other invoices
\* come in: they depend on the event loop for it, not on the database
\* (upload_invoices, upload_organization_document).
UploadsWithinPlan ==
    /\ imported <= Max({MaxInvoices[code] : code \in had})
    /\ Cardinality({d \in Held : stored[d].type # "anaf_response"})
           <= Max({MaxDocuments[code] : code \in had})

\* The owner's organisations are counted by threads, which may all see one
\* free place: the limit is passed by no more than the other threads
\* (assert_can_create_organization, create_organization).
OrganizationsAreFew ==
    Cardinality(Owned) <= Max({1} \cup {MaxOrganizations[code] : code \in had})
                              + Cardinality(Threads) - 1

\* A document that the database knows can be read back, whichever uploads were
\* refused, lost or under way: its place holds its content and no other
\* (store_upload_file, StorageBackend.save); and the response that an invoice
\* names is one of them.
DocumentsCanBeRead ==
    /\ \A d \in Held : content[stored[d].path] = d
    /\ response # NoDocument => stored[response].type = "anaf_response"

-----------------------------------------------------------------------------
(* The inductive invariant of the proofs.                                  *)

Uploaded == {d \in Held : stored[d].type # "anaf_response"}
Creating == {w \in Threads : job[w].kind = "create"}

\* The owner's organisations have plans of those they have had, and the
\* sessions that add one were each let through below the limit.
OrganizationsFit ==
    /\ Home \in Owned /\ \A o \in Owned : plan[o] \in had
    /\ Cardinality(Owned) + Cardinality(Creating)
           <= Max({1} \cup {MaxOrganizations[code] : code \in had})
                  + Cardinality(Threads) - 1

\* A session that adds a document has saved its content and is alone with its
\* id.  One that uploads is the event loop's, and what it was let in for is
\* still free, for nobody else uploads meanwhile.
DocumentFits(w) ==
    LET j == job[w] IN
    /\ j.kind \in DocumentTypes /\ j.adds \in Documents \ Held /\ j.path \in Paths
    /\ content[j.path] = j.adds
    /\ \A v \in Workers \ {w} : job[v].kind \in DocumentTypes => job[v].adds # j.adds
    /\ j.count # 0 => j.kind = "invoice_import" /\ j.step = "ready"
    /\ j.kind # "anaf_response" =>
           /\ w = Loop /\ j.plan \in had
           /\ Cardinality(Uploaded) + 1 <= MaxDocuments[j.plan]
           /\ j.count # 0 => imported + j.count <= MaxInvoices[j.plan]

SessionFits(w) ==
    \/ job[w] = Idle
    \/ w \in Threads /\ job[w].kind = "create" /\ job[w].adds \in Organizations
    \/ DocumentFits(w)

QuotasInv ==
    /\ QuotasTypeOK /\ OrganizationsFit /\ UploadsWithinPlan /\ DocumentsCanBeRead
    /\ \A w \in Workers : SessionFits(w)
=============================================================================
