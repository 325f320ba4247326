# FacturaGuard: specifications, model checking and proofs

FacturaGuard watches the e-Factura status of a company's invoices. A FastAPI
backend (`src/backend/app`) keeps organisations, invoices, alerts and
subscriptions in one SQL database; a scheduler in the same process synchronises
statuses; NETOPIA takes the payments; a Next.js frontend is a client of the API.
This directory holds TLA+ modules for its concurrent parts, the TLC runs that
check them on small instances, and TLAPS proofs that hold for every instance.

To repeat a run: `tlc -workers 2 -config PaymentsMixed.cfg MCPayments` (the runs are
listed below and in `PROJECT.json`). To repeat the proofs: `tlapm PaymentsProofs.tla`,
and the same with `Counting` and the other `...Proofs` modules (section 4).

## 1. The system

### How it runs

* One uvicorn process (`backend/Dockerfile:9`, `railway.json:10`). A handler
  declared `def` runs on a thread of Starlette's pool; a handler declared
  `async def` runs on the one event loop and, where it awaits nothing between
  its first query and its commit, is never interleaved with another of its kind.
* APScheduler runs `run_status_check` and the daily digest on threads of its
  own, one instance of a job at a time (`jobs.py`).
* A request has one SQLAlchemy session (`database.py`): `autocommit` and
  `autoflush` off, READ COMMITTED, no `SELECT ... FOR UPDATE` anywhere. A row is
  read once into the session, changed there, and a flush writes *the columns
  that differ from what was loaded*. A handler that raises closes its session,
  and nothing of it is kept.

Every race in this system has that one shape: a row is read, time passes (a
call to NETOPIA or ANAF, a loop over other rows), and columns computed from the
copy are written over whatever is there by then.

### Components

| Component | State | Operations | Hard behaviour | What makes it correct |
|---|---|---|---|---|
| Payments | `payment_transactions`; the order at NETOPIA | checkout, IPN, status check, mock checkout and webhook | notifications lost, repeated, late, out of order; two handlers settling one row; a 45 s call between read and write; death before the commit | a payment on record was reported as one and activated its plan; it is kept; a repeated IPN changes nothing |
| Subscription | `organization_subscriptions` | activation by a payment, choice by the owner | two sessions writing different columns of one row | the plan in force was reported as paid or chosen |
| Plans and quotas | none of its own; counts rows | tests before an import, an organisation, a document | count, then insert | uploads stay within a plan the organisation has had; organisations exceed the limit by at most the other threads |
| Invoices, alerts, status sync | `invoices`, `alerts` | deadlines, import, sweep of all open invoices, sync of some, marks, alert resolution | a sweep over copies loaded at its start; check for an open alert, then insert; one commit at the end | problems raise alerts; duplicates are bounded; verdicts are kept; statuses converge |
| ANAF submission | `anaf_upload_id`, `anaf_status`, documents | upload, status, download, parse | ANAF has the invoice before the database knows; an answer for an earlier upload; two readers of ANAF's answers | what shows as validated was said to be so by ANAF; an upload id is kept; the readers agree |
| ANAF OAuth tokens | `anaf_authorizations` | connect, callback, refresh, disconnect, test | refresh under way while the owner disconnects; two callbacks | a disconnected authorization stays so; tokens that belong together stay together |
| Membership | memberships, invitations | invite, renew, accept, add, implicit owner | accept overwrites a role; two acceptances | every role was given by an owner; memberships are bounded |
| Authentication, passwords | users, reset tokens | login, reset | one token used twice at once | who reads a token after it was used cannot use it |
| API keys, public API | keys | create, revoke, use | use racing revocation | a revoked key stays revoked; only calls under way still count |
| Settings and digest | notification settings, audit log | daily digest | mail before commit; one organisation's exception ends the loop | enabled clients are served; the audit log tells which mails left |
| Document storage | files, `documents` | store, read | file before row | every row has its file |
| Saved views | views | make default | each session clears the defaults it saw | no more defaults than sessions |
| Rate limiter | window per client | admit or refuse | window edges | no more than the limit in a window |
| Metadata, notes, work queue | columns and rows of an invoice | edits | none of its own | - |
| Portfolio, reports, portal, pilot, audit views | none | read-only | - | - |
| Importers, UBL, templates | none | parsing, formatting | - | - |
| System and public status, readiness | none | read-only | - | - |
| Database session | rows, transactions | load, flush, commit, close | stale copies | only changed columns are written |
| Frontend | none the server depends on | calls the API | - | - |

Components interact through the database only, with these exceptions: the
scheduler calls the sync service in its own session; checkout, status check and
upload call the provider or ANAF inside theirs; the provider calls the IPN
handler.

`PROJECT.json` lists every hazard with its line and the properties that cover it.

## 2. Modules

| Module | What it is |
|---|---|
| `UnitOfWork` | `Written`: what a session's commit leaves in a column |
| `Payments` | transactions, subscription, NETOPIA and the handlers between them |
| `SubscriptionLedger` | what payments promise to the subscription, without handlers |
| `InvoiceRules` | the status an invoice shows and the alert it calls for |
| `Invoices` | invoices and alerts with the mock connector: import, sweep, sync, marks |
| `AnafSubmission` | one invoice with the real connector: upload, status check, response, sweeps and marks |
| `AnafTokens` | authorizations and integration of one organisation |
| `AnafWords` | the marker words by which a text of ANAF is read |
| `AnafAnswers` | how the answers of ANAF are read, by either reader |
| `Deadlines` | the calendar behind `InvoiceRules` |
| `Membership` | members, invitations and accounts |
| `Quotas` | limits of plans, documents and their storage |
| `Credentials` | password reset tokens and API keys |
| `SavedViews` | the default among a user's views |
| `Digest` | the daily digest and the settings it reads |
| `RateLimit` | the sliding window of one client |
| `PaymentsProofs`, `InvoicesProofs`, `AnafSubmissionProofs`, `AnafTokensProofs`, `MembershipProofs` | the theorems about the module of that name |
| `ServicesProofs` | the theorems about `Credentials`, `SavedViews`, `Digest`, `Deadlines` and `AnafAnswers` |
| `LimitsProofs` | the theorems about `Quotas` and `RateLimit` |
| `Counting` | lemmas the proofs share: counting sessions, numbers, loops |
| `MC...` | values for TLC; `MCServices` puts the small services side by side |

What extends what: `Invoices`, `AnafSubmission` and `Deadlines` share the rules
of `InvoiceRules`; `AnafSubmission` and `AnafAnswers` those of `AnafWords`; every
module with sessions takes `Written` from `UnitOfWork`; `Payments` implements
`SubscriptionLedger`.

Operators named `Bad...` are defects a change could introduce, each written
beside the definition it would replace (a dropped test, a missing date, a row
written back whole). No action uses them; each one makes some property fail.

### UnitOfWork

`Written(inDatabase, loaded, new)` is `new` if the session changed the column
and otherwise what the database holds by then. Flush and commit are one step in
all modules: a flushed row is locked until its session ends, so another session
that writes it waits, and its own write lands after the commit in any case. The
models then allow *more* orders than the locks do (a session blocked on one row
goes on in the model). A deadlock that the database breaks is an `Abort`.

### Payments

State: `tx` (rows of `payment_transactions` by provider session or order id),
`sub` (the organisation's row of `organization_subscriptions`), `activations`
(how often the plan of an order was activated; the audit log shows it), `remote`
and `ipns` (external: what NETOPIA says of an order, and every notification ever
sent), `posted` (external: what was posted to the mock webhook), `job` (per
thread, the request it serves with the copies its session loaded).

What is said of an order is a text: what is *meant* by it and which of the marker
words of `normalize_netopia_status` are *in* it. The two need not agree: the code
joins the status fields of a payload and looks for substrings, those of a payment
first, so that "unpaid" (which holds "paid") and a code 13 (which holds "3") are
read as a payment. `Normalize` sees the markers alone; `Texts` is any set of such
texts, and the proofs hold for all of them.

| Action | Code |
|---|---|
| `CheckoutCall`, `CheckoutCommit` | `create_netopia_checkout`: the order is opened at NETOPIA, later its row is committed |
| `MockCheckout` | `create_netopia_mock_checkout` |
| `ProviderReports` | NETOPIA decides an order, or words it anew, and notifies (external) |
| `UnsignedReport` | a notification of anybody else; `verify_netopia_ipn_signature` takes it unless a signature is required |
| `IpnIgnored`, `IpnRead` | `process_netopia_v2_webhook`, row not found / found |
| `MockWebhookRead`, `MockWebhookKnown` | `process_netopia_mock_webhook`, row not paid / paid: a row of *either* provider, whatever the settings are |
| `StatusCheckRead`, `StatusCheckAnswer` | `check_netopia_transaction_status`, before and after the call |
| `ReadSubscription` | `get_or_create_subscription` inside an activation |
| `CommitActivation`, `CommitStatus` | the writes of those three handlers and their commit |
| `PlanChangeRead`, `CommitPlanChange` | `POST /organizations/{id}/subscription` |
| `Abort` | exception, timeout, restart: the session is closed |

`ipns` only grows, and any member may be delivered at any time, any number of
times or never. That is loss, duplication, delay and reordering at once.

Abstractions. One organisation: every query is restricted to one, and orders of
different organisations touch different rows. The subscription row always
exists: `create_organization` makes it. A transaction is found by its order id
or payment id, both of one row. A notification whose signature is refused
changes nothing and is left out; whether one is required is the constant
`SignatureRequired`, how one is verified is not modelled. Plan aliases of old
transactions are left out. The IPN handler is
`async def` without an await between its read and its commit, so one thread
(`EventLoop`) serves all IPNs in turn; everything else runs on `Threads`.

### SubscriptionLedger

An order is offered at a plan, it is reported as paid, settling it may change
the plan to that of the order; beside that only the owner's choice changes the
plan. `Payments!Ledger` is the refinement mapping: `reported` are the orders of
which somebody said so (a text with a marker of a payment, or the mock page),
`settled` the transactions with a payment date. That the provider *confirmed*
what is settled is not promised, since the code does not ensure it (section 5).

### Invoices

State: `row` (the status columns of an invoice), `phase` (today as seen from its
deadline: early, at most two days before it, after it), `open` (the number of
open alerts by invoice and type), `raised` (types the invoice ever had an alert
of), `job` (per thread the invoices still to do, rows as loaded, the session's
copies and the alerts it added).

| Action | Code |
|---|---|
| `DayPasses` | the date, as `compute_internal_status` uses it |
| `Import` | `upload_invoices`, `public_api_create_invoice`: no await between read and commit, and nobody knows the invoice before: one step |
| `SweepBegin` | `run_status_check` (scheduler or `POST /jobs/run-status-check`), `sync_all_invoice_statuses` |
| `SyncBegin` | `sync_single_invoice_status`, bulk `sync_status`, sync of all with `only_open=false` |
| `SyncOne` | `sync_invoice_status`: the connector's answer, the internal status, the alert unless one is open |
| `MarkBegin` | bulk `mark_unsent`, `mark_pending` |
| `Commit`, `Abort` | the end of the handler or job; a session that is lost |
| `ResolveAlert`, `ResolveRelated` | `resolve_alert`, bulk `resolve_related_alerts`: writes that do not depend on what was read |

The connector is the mock one (`integration.mode = "mock"`): its verdict is a
function of columns that never change, given at import, and a rejection stays
one until a mark lifts it. Mail is not modelled.

### AnafSubmission

State: `row` (`anaf_status`, `internal_status` and `anaf_upload_id` of one
invoice), `said` (external: the texts in which ANAF spoke of each upload), `phase`,
`open` and `raised` as in `Invoices`, `job` (per thread, the request with the row as
loaded, the session's copy and the alerts it adds).

A text is what ANAF *means* and the markers that are *in* it: `CheckAnswered` reads
`markers` with `NormalizeAnafStatus`, `ParseApplied` reads `last` with
`NormalizeFromText`, and neither sees what was meant. `last` is the element that
decides an archive: `parse_xml_content` overwrites the status at every element
that says anything, and of several files `Summary` (in `AnafAnswers`) picks one.

| Action | Code |
|---|---|
| `UploadBegin` | `upload_invoice_xml_to_anaf` up to the call |
| `UploadAccepted`, `UploadAnswerLost`, `CallFails` | ANAF has the invoice and the id can or cannot be read; ANAF has it and the answer is lost; the call fails |
| `AnafSays` | ANAF decides, and says so in one way or another (external) |
| `CheckBegin`, `CheckAnswered`, `CheckRefused` | `check_invoice_status_from_anaf`, before and after `stareMesaj` |
| `ParseApplied` | `parse_and_apply_anaf_response` on a response that was downloaded |
| `SweepBegin`, `SyncOne` | `sync_invoice_status` with `RealAnafClient`, which answers with the copy's own status |
| `Mark`, `Resolve`, `DayPasses` | as in `Invoices` |
| `Commit`, `Abort` | the end of the handler |

A call may last a minute, and every other action may come between its two
halves. `anaf_download_id` and `anaf_response_document_id` only choose which
response is parsed if the user names none, so any decided one may be. Tokens are
those of `AnafTokens`: a request without one ends before it changes anything.
Nothing in the code asks whether an invoice was uploaded before; the model has
as many uploads as `Uploads` allows.

### AnafTokens

State: `auth` (rows of `anaf_authorizations`), `integration`, `answered` (the
answers of the token endpoint, so that a token is the number of the answer it
came with, and whether that answer carried a refresh token), `job`.

| Action | Code |
|---|---|
| `Connect` | `build_anaf_authorization_url` |
| `Callback`, `SaveTokens`, `CallbackIntegration` | `handle_anaf_callback`: the exchange, `save_anaf_tokens`, the integration |
| `TokenExpiring`, `Refresh`, `SaveRefreshed` | `get_valid_access_token`, `refresh_anaf_tokens` in the session of an upload, check or download |
| `Disconnect`, `DisconnectIntegration` | `disconnect_anaf` |
| `TestConnection` | `test_anaf_connection` |
| `TokenExpires` | time |
| `Commit`, `Abort` | the end of the handler |

The model shows states that the code can reach and that no text of the
repository rules out, so no property forbids them: a revoked authorization
while the integration says "connected" (a callback that loaded the row before a
disconnection and commits after it), and a real integration that is "connected"
without any authorization (a test of the mock connector that commits after
`Connect`). `TestConnection` always shows
"pending_oauth" for a real connection, since `get_anaf_client` passes no token.

### AnafWords and AnafAnswers

`AnafWords` has the two lists of markers, complete, and the two functions that
look for them, `NormalizeAnafStatus` and `NormalizeFromText`. `ParseStatus` is
`parse_anaf_status_response`, `ParseResponse` is `parse_xml_content`, `Summary`
is `parse_anaf_response_zip`. A text is the set of its words, and `MarkersOf`
gives for a word the markers found in it *as substrings*, as `in` does ("nok"
holds "ok", "invalidat" holds "validat", "nepreluat" holds "preluat"); an
attribute is an element that only the first reader sees. The actions grow an
answer element by element, and an archive file by file, so that TLC enumerates
all of them up to the bounds. The loops of the two readers are recursive
functions of the number of elements read. Documents that are not XML (the
regular expressions at `anaf_status_service.py:83`) and the texts of messages
are left out.

### Deadlines

Days are integers from a Monday. `AddBusinessDays` walks as the code does, a
recursive function of the day and then of the workdays left; the
property compares it with a definition by counting. `NextDay` lets at most
`MaxGap` days pass without a synchronisation, as the scheduler's interval job does.

### Membership

State: `accounts`, `member` and `invitation` (rows; neither the members of an
organisation nor its pending invitations are unique in the database), `granted`
(which role an owner gave to whom), `job`.

| Action | Code |
|---|---|
| `Invite` | `create_invitation`: a pending one is renewed under the role asked for |
| `Accept`, `AcceptWithAccount` | `accept_invitation`, for a user with or without an account |
| `AddMember` | `add_organization_member` |
| `Allowed` | `get_accessible_organization(require_owner=True)`, with the membership it adds for an owner without one |
| `Register`, `Expire`, `Commit`, `Abort` | `register`; seven days; the end of the handler |

The status "expired" is never stored: the sessions that write it raise an
exception and are rolled back, so `expired` is a fact about time here. A renewal
writes an `expires_at` that the row never had, so its commit always stores it;
`Outdated` makes the copy differ from the new value for that reason.

### Quotas

State: `plan`, `had` (plans the owner's organisations have had), `content` (the
storage), `stored` (rows of documents), `response`, `imported` and `received`
(invoices of this month from files and through the API), `job`.

| Action | Code |
|---|---|
| `CreateOrganization`, `UpdatePlan` | `create_organization`, `update_subscription_plan` |
| `Upload` | `assert_can_store_document`, `store_upload_file`: both upload handlers |
| `Import` | `assert_can_import_invoices` |
| `Download` | the end of `download_anaf_response_zip`: stored without a test |
| `ApiInvoice` | `public_api_create_invoice`: added without a test |
| `Commit`, `Abort` | the end of the handler; what was saved in the storage stays |

`ServedBy` says who runs what: uploads are `async def` without an await between
the count and the commit and run on the event loop, everything else on threads.

### Credentials, SavedViews, Digest, RateLimit

`Credentials`: `CreatePasswordResetToken`, `ResetPassword`, `CreateApiKey`,
`PublicApiCall`, `RevokeKey` with the sessions between reading a row as active
and committing; `used` and `late` count what the properties bound.
`SavedViews`: `CreateView`, `UpdateView`, `DeleteView`; `Cleared` is
`clear_default_views` on the rows a session sees. `Digest`: the job client by
client (`RunBegins`, `RunSkips`, `RunMails`, `RunFails`, `RunCommits`, and `RunLost`
for any other exception, a failed commit included), a digest
asked for (`SendNow`) and settings edited meanwhile (`EditSettings`); `mails` are
sent at once, `audits` only with the commit. `RateLimit`: `Request` and
`SecondPasses` on the ages of the requests in a client's deque; `dispatch` yields
only after it has decided, so a request is one step. `bucket` is the deque;
`admitted` is not in the code: the requests let through in the window, which
the properties compare with it.

## 3. Runs

| Run | Instance | Shows |
|---|---|---|
| `payments_mixed` | one order that may be v2 or mock, the mock webhook, an "unpaid" that is read as paid, unsigned notifications, two pool threads and the event loop, owner's own choice, crashes | type; payments on record were reported and activated, and are kept; stale answers are harmless; `Payments` implements `SubscriptionLedger` |
| `payments_live` | two v2 orders, texts that are read as they are meant, one pool thread and the event loop, owner's own choice, no crash | plan and bill are paid for; a handler that learnt of a payment records it |
| `payments_idempotency` | one v2 order, one thread and the event loop | fails: see Findings |
| `payments_confirmation` | one v2 order, the codes 13 and 5 of the provider, signatures required | fails: see Findings |
| `invoices_race` | one invoice, scheduler and two users, crashes | duplicates are bounded; only marks take back verdicts |
| `invoices_live` | one invoice with any imported status, message and verdict, scheduler and one user, no crash | a problem that is shown was raised; statuses converge; alerts of lasting problems come back |
| `anaf_tokens` | three authorizations, two threads, three answers of ANAF, crashes | tokens belong together; rows are bounded; a disconnection sticks |
| `anaf_submission` | two uploads, two threads, the alert of rejections, crashes | validated means that ANAF said so; ids are kept; a rejection that is shown was raised |
| `anaf_submission_live` | one upload, five texts of which two refusals can be read as a validation, one user and the scheduler, crashes | validated means that ANAF said so; a validated invoice comes to show it |
| `membership` | an owner and one user, two roles, four membership rows, one invitation, two threads | roles were granted; memberships are bounded; acceptance sticks |
| `services` | each small service by itself (below) | fifteen properties of seven modules |
| `deadline_threshold` | one invoice over twenty days | fails: see Findings |

Why these bounds. A transaction is only ever touched by sessions that serve its
own order, and orders meet in the subscription row alone: two orders (or one
order and the owner) give two writers of that row (`payments_live`), and three
workers give a settled row two stale readers (`payments_mixed`). Two plans tell
"changed" from "unchanged". The tally of activations stops at "again", and
`ipns` is finite. Invoices meet nowhere: a sweep treats each by itself, so one
invoice has all interleavings of interest, with a third session for the
stale-write property. `open` needs no bound: `DuplicatesAreFew` keeps it
finite. The two files of `invoices_race` are those on which sessions disagree
(a rejection that only a mark lifts, a status nobody knows, which a mark
overwrites while internal_status stays); `invoices_live` runs over all lines.

`anaf_submission`: two uploads are what it takes for an answer to be about
another upload than the row's, and two sessions for one to write over the other.
Any thread may sweep (a user may ask for it), so the cfg lets one of the two be
the scheduler as well: its own disjunct of `Next` then adds no step, `Spec`
treats the threads alike, and permuting them is sound. The run under fairness,
where the scheduler is a thread of its own, takes no symmetry. Alert types do
not meet (each is looked for and raised by itself), so `Watched` holds the one a
status check can raise at any time. `anaf_tokens`: three answers give a row an
original token and two refreshes that race; a third authorization is where a
bound of two threads would be passed. `membership`: four rows for a bound of two;
one invitation may be renewed, expire and be accepted, and invitations do not
meet but in the member row, which `AddMember` writes as well.

`services` is one run of seven modules that share no variable. `MCServices`
picks a `part` at the start, and only that module moves, so the states are the
sum of theirs. Bounds: answers of three elements and archives of three files (a
loop that overwrites shows with two, its exceptions with three); twenty days, so
that a deadline may begin on any weekday; three threads for credentials, since
two sessions may be late after the one that revokes; three views; one run of the
digest over two clients; three requests in a window of four seconds; documents
and paths in threes, one more than the larger plan stores.

Deadlock checking is off in three runs. In `services` and `deadline_threshold`
the bounded parts come to their end (the last day, the last file). In
`membership` the organisation itself may stop: an owner may give himself another
role, and then nobody may act for it.

Properties worth a remark:

* `PaidIffActivated`: both `already_paid` tests use a copy of the row. A payment
  without activation would need a stale "paid"; the copy can be stale, but a row
  read as paid has had its date and activation before.
* `StalePendingIsHarmless` and `VerdictIsKept` hold because of `Written`: a
  session that read "pending" and computes "pending" writes nothing. With
  whole-row writes both fail.
* `StatusesConverge` allows one exception. `mark_pending` on an invoice that is
  pending with `anaf_status` "sent" writes only `anaf_status`; a sync that
  validates it at the same time and commits first leaves the row validated with
  `anaf_status` "pending", and no sweep looks at validated rows again.
* `ProblemIsRaised` leaves out "unsent": `mark_unsent` raises no alert; the next
  sweep decides anew.
* `PaidWasReported` (and with it `PlanIsEarned` and the ledger) says who was told
  what: this very order was reported as paid, on the mock page, by a text with a
  marker of a payment, or without a signature. It does not say that the provider
  confirmed it, which the code does not ensure: see `payments_confirmation`. With
  signatures required, and of an order the mock page had no part in, a text that
  means a payment counts only if it is the provider's.
* `ValidatedWasSaid` holds a row to the words that were said of an upload of this
  invoice, whichever session wrote them when. It does not say that ANAF meant
  them so: "XML cu erori nepreluat de sistem" is a refusal, holds "preluat" and no
  word that rejects, and is stored as validated (`NotTaken` in
  `MCAnafSubmission`); an archive that ends in an element that validates hides a
  refusal before it (`EndsWell`). The repository calls both readers best-effort,
  so this is no finding. Nor does the property say *which* upload was
  validated: an answer for an earlier upload may be written over a later one.
  `CheckRefused` (an answer about the request, which the reader takes for a
  rejection) may hide a validation.
* `RevocationSticks`, `AcceptanceSticks`: a refresh sets "active" on a copy that
  is active already, a renewal leaves the status alone; the columns stay unwritten.
* `AuthorizationsAreFew`, `MembershipsAreFew`, `OrganizationsAreFew`,
  `ResetsAreFew`, `LateCallsAreFew`, `DefaultsAreFew` say by how much a
  test-then-insert without a unique index can be wrong, and no more than that:
  sessions under way are counted, so a later session that sees a row adds none.
* `UploadsWithinPlan` depends on the event loop: served by threads, the same
  handlers pass the limit (the mutant of `ServedBy`). Responses of ANAF and
  invoices of the API are left out of the property, as the code leaves them out
  of its tests.
* `ReadersAgree` is about answers all of whose words mean the same to both
  readers. On others they differ (an attribute, "nu este valid", "fara erori").
* `DocumentsCanBeRead` says nothing of files without a row: they stay.

### Fairness

* `PaidAnswerLands`: weak fairness of the steps a thread takes for the request it
  has accepted (`Serve`). Threads are scheduled by the operating system, and the
  call to NETOPIA has a timeout; no handler dies in that run. Nothing is assumed
  of the provider, of users or of the network.
* `StatusesConverge`, `ProblemIsReminded`: the same for sessions (`Work`), and
  weak fairness of `SweepBegin(Scheduler)`: the interval job is started again
  after it ended. No session is lost in that run: one that is lost each time
  would do no work. `StatusesConverge` also assumes that marking stops.
* `ValidatedIsShown`: weak fairness of ANAF's answers (`httpx` gives every call a
  timeout, and a call that fails is an answer) and of the scheduler's sweep, and
  strong fairness of `SyncOne` and `Commit`: sessions may be lost, but not each
  one that comes to that point. Users and ANAF's decisions are not assumed.

## 4. Proofs

Every invariant and every action property that a passing run checks is also
proved, for all values of the constants that satisfy the assumptions of its
module. A theorem about a module is about that module's own specification;
where TLC checks several modules in one run (`MCServices`), nothing depends on
their sharing it. The proofs take nothing on trust but the assumptions below.

### Assumptions

They say that the finite things of a deployment are finite (threads and
sessions, authorizations, views, documents), that a value which stands for "none"
is outside its set, that limits and bounds are numbers, and that the event loop
and the scheduler are not pool threads. `Payments` needs no finiteness. One
theorem has a hypothesis of its own: `WarnedInTime` asks that no more than three
days pass between synchronisations, since `compute_internal_status` shows a
deadline as near for the two days before it and the day itself; the
scheduler's interval is counted in minutes (`jobs.py:51`).

### Counting

`Counting` holds what the proofs about tests followed by inserts need: when one
session moves, the number of sessions at some work changes by one at most
(`OneMoves`); a session that is not among them leaves room for one
(`OthersAreFewer`). It also proves that a set of numbers has a least one, which
takes the place of induction, and from it `UpTo` (what is passed on from each
number to the next holds up to any) and `RecursionExists` (a loop over a
finite sequence has a state after each turn, of the type its body keeps). Recursive
definitions of the models are reached through these two.

### Payments

| Theorem | Statement |
|---|---|
| `Invariance` | `Spec => []IInv` |
| `TypeCorrect` | `Spec => []TypeOK` |
| `PaidIsReported` | `Spec => []PaidWasReported` |
| `PaymentActivates` | `Spec => []PaidIffActivated` |
| `PlanEarned` | `Spec => []PlanIsEarned` |
| `BillPaid` | `Spec => []BillIsPaid` |
| `PaymentKept` | `Spec => PaymentIsKept` |
| `StalePendingHarmless` | `Spec => StalePendingIsHarmless` |
| `LedgerImplemented` | `Spec => ImplementsLedger` |

None of the properties is inductive: a commit writes from copies, so one must
say how far a copy may be from its row. `IInv` adds to the properties
`RowsFit` (the columns of a row fit each other), `NewsIsTrue` (what the provider
says it has sent, a signed confirmation is its own, and who holds the news of a
payment was told it of its order), `CheckoutFits` (an order being checked out
has no row) and `SessionFits`, the heart of it: *the copy of a settling session
may be out of date only in its status; the row is still there, with that plan and,
but for the mock webhook, of the v2 provider, and if it was read as paid it has a
payment date*. The proof has one
lemma for each action; sessions other than the one that steps are carried by
`OtherSessions` and `SameRows`, since no action makes a row less than a session
has seen (`KeepsRows`). The theorems about steps and the refinement follow from
`IInv` in the first state of a step: an insertion is `Offer`, a report is
`Report`, a settling commit is `Settle`, the owner's commit is `Pick`, and
everything else stutters.

### The other components with sessions

Each has `Invariance` (`Spec => []IInv`) and `TypeCorrect` (`Spec => []TypeOK`),
and these:

| Module | Theorem | Statement |
|---|---|---|
| `InvoicesProofs` | `ProblemRaised` | `Spec => []ProblemIsRaised` |
| | `DuplicatesFew` | `Spec => []DuplicatesAreFew` |
| | `VerdictKept` | `Spec => VerdictIsKept` |
| `AnafSubmissionProofs` | `ValidatedIsSaid` | `Spec => []ValidatedWasSaid` |
| | `ProblemRaised` | `Spec => []ProblemIsRaised` |
| | `UploadIdKept` | `Spec => UploadIdIsKept` |
| `AnafTokensProofs` | `TokensTogether` | `Spec => []TokensBelongTogether` |
| | `AuthorizationsFew` | `Spec => []AuthorizationsAreFew` |
| | `Revoked` | `Spec => RevocationSticks` |
| `MembershipProofs` | `RolesGranted` | `Spec => []RolesAreGranted` |
| | `MembershipsFew` | `Spec => []MembershipsAreFew` |
| | `AcceptanceKept` | `Spec => AcceptanceSticks` |

The inductive invariants are in the modules of the specifications. All have the
shape of the first: what a session holds of a row, and what it has made of it.

* `Invoices`: a copy is as loaded, or marked, or what the connector's answer to the
  *loaded* row makes of it (`CopyFits`), and a problem it shows comes with its
  alert. `VerdictIsKept` needs one thing more, which is not obvious: a rejection
  the connector would not give can only come from an imported file, and it shows
  in `internal_status` until a mark lifts it (`RejectionShows`); otherwise a stale
  sweep could take a rejection back without a mark.
* `AnafSubmission`: a row, and any copy of one, names an upload that ANAF knows
  and says "validated" only if a text about one did (`RowFits`); no session makes
  the upload id of its copy empty. `ReadStatus` and `ReadResponse` go through the
  two readers: what they read as validated has a word that validates and none
  that rejects.
* `AnafTokens`: a session writes both tokens of its answer or leaves both as
  loaded (`CopyFits`), and *each answer is spent by one session* (`SessionsApart`,
  `Unused`). With two sessions that refresh at once the columns of a row may come
  from different commits, and only this says that they still belong together.
* `Membership`: what a session is about to write was granted already or is
  granted by its commit (`MembersFit`, `InvitationsFit`); sessions that add rows
  add different ones (`AddApart`), so that rows and sessions can be counted
  together.

### The small services

| Module | Theorem | Statement |
|---|---|---|
| `ServicesProofs` | `CredentialsInvariance` | `CredentialsSpec => []CredentialsInv` |
| | `ResetsFew`, `LateCallsFew` | `CredentialsSpec => []ResetsAreFew`, `... []LateCallsAreFew` |
| | `ViewsInvariance` | `ViewsSpec => []ViewsInv` |
| | `DefaultsFew` | `ViewsSpec => []DefaultsAreFew` |
| | `DigestInvariance` | `DigestSpec => []DigestInv` |
| | `EnabledServed`, `AuditsFollow` | `DigestSpec => []EnabledAreServed`, `... []AuditsFollowMails` |
| | `DeadlinesInvariance` | `DeadlinesSpec => []DeadlinesInv` |
| | `FifthWorkday` | `DeadlinesSpec => []DeadlineIsFifthWorkday` |
| | `WarnedInTime` | `MaxGap <= 3`: `DeadlinesSpec => WarnedBeforeLate` |
| | `AnswersInvariance` | `AnswersSpec => []AnswersTypeOK` |
| | `OrderMattersNot`, `ReadersInAgreement` | `AnswersSpec => []OrderDoesNotMatter`, `... []ReadersAgree` |
| | `RefusalKept` | `AnswersSpec => RefusalStays` |
| `LimitsProofs` | `QuotasInvariance` | `QuotasSpec => []QuotasInv` |
| | `UploadsKept`, `OrganizationsFew` | `QuotasSpec => []UploadsWithinPlan`, `... []OrganizationsAreFew` |
| | `DocumentsReadable` | `QuotasSpec => []DocumentsCanBeRead` |
| | `RateInvariance` | `RateSpec => []RateInv` |
| | `WindowKept` | `RateSpec => []WindowIsKept` |
| | `RefusedWhenFull` | `RateSpec => RefusedOnlyWhenFull` |

* Credentials: a call is late only if it was under way at the revocation, and the
  session that revoked was not one of them (`LateFits`); hence "fewer than".
* Saved views: there is a way to give each default a session that made it, no two
  the same one (`MadeBy`). A counter would not do: which session made a default is
  nowhere in the state, so the invariant says only that such a way exists, and
  each step of the proof names the next.
* Digest: a client with an entry in the audit log of a run has had its turn, and
  what is enabled all the while is served or yet to come (`RunFits`).
* Deadlines: `AddReaches` says where the walk of `add_business_days` ends, in closed form,
  for every day and every number of workdays: of the walks that ended elsewhere,
  the shortest would go on to a shorter one. `FiveWorkdays` counts the workdays
  in between. `WarnedInTime` follows from `DeadlinesInv`: what is shown as unsent
  had three days or more to go when it was last synchronised.
* Answers: `StatusReadSays` goes through the loop of `parse_anaf_status_response`
  turn by turn: as soon as one element says a status, the status is that of the
  whole answer, because the reader passes the raw text along with each element.
  `ResponseOfAnswer` does the same for `parse_xml_content`.
* Quotas: only the event loop uploads, and what it was let in for is still free when
  it commits (`DocumentFits`); threads that add an organisation are counted with
  the organisations there are (`OrganizationsFit`).
* Rate limiter: the deque ends with the requests let through in the window, and
  everything before them is too old (`BucketFits`, `OldestFirst`); so what a trim
  leaves is the window.

Each inductive invariant was checked by TLC on the instances of section 3 before
it was proved. The proofs changed the models in a few places: in `Membership` a
second row that one session adds is never the first again;
`Credentials` and `Quotas` name assumptions that had been left unsaid; the walk
of `Deadlines`, the window of `RateLimit` and the loops of `AnafAnswers` are
written in forms the prover can expand, without a fold or `SelectSeq`.

Only model-checked: liveness (`PaidAnswerLands`, `StatusesConverge`,
`ProblemIsReminded`, `ValidatedIsShown`), since the prover does not reason about
fairness and ENABLED.

## 5. Findings

`payments_idempotency`. `docs/netopia-ipn-signature.md:62` says that if the same
successful IPN is received again "the transaction remains paid and the
subscription activation is not repeated". `already_paid` looks at the current
status (`payment_service.py:541`), which a notification that is neither paid nor
failed resets whatever it was (lines 569-582). Paid, then a late notification of
the open order, then paid again: the plan is activated twice. What holds is
`PaymentIsKept`: the date and the plan of the payment stay.

`payments_confirmation`. `docs/payments.md:47` names, for the real NETOPIA
integration that version 3.16 adds (`docs/netopia-v2.md:3`), the requirement to
"activate subscription only after confirmed payment". `normalize_netopia_status`
takes a text for a payment if "paid", "success" or the digit "3" is anywhere in it,
before it looks for a failure (`payment_service.py:475-478`). A checkout, a failure
reported by the code 13, and the plan is activated, with signatures required and
without the mock page. What holds is `PaidWasReported`.

`deadline_threshold`. `docs/notifications.md:25` lists the "near-deadline days
threshold" among an organisation's settings, and the settings page offers it
(`frontend/app/settings/page.tsx:140`). The code stores it between one and
fourteen days (`notification_settings_service.py:46`), but
`compute_internal_status` compares with two days (`services.py:42`) and nothing
reads the setting. With a threshold of five, an invoice issued on a Monday, and due
the next Monday, is synchronised unsent on the Wednesday, five days before its
deadline, and still shows as unsent.

## 6. Not modelled

* Alert mails, which are sent before the commit that records the alert, and the
  settings columns that choose them.
* Login, and the change of a password by who knows it: a read, and a single
  write that depends on nothing else. Hashing, JWT, signatures, encryption.
* Invoice metadata, notes and the work queue: edits of single columns and
  inserts of rows that no other code decides on.
* Parsing of imports, the UBL generator, templates, the text of digests and
  reports; migrations; read-only views and aggregations (portfolio, client
  portal, pilot workspace, onboarding, readiness, public status); the frontend.
* The month in which invoices are counted: `Quotas` has one month.
* The change of an organisation from the mock to the real connector: `Invoices`
  has the one, `AnafSubmission` the other, from the import on.
* What a status code of NETOPIA or a sentence of ANAF means in truth: a text has a
  meaning and markers, and any two may go together.
* SQLAlchemy, the database, ANAF and NETOPIA themselves, beyond what the code
  relies on.

## 7. Plan

Every safety property is proved; what could be added:

1. Abstract specifications of other components, as `SubscriptionLedger` is of
   `Payments`, with their refinement proved: an invoice whose verdict comes from
   ANAF or the connector (`AnafSubmission`, `Invoices`), and an authorization that
   is consented to and revoked (`AnafTokens`).
2. Bounds stated more sharply than by the number of sessions, where the code
   allows: only threads that run a given handler can add a row.
3. Lemmas about `Written` (which stale copies a commit makes harmless) that the
   components share, in place of the arguments each proof module makes itself.
