----------------------------- MODULE AnafTokens -----------------------------
(***************************************************************************)
(* The connection of one organisation to ANAF:                             *)
(* backend/app/anaf_oauth_service.py, its handlers in main.py and the      *)
(* token that uploads, status checks and downloads ask for.                *)
(*                                                                         *)
(* The authorizations of an organisation are rows of a table without a     *)
(* unique index.  ANAF is called between the read of a row and the commit  *)
(* of what it answered, and the owner may disconnect meanwhile.            *)
(***************************************************************************)
EXTENDS UnitOfWork, Naturals, Sequences, FiniteSets

CONSTANTS
    Authorizations,   \* ids that rows of anaf_authorizations may get
    Threads,          \* threads of the pool that runs the handlers
    MaxAnswers,       \* bound: answers of ANAF's token endpoint
    Crashes           \* may a session end before its commit?

VARIABLES
    auth,          \* authorizations, by id
    integration,   \* the row of organization_integrations
    answered,      \* ANAF's answers: did the n-th carry a refresh token?
    job            \* per thread, the session of the request it is serving

vars == <<auth, integration, answered, job>>

-----------------------------------------------------------------------------
(* Rows and sessions.                                                      *)

Answers == DOMAIN answered

\* access, refresh: the answer a token came with; expiring: less than five
\* minutes are left of it.
AuthRow == [access: 1..MaxAnswers, refresh: 0..MaxAnswers,
            expiring: BOOLEAN, status: {"active", "revoked"}]
NoRow == [access |-> 0, refresh |-> 0, expiring |-> FALSE, status |-> "none"]

IntegrationRow ==
    [mode: {"mock", "real"},
     status: {"not_configured", "pending_oauth", "connected", "disconnected"}]

ASSUME SessionsAreFinite == IsFiniteSet(Threads)
ASSUME AuthorizationsAreFinite == IsFiniteSet(Authorizations)
ASSUME BoundAssumption == MaxAnswers \in Nat
ASSUME CrashesAssumption == Crashes \in BOOLEAN

Stored == {a \in Authorizations : auth[a] # NoRow}
Active == {a \in Stored : auth[a].status = "active"}

\* step: where a handler is in its work; answer: what it heard from ANAF;
\* seen, image: the authorizations it loaded or adds, and its copies; was,
\* becomes: the integration as loaded, and its copy.
Steps == {"idle", "expiring", "answered", "saved", "listed", "ready"}
Nothing == [a \in Authorizations |-> NoRow]
NotRead == [mode |-> "mock", status |-> "not_configured"]
Idle == [kind |-> "idle", step |-> "idle", answer |-> 0, seen |-> Nothing,
         image |-> Nothing, was |-> NotRead, becomes |-> NotRead]
Job == [kind: {"idle", "connect", "callback", "token", "disconnect", "test"},
        step: Steps, answer: 0..MaxAnswers,
        seen: [Authorizations -> AuthRow \cup {NoRow}],
        image: [Authorizations -> AuthRow \cup {NoRow}],
        was: IntegrationRow, becomes: IntegrationRow]

Loaded(ids) ==
    [a \in Authorizations |-> IF a \in ids THEN auth[a] ELSE NoRow]

\* The rows that a session adds.
Added(j) == {a \in Authorizations : j.seen[a] = NoRow /\ j.image[a] # NoRow}

Begin(w, request) ==
    /\ job[w] = Idle
    /\ job' = [job EXCEPT ![w] = request]
    /\ UNCHANGED <<auth, integration>>

Init ==
    /\ auth = Nothing
    /\ integration = NotRead
    /\ answered = <<>>
    /\ job = [w \in Threads |-> Idle]

-----------------------------------------------------------------------------
(* The integration: connect, test, disconnect.                             *)

\* get_or_create_real_anaf_integration makes the copy real.
WithIntegration(j, status) ==
    [j EXCEPT !.step = "ready", !.was = integration,
              !.becomes = [mode |-> "real", status |-> status]]

\* build_anaf_authorization_url: the owner is sent to ANAF.
Connect(w) ==
    /\ Begin(w, WithIntegration([Idle EXCEPT !.kind = "connect"],
                                "pending_oauth"))
    /\ UNCHANGED answered

\* test_anaf_connection: the mock connector is always connected, the real
\* one is built without a token.
TestConnection(w) ==
    LET status == IF integration.mode = "real" THEN "pending_oauth"
                                               ELSE "connected" IN
    /\ Begin(w, [Idle EXCEPT !.kind = "test", !.step = "ready",
                             !.was = integration,
                             !.becomes = [integration EXCEPT !.status = status]])
    /\ UNCHANGED answered

\* disconnect_anaf: all authorizations are listed and revoked, ...
Disconnect(w) ==
    /\ Begin(w, [Idle EXCEPT
           !.kind = "disconnect", !.step = "listed", !.seen = auth,
           !.image = [a \in Authorizations |->
                         IF a \in Stored THEN [auth[a] EXCEPT !.status = "revoked"]
                                         ELSE NoRow]])
    /\ UNCHANGED answered

\* ... then the integration is read.
DisconnectIntegration(w) ==
    /\ job[w].kind = "disconnect" /\ job[w].step = "listed"
    /\ job' = [job EXCEPT ![w] = WithIntegration(@, "disconnected")]
    /\ UNCHANGED <<auth, integration, answered>>

-----------------------------------------------------------------------------
(* Tokens.                                                                 *)

\* ANAF answers with tokens; what it gave is spent, whatever becomes of the
\* session that asked.
Answer(carriesRefresh) ==
    /\ Len(answered) < MaxAnswers
    /\ answered' = Append(answered, carriesRefresh)

\* A defect: a refresh token is kept as long as there is one.
BadSavedKeepsRefresh(r, n) ==
    [access |-> n, refresh |-> IF r.refresh # 0 THEN r.refresh ELSE n,
     expiring |-> FALSE, status |-> "active"]

\* save_anaf_tokens, on the copy of a row or for a new one.
Saved(r, n) ==
    [access |-> n, refresh |-> IF answered[n] THEN n ELSE r.refresh,
     expiring |-> FALSE, status |-> "active"]

\* handle_anaf_callback: the code is exchanged first, ...
Callback(w, carriesRefresh) ==
    /\ Answer(carriesRefresh)
    /\ Begin(w, [Idle EXCEPT !.kind = "callback", !.step = "answered",
                             !.answer = Len(answered')])

\* A defect: every callback adds a row.
BadLookup == {a \in Authorizations : auth[a] = NoRow}

\* save_anaf_tokens: any row of the organisation, or a new one if it sees
\* none.
Lookup == IF Stored # {} THEN Stored
          ELSE Authorizations \ UNION {Added(job[w]) : w \in Threads}

\* ... its tokens are saved in a row it looks up then, ...
SaveTokens(w, a) ==
    LET j == job[w] IN
    /\ j.kind = "callback" /\ j.step = "answered"
    /\ a \in Lookup
    /\ job' = [job EXCEPT ![w] =
                  [j EXCEPT !.step = "saved", !.seen = Loaded({a}),
                            !.image[a] = Saved(auth[a], j.answer)]]
    /\ UNCHANGED <<auth, integration, answered>>

\* ... and the integration is read last.
CallbackIntegration(w) ==
    /\ job[w].kind = "callback" /\ job[w].step = "saved"
    /\ job' = [job EXCEPT ![w] = WithIntegration(@, "connected")]
    /\ UNCHANGED <<auth, integration, answered>>

\* Time goes by.
TokenExpires(a) ==
    /\ a \in Stored /\ ~auth[a].expiring
    /\ auth' = [auth EXCEPT ![a].expiring = TRUE]
    /\ UNCHANGED <<integration, answered, job>>

\* get_valid_access_token with a token that must be refreshed: any active
\* row.  A token that is good for longer is used as it is, without a trace.
TokenExpiring(w, a) ==
    /\ a \in Active /\ auth[a].expiring /\ auth[a].refresh # 0
    /\ Begin(w, [Idle EXCEPT !.kind = "token", !.step = "expiring",
                             !.seen = Loaded({a}), !.image = Loaded({a})])
    /\ UNCHANGED answered

\* refresh_anaf_tokens, in the session of an upload, a status check or a
\* download.
Refresh(w, a, carriesRefresh) ==
    LET j == job[w] IN
    /\ j.step = "expiring" /\ j.seen[a] # NoRow
    /\ Answer(carriesRefresh)
    /\ job' = [job EXCEPT ![w] = [j EXCEPT !.step = "answered",
                                           !.answer = Len(answered')]]
    /\ UNCHANGED <<auth, integration>>

\* The answer is saved in the row the token was read from.
SaveRefreshed(w, a) ==
    LET j == job[w] IN
    /\ j.kind = "token" /\ j.step = "answered" /\ j.seen[a] # NoRow
    /\ job' = [job EXCEPT ![w] =
                  [j EXCEPT !.step = "ready",
                            !.image[a] = Saved(j.seen[a], j.answer)]]
    /\ UNCHANGED <<auth, integration, answered>>

-----------------------------------------------------------------------------

\* What the commit of a session leaves in a row.
Merged(r, seen, new) ==
    [access |-> Written(r.access, seen.access, new.access),
     refresh |-> Written(r.refresh, seen.refresh, new.refresh),
     expiring |-> IF new.access = seen.access THEN r.expiring ELSE FALSE,
     status |-> Written(r.status, seen.status, new.status)]

\* The commit at the end of the handler.
Commit(w) ==
    LET j == job[w] IN
    /\ j.step = "ready"
    /\ auth' = [a \in Authorizations |->
                   CASE a \in Added(j) -> j.image[a]
                     [] j.seen[a] # NoRow ->
                            Merged(auth[a], j.seen[a], j.image[a])
                     [] OTHER -> auth[a]]
    /\ integration' =
           [mode |-> Written(integration.mode, j.was.mode, j.becomes.mode),
            status |-> Written(integration.status, j.was.status,
                               j.becomes.status)]
    /\ job' = [job EXCEPT ![w] = Idle]
    /\ UNCHANGED answered

\* A refused call, an exception, a restart: the session is rolled back
\* (anaf_oauth_callback catches every exception).
Abort(w) ==
    /\ Crashes
    /\ job[w] # Idle
    /\ job' = [job EXCEPT ![w] = Idle]
    /\ UNCHANGED <<auth, integration, answered>>

Next ==
    \/ \E a \in Authorizations : TokenExpires(a)
    \/ \E w \in Threads :
          \/ Connect(w) \/ TestConnection(w)
          \/ Disconnect(w) \/ DisconnectIntegration(w)
          \/ CallbackIntegration(w) \/ Commit(w) \/ Abort(w)
          \/ \E carriesRefresh \in BOOLEAN : Callback(w, carriesRefresh)
          \/ \E a \in Authorizations :
                \/ SaveTokens(w, a) \/ TokenExpiring(w, a) \/ SaveRefreshed(w, a)
                \/ \E carriesRefresh \in BOOLEAN : Refresh(w, a, carriesRefresh)

Spec == Init /\ [][Next]_vars

-----------------------------------------------------------------------------
(* Properties.                                                             *)

\* The columns hold what the code may write into them.
TypeOK ==
    /\ auth \in [Authorizations -> AuthRow \cup {NoRow}]
    /\ integration \in IntegrationRow
    /\ answered \in Seq(BOOLEAN)
    /\ job \in [Threads -> Job]

\* Once the owner has disconnected an authorization, only a callback, that is
\* a new consent at ANAF, makes it active again: a refresh that was under way
\* saves its tokens and leaves the status alone (save_anaf_tokens sets
\* "active" on a copy that is active already).
RevocationSticks ==
    [][\A a \in Authorizations :
          auth[a].status = "revoked" /\ auth'[a].status = "active" =>
              \E w \in Threads : /\ job[w].kind = "callback"
                                 /\ job[w].seen[a].status = "revoked"
                                 /\ job'[w] = Idle]_vars

\* An access token whose answer carried a refresh token is stored with that
\* one, though two sessions may have refreshed the same row and each column
\* is written apart (save_anaf_tokens, refresh_anaf_tokens).
TokensBelongTogether ==
    \A a \in Stored :
        answered[auth[a].access] => auth[a].refresh = auth[a].access

\* Callbacks that find no authorization each add one, and no unique index
\* forbids it; but there are never more than the sessions that ran at once,
\* for a callback that sees a row uses it (save_anaf_tokens).
AuthorizationsAreFew ==
    Cardinality(Stored)
        + Cardinality(UNION {Added(job[w]) : w \in Threads})
        <= Cardinality(Threads)

-----------------------------------------------------------------------------
(* The inductive invariant of the proofs.                                  *)

\* The tokens of a row came with answers that there were.
Known(r) == r.access \in 0..Len(answered) /\ r.refresh \in 0..Len(answered)

\* No row, and no copy that a session loaded, has a token of the answer n.
Unused(n) ==
    \A a \in Authorizations :
        /\ n \notin {auth[a].access, auth[a].refresh}
        /\ \A w \in Threads :
               n \notin {job[w].seen[a].access, job[w].seen[a].refresh}

\* A session writes the tokens of its answer, or leaves them as it loaded them.
CopyFits(j, a) ==
    \/ /\ j.image[a].access = j.seen[a].access
       /\ j.image[a].refresh = j.seen[a].refresh
    \/ /\ j.answer # 0 /\ j.image[a].access = j.answer
       /\ j.image[a].refresh =
              IF answered[j.answer] THEN j.answer ELSE j.seen[a].refresh

\* A row that a session loaded is still there, one that it adds is not there
\* yet; only a callback makes a row active; it adds one row.
SessionFits(j) ==
    /\ j.answer \in 0..Len(answered)
    /\ j.step = "answered" => j.answer # 0
    /\ j.step = "expiring" => j.kind = "token" /\ j.answer = 0
    /\ j.kind = "callback" /\ j.step = "answered" =>
           \A a \in Authorizations : j.seen[a] = NoRow /\ j.image[a] = NoRow
    /\ \A a \in Authorizations :
           /\ Known(j.seen[a]) /\ CopyFits(j, a)
           /\ j.seen[a] # NoRow => j.image[a] # NoRow /\ auth[a] # NoRow
           /\ a \in Added(j) => auth[a] = NoRow
           /\ j.image[a].status = "active" /\ j.seen[a].status # "active" =>
                  j.kind = "callback"
           /\ j.kind = "token" /\ j.seen[a] # NoRow => j.seen[a].status = "active"
    /\ \A a, b \in Added(j) : a = b

\* Each answer is spent by one session, and no two sessions add one row.
SessionsApart ==
    \A v, w \in Threads : v # w =>
        /\ job[w].answer # 0 => job[v].answer # job[w].answer
        /\ Added(job[v]) \cap Added(job[w]) = {}

IInv ==
    /\ TypeOK /\ TokensBelongTogether /\ AuthorizationsAreFew
    /\ \A a \in Authorizations : Known(auth[a])
    /\ \A w \in Threads : /\ SessionFits(job[w])
                          /\ job[w].answer # 0 => Unused(job[w].answer)
    /\ SessionsApart
=============================================================================
