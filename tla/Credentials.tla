----------------------------- MODULE Credentials -----------------------------
(***************************************************************************)
(* What stands for a user or an organisation for a while: the reset tokens *)
(* of backend/app/password_service.py and the API keys of                  *)
(* api_keys_service.py, with their handlers in main.py.  Each is read as   *)
(* active by a session and written by its commit; other sessions may have  *)
(* read it meanwhile.  Values, hashes and scopes are left out.             *)
(***************************************************************************)
EXTENDS UnitOfWork, Naturals, FiniteSets

CONSTANTS
    ResetTokens,   \* ids that rows of password_reset_tokens may get
    ApiKeys,       \* ids that rows of api_keys may get
    Sessions       \* threads of the pool that runs the handlers

ASSUME CredentialsAssumption ==
    /\ IsFiniteSet(Sessions) /\ ResetTokens \cap ApiKeys = {}
    /\ "none" \notin ResetTokens \cup ApiKeys

VARIABLES
    credential,   \* the status of each token and key
    overdue,      \* tokens whose expires_at has passed
    used,         \* how often a token has set the password
    late,         \* uses of a key that were committed after it was revoked
    use           \* per thread, the session of the request it is serving

credentialsVars == <<credential, overdue, used, late, use>>

-----------------------------------------------------------------------------

Credential == ResetTokens \cup ApiKeys
CredentialStatuses == {"none", "active", "used", "revoked"}

\* seen, image: the status as the session loaded it, and its copy.
NoUse == [kind |-> "idle", of |-> "none", seen |-> "none", image |-> "none"]
Use == [kind: {"idle", "reset", "call", "revoke"},
        of: Credential \cup {"none"}, seen: CredentialStatuses, image: CredentialStatuses]

CredentialsInit ==
    /\ credential = [c \in Credential |-> "none"]
    /\ overdue = {}
    /\ used = [c \in ResetTokens |-> 0]
    /\ late = [c \in ApiKeys |-> 0]
    /\ use = [s \in Sessions |-> NoUse]

BeginUse(s, kind, c, image) ==
    /\ use[s] = NoUse
    /\ use' = [use EXCEPT ![s] = [kind |-> kind, of |-> c,
                                  seen |-> credential[c], image |-> image]]
    /\ UNCHANGED <<credential, overdue, used, late>>

\* A new row, with its commit.
Created(c) ==
    /\ credential[c] = "none"
    /\ credential' = [credential EXCEPT ![c] = "active"]
    /\ UNCHANGED <<overdue, used, late, use>>

CreatePasswordResetToken(c) == c \in ResetTokens /\ Created(c)
CreateApiKey(c) == c \in ApiKeys /\ Created(c)

\* Two hours pass.
TokenOverdue(c) ==
    /\ credential[c] = "active" /\ c \notin overdue
    /\ overdue' = overdue \cup {c}
    /\ UNCHANGED <<credential, used, late, use>>

\* A defect: a token lasts as long as it is in time.
BadMayReset(c) == credential[c] # "none" /\ c \notin overdue

\* reset_password_with_token: active and in time.  A token that is overdue is
\* marked so in a session that is rolled back.
MayReset(c) == credential[c] = "active" /\ c \notin overdue

ResetPassword(s, c) == MayReset(c) /\ BeginUse(s, "reset", c, "used")

\* A defect: a key counts as long as it is found.
BadMayCall(c) == credential[c] # "none"

\* authenticate_api_key; the status of its copy stays.
MayCall(c) == credential[c] = "active"

PublicApiCall(s, c) == MayCall(c) /\ BeginUse(s, "call", c, credential[c])

\* revoke_api_key, of any key of the organisation.
RevokeKey(s, c) ==
    /\ credential[c] # "none"
    /\ BeginUse(s, "revoke", c, "revoked")

\* The commit, of a new password, an invoice or a revocation.
CommitUse(s) ==
    LET u == use[s] IN
    /\ u.kind # "idle"
    /\ credential' = [credential EXCEPT ![u.of] = Written(@, u.seen, u.image)]
    /\ used' = IF u.kind = "reset" THEN [used EXCEPT ![u.of] = @ + 1] ELSE used
    /\ late' = IF u.kind = "call" /\ credential[u.of] = "revoked"
               THEN [late EXCEPT ![u.of] = @ + 1] ELSE late
    /\ use' = [use EXCEPT ![s] = NoUse]
    /\ UNCHANGED overdue

\* An exception, a restart: the session is rolled back.
AbortUse(s) ==
    /\ use[s].kind # "idle"
    /\ use' = [use EXCEPT ![s] = NoUse]
    /\ UNCHANGED <<credential, overdue, used, late>>

CredentialsNext ==
    \/ \E c \in Credential : CreatePasswordResetToken(c) \/ CreateApiKey(c)
    \/ \E c \in ResetTokens : TokenOverdue(c)
    \/ \E s \in Sessions :
          \/ CommitUse(s) \/ AbortUse(s)
          \/ \E c \in ResetTokens : ResetPassword(s, c)
          \/ \E c \in ApiKeys : PublicApiCall(s, c) \/ RevokeKey(s, c)

CredentialsSpec == CredentialsInit /\ [][CredentialsNext]_credentialsVars

-----------------------------------------------------------------------------
(* Properties.                                                             *)

\* The rows and the sessions hold what the code may write.
CredentialsTypeOK ==
    /\ credential \in [Credential -> CredentialStatuses]
    /\ overdue \subseteq ResetTokens
    /\ used \in [ResetTokens -> Nat] /\ late \in [ApiKeys -> Nat]
    /\ use \in [Sessions -> Use]

\* Sessions that read a reset token at once may each set the password with it;
\* there are never more of them than sessions at a time, for who reads it
\* after the first commit finds it used (reset_password_with_token).
ResetsAreFew ==
    \A c \in ResetTokens :
        used[c] + Cardinality({s \in Sessions : use[s].of = c})
            <= Cardinality(Sessions)

\* Calls that were under way when a key was revoked may still add their
\* invoice, and no others: a call writes last_used_at and not the status it
\* loaded, so that the key stays revoked (authenticate_api_key,
\* revoke_api_key).
LateCallsAreFew ==
    \A c \in ApiKeys :
        late[c] > 0 =>
            late[c] + Cardinality({s \in Sessions :
                                      use[s].of = c /\ use[s].kind = "call"})
                <= Cardinality(Sessions) - 1

-----------------------------------------------------------------------------
(* The inductive invariant of the proofs.                                  *)

\* The session that resets a password read an active token, which is active
\* still or used by now; a call writes back the status that it read.
UseFits(u) ==
    \/ u = NoUse
    \/ /\ u.kind = "reset" /\ u.of \in ResetTokens
       /\ u.seen = "active" /\ u.image = "used"
       /\ credential[u.of] \in {"active", "used"}
    \/ u.kind = "call" /\ u.of \in ApiKeys /\ u.image = u.seen
    \/ u.kind = "revoke" /\ u.of \in ApiKeys /\ u.image = "revoked"

Callers(c) == {s \in Sessions : use[s].of = c /\ use[s].kind = "call"}

\* A key that was called late is revoked; of the sessions there were when it
\* was, one was busy revoking it.
LateFits ==
    \A c \in ApiKeys :
        /\ late[c] > 0 => credential[c] = "revoked"
        /\ credential[c] = "revoked" =>
               late[c] + Cardinality(Callers(c)) <= Cardinality(Sessions) - 1

CredentialsInv ==
    /\ CredentialsTypeOK /\ ResetsAreFew /\ LateFits
    /\ \A s \in Sessions : UseFits(use[s])
    /\ \A c \in ResetTokens : used[c] > 0 => credential[c] = "used"
=============================================================================
