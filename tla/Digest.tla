------------------------------- MODULE Digest -------------------------------
(***************************************************************************)
(* The daily digest of the organisations: backend/app/digest_service.py,   *)
(* run_daily_digest_job in jobs.py, notification_settings_service.py and   *)
(* their handlers in main.py.                                              *)
(*                                                                         *)
(* The job works on all organisations in one session and commits once.     *)
(* Mails leave at once; what they were recorded by may be lost.  The       *)
(* address is left out: every row of settings is made with one.            *)
(***************************************************************************)
EXTENDS UnitOfWork, Naturals, FiniteSets

CONSTANTS
    Clients,         \* organisations
    SettingsThreads, \* threads of the pool that runs the handlers
    MaxRuns,         \* bound: runs of the job
    MaxMails         \* bound: mails of a client before an owner asks for one

ASSUME DigestAssumption ==
    IsFiniteSet(SettingsThreads) /\ MaxRuns \in Nat /\ MaxMails \in Nat

VARIABLES
    settings,    \* the settings of each client, NoSettings if it has none
    editing,     \* per thread, the session of the request it is serving
    run,         \* the session of the job
    runs,        \* runs of the job so far
    enabled,     \* clients that have been enabled since the run began
    served,      \* clients that the run has mailed
    mails,       \* digests of each client that were sent
    audits,      \* entries "digest.email_sent" of each client
    lost         \* sessions with a digest that were lost

digestVars ==
    <<settings, editing, run, runs, enabled, served, mails, audits, lost>>

-----------------------------------------------------------------------------

\* digest: daily_digest_enabled; mail: email_alerts_enabled.
Flags == {"on", "off"}
SettingsRow == [digest: Flags, mail: Flags]
NoSettings == [digest |-> "none", mail |-> "none"]
DefaultSettings == [digest |-> "off", mail |-> "on"]

\* audits: the clients for which a session has flushed an entry.
NoEdit == [of |-> "none", seen |-> NoSettings, image |-> NoSettings,
           audits |-> {}]
Edit == [of: Clients \cup {"none"}, seen: SettingsRow \cup {NoSettings},
         image: SettingsRow \cup {NoSettings}, audits: SUBSET Clients]

\* left: the clients whose turn has not come.
NoRun == [busy |-> FALSE, left |-> {}, audits |-> {}]
Run == [busy: BOOLEAN, left: SUBSET Clients, audits: SUBSET Clients]

IsEnabled(row) == row = [digest |-> "on", mail |-> "on"]

DigestInit ==
    /\ settings = [c \in Clients |-> NoSettings]
    /\ editing = [t \in SettingsThreads |-> NoEdit]
    /\ run = NoRun /\ runs = 0
    /\ enabled = {} /\ served = {}
    /\ mails = [c \in Clients |-> 0] /\ audits = mails
    /\ lost = 0

-----------------------------------------------------------------------------
(* Settings.                                                               *)

\* get_or_create_notification_settings, alone (by an alert or a look at the
\* settings) or before an update of some of the columns.
EditSettings(t, c, change) ==
    LET loaded == IF settings[c] = NoSettings THEN DefaultSettings
                                              ELSE settings[c] IN
    /\ editing[t] = NoEdit
    /\ editing' = [editing EXCEPT ![t] =
           [of |-> c, seen |-> settings[c], audits |-> {},
            image |-> [column \in DOMAIN loaded |->
                          IF column \in DOMAIN change THEN change[column]
                                                      ELSE loaded[column]]]]
    /\ UNCHANGED <<settings, run, runs, enabled, served, mails, audits, lost>>

\* send_daily_digest_now: with force, it asks only whether mail is enabled.
SendNow(t, c, force) ==
    LET loaded == IF settings[c] = NoSettings THEN DefaultSettings
                                              ELSE settings[c] IN
    /\ editing[t] = NoEdit
    /\ force \/ loaded.digest = "on"
    /\ loaded.mail = "on"
    /\ mails[c] < MaxMails
    /\ mails' = [mails EXCEPT ![c] = @ + 1]
    /\ editing' = [editing EXCEPT ![t] =
           [of |-> c, seen |-> settings[c], image |-> loaded, audits |-> {c}]]
    /\ UNCHANGED <<settings, run, runs, enabled, served, audits, lost>>

\* What a commit leaves in the row: a second row for the same client is
\* refused (organization_id is unique).
Kept(e) ==
    IF e.seen = NoSettings THEN e.image
    ELSE [column \in DOMAIN e.seen |->
             Written(settings[e.of][column], e.seen[column], e.image[column])]

Counted(added) == [c \in Clients |-> IF c \in added THEN audits[c] + 1 ELSE audits[c]]

CommitSettings(t) ==
    LET e == editing[t] IN
    /\ e # NoEdit
    /\ e.seen = NoSettings => settings[e.of] = NoSettings
    /\ settings' = [settings EXCEPT ![e.of] = Kept(e)]
    /\ enabled' = {c \in enabled : IsEnabled(settings'[c])}
    /\ audits' = Counted(e.audits)
    /\ editing' = [editing EXCEPT ![t] = NoEdit]
    /\ UNCHANGED <<run, runs, served, mails, lost>>

\* A second row, an exception, a restart: the session is rolled back.
AbortSettings(t) ==
    /\ editing[t] # NoEdit
    /\ lost' = IF editing[t].audits = {} THEN lost ELSE lost + 1
    /\ editing' = [editing EXCEPT ![t] = NoEdit]
    /\ UNCHANGED <<settings, run, runs, enabled, served, mails, audits>>

-----------------------------------------------------------------------------
(* The job.                                                                *)

\* run_daily_digest_job, once a day.
RunBegins ==
    /\ ~run.busy /\ runs < MaxRuns
    /\ runs' = runs + 1
    /\ run' = [busy |-> TRUE, left |-> Clients, audits |-> {}]
    /\ enabled' = {c \in Clients : IsEnabled(settings[c])}
    /\ served' = {}
    /\ UNCHANGED <<settings, editing, mails, audits, lost>>

\* A defect: a client that wants no digest ends the loop.
BadAfterSkip(c) == [run EXCEPT !.left = {}]

\* The loop goes on with the next client.
AfterSkip(c) == [run EXCEPT !.left = @ \ {c}]

\* send_due_digests_for_all_organizations: no settings, or no digest wanted,
\* or no mail.
RunSkips(c) ==
    /\ c \in run.left /\ ~IsEnabled(settings[c])
    /\ run' = AfterSkip(c)
    /\ UNCHANGED <<settings, editing, runs, enabled, served, mails, audits, lost>>

\* send_daily_digest: the mail, then its entry.
RunMails(c) ==
    /\ c \in run.left /\ IsEnabled(settings[c])
    /\ mails' = [mails EXCEPT ![c] = @ + 1]
    /\ served' = served \cup {c}
    /\ run' = [run EXCEPT !.left = @ \ {c}, !.audits = @ \cup {c}]
    /\ UNCHANGED <<settings, editing, runs, enabled, audits, lost>>

\* A defect: a mail that could not be sent is recorded and passed over.
BadAfterFailure(c) == [run EXCEPT !.left = @ \ {c}, !.audits = @ \cup {c}]

\* The exception leaves the loop and the job: its session is closed.
AfterFailure(c) == NoRun

\* The mail server refuses or does not answer.
RunFails(c) ==
    /\ c \in run.left /\ IsEnabled(settings[c])
    /\ run' = AfterFailure(c)
    /\ lost' = lost + 1
    /\ UNCHANGED <<settings, editing, runs, enabled, served, mails, audits>>

\* The commit at the end of the job.
RunCommits ==
    /\ run.busy /\ run.left = {}
    /\ audits' = Counted(run.audits)
    /\ run' = NoRun
    /\ UNCHANGED <<settings, editing, runs, enabled, served, mails, lost>>

\* Any other exception, a restart, a commit that fails: run_daily_digest_job
\* catches nothing, and what the session was to record is gone.
RunLost ==
    /\ run.busy
    /\ run' = NoRun
    /\ lost' = lost + 1
    /\ UNCHANGED <<settings, editing, runs, enabled, served, mails, audits>>

\* What one request may change: nothing, or one of the two columns.
Changes == {[column \in {} |-> "on"]}
               \cup {[digest |-> f] : f \in Flags} \cup {[mail |-> f] : f \in Flags}

DigestNext ==
    \/ RunBegins \/ RunCommits \/ RunLost
    \/ \E c \in Clients : RunSkips(c) \/ RunMails(c) \/ RunFails(c)
    \/ \E t \in SettingsThreads :
          \/ CommitSettings(t) \/ AbortSettings(t)
          \/ \E c \in Clients :
                \/ \E change \in Changes : EditSettings(t, c, change)
                \/ \E force \in BOOLEAN : SendNow(t, c, force)

DigestSpec == DigestInit /\ [][DigestNext]_digestVars

-----------------------------------------------------------------------------
(* Properties.                                                             *)

\* The rows and the sessions hold what the code may write.
DigestTypeOK ==
    /\ settings \in [Clients -> SettingsRow \cup {NoSettings}]
    /\ editing \in [SettingsThreads -> Edit]
    /\ run \in Run /\ runs \in Nat
    /\ enabled \subseteq Clients /\ served \subseteq Clients
    /\ mails \in [Clients -> Nat] /\ audits \in [Clients -> Nat]
    /\ lost \in Nat

\* A run that comes to its commit has mailed every client that had asked for
\* the digest all the while, whatever others had asked for and whoever edited
\* settings meanwhile (send_due_digests_for_all_organizations).
EnabledAreServed ==
    run.busy /\ run.left = {} => enabled \subseteq served

\* An entry of the audit stands for a mail that was sent, and a mail without
\* an entry for a session that was lost after it or is still under way
\* (send_daily_digest).
AuditsFollowMails ==
    \A c \in Clients :
        LET underWay == Cardinality({t \in SettingsThreads : c \in editing[t].audits})
                            + (IF c \in run.audits THEN 1 ELSE 0) IN
        /\ audits[c] + underWay <= mails[c]
        /\ mails[c] <= audits[c] + underWay + lost

-----------------------------------------------------------------------------
(* The inductive invariant of the proofs.                                  *)

\* A session that loaded a row finds it still there.
EditFits(e) ==
    \/ e = NoEdit
    \/ /\ e.of \in Clients /\ e.image \in SettingsRow
       /\ e.seen # NoSettings => settings[e.of] # NoSettings

\* The clients that have been enabled all the while are served or yet to be;
\* a client with an entry has had its turn.
RunFits ==
    /\ ~run.busy => run = NoRun
    /\ run.left \cap run.audits = {}
    /\ \A c \in enabled : IsEnabled(settings[c])
    /\ run.busy => enabled \subseteq served \cup run.left

DigestInv ==
    /\ DigestTypeOK /\ RunFits /\ AuditsFollowMails
    /\ \A t \in SettingsThreads : EditFits(editing[t])
=============================================================================
