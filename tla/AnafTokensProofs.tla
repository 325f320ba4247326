-------------------------- MODULE AnafTokensProofs --------------------------
(***************************************************************************)
(* AnafTokens for every number of authorizations, answers and threads: the *)
(* inductive invariant, and the properties it implies.                     *)
(***************************************************************************)
EXTENDS AnafTokens, Counting

-----------------------------------------------------------------------------
(* Rows and copies.                                                        *)

Rows == AuthRow \cup {NoRow}
Kinds == {"idle", "connect", "callback", "token", "disconnect", "test"}
IntegrationStatuses == {"not_configured", "pending_oauth", "connected", "disconnected"}

LEMMA RowFields ==
    ASSUME NEW r \in Rows
    PROVE  /\ r.access \in 0..MaxAnswers /\ r.refresh \in 0..MaxAnswers
           /\ r # NoRow => r.access # 0 /\ r.status \in {"active", "revoked"}
           /\ r = NoRow => r.access = 0 /\ r.refresh = 0 /\ r.status = "none"
  BY BoundAssumption DEF Rows, AuthRow, NoRow

LEMMA NothingIsNoRow ==
    /\ Nothing \in [Authorizations -> Rows]
    /\ \A a \in Authorizations : Nothing[a] = NoRow
  BY DEF Nothing, Rows

LEMMA JobFields ==
    ASSUME NEW j \in Job
    PROVE  /\ j.kind \in Kinds /\ j.step \in Steps /\ j.answer \in 0..MaxAnswers
           /\ j.seen \in [Authorizations -> Rows]
           /\ j.image \in [Authorizations -> Rows]
           /\ j.was \in IntegrationRow /\ j.becomes \in IntegrationRow
  BY DEF Job, Kinds, Rows

LEMMA IdleFields ==
    /\ Idle \in Job /\ Idle.kind = "idle" /\ Idle.step = "idle" /\ Idle.answer = 0
    /\ Idle.seen = Nothing /\ Idle.image = Nothing
  BY NothingIsNoRow, BoundAssumption
  DEF Idle, Job, Kinds, Rows, Steps, NotRead, IntegrationRow

LEMMA IdleAddsNothing == Added(Idle) = {}
  BY IdleFields, NothingIsNoRow DEF Added

\* What a session has after the answer n was saved in its copy of r.
LEMMA SavedType ==
    ASSUME NEW r \in Rows, NEW n \in 1..MaxAnswers
    PROVE  /\ Saved(r, n) \in AuthRow /\ Saved(r, n) # NoRow
           /\ Saved(r, n).access = n /\ Saved(r, n).status = "active"
           /\ Saved(r, n).refresh = IF answered[n] THEN n ELSE r.refresh
  BY BoundAssumption DEF Saved, Rows, AuthRow, NoRow

LEMMA LoadedType ==
    ASSUME TypeOK, NEW a \in Authorizations
    PROVE  /\ Loaded({a}) \in [Authorizations -> Rows]
           /\ Loaded({a})[a] = auth[a]
           /\ \A b \in Authorizations : b # a => Loaded({a})[b] = NoRow
  BY DEF TypeOK, Loaded, Rows

-----------------------------------------------------------------------------
(* Requests.                                                               *)

\* A session that has nothing of the authorizations.
EmptyHanded(j) ==
    /\ j \in Job /\ j.step # "expiring"
    /\ j.seen = Nothing /\ j.image = Nothing

\* A session with the same work on the authorizations as another.
SameWork(j, old) ==
    /\ j \in Job /\ j.kind = old.kind /\ j.answer = old.answer
    /\ j.seen = old.seen /\ j.image = old.image
    /\ j.step \notin {"answered", "expiring"}

LEMMA WithIntegrationType ==
    ASSUME TypeOK, NEW j \in Job, NEW status \in IntegrationStatuses
    PROVE  WithIntegration(j, status) \in Job /\ SameWork(WithIntegration(j, status), j)
  BY DEF WithIntegration, SameWork, Job, TypeOK, Steps, IntegrationRow,
         IntegrationStatuses

\* connect.
NewConnect == [Idle EXCEPT !.kind = "connect"]

LEMMA NewConnectType ==
    EmptyHanded(NewConnect) /\ NewConnect.answer = 0
  BY IdleFields DEF NewConnect, EmptyHanded, Job

\* test.
NewTest(becomes) ==
    [Idle EXCEPT !.kind = "test", !.step = "ready", !.was = integration,
                 !.becomes = becomes]

LEMMA NewTestType ==
    ASSUME TypeOK, NEW becomes \in IntegrationRow
    PROVE  /\ EmptyHanded(NewTest(becomes)) /\ NewTest(becomes).answer = 0
           /\ NewTest(becomes).step = "ready"
  BY IdleFields DEF NewTest, EmptyHanded, Job, TypeOK, Steps

\* disconnect.
AllRevoked ==
    [a \in Authorizations |-> IF a \in Stored THEN [auth[a] EXCEPT !.status = "revoked"]
                                              ELSE NoRow]

NewDisconnect ==
    [Idle EXCEPT !.kind = "disconnect", !.step = "listed", !.seen = auth,
                 !.image = AllRevoked]

LEMMA AllRevokedType ==
    ASSUME TypeOK
    PROVE  /\ AllRevoked \in [Authorizations -> Rows]
           /\ \A a \in Authorizations :
                  /\ AllRevoked[a].access = auth[a].access
                  /\ AllRevoked[a].refresh = auth[a].refresh
                  /\ AllRevoked[a].status # "active"
                  /\ AllRevoked[a] = NoRow <=> auth[a] = NoRow
  <1> SUFFICES ASSUME NEW a \in Authorizations
               PROVE  /\ AllRevoked[a] \in Rows
                      /\ AllRevoked[a].access = auth[a].access
                      /\ AllRevoked[a].refresh = auth[a].refresh
                      /\ AllRevoked[a].status # "active"
                      /\ AllRevoked[a] = NoRow <=> auth[a] = NoRow
    BY DEF AllRevoked
  <1>1. auth[a] \in Rows
    BY DEF TypeOK, Rows
  <1>2. CASE auth[a] = NoRow
    BY <1>2 DEF AllRevoked, Stored, Rows, NoRow
  <1>3. CASE auth[a] # NoRow
    <2>1. auth[a] \in AuthRow
      BY <1>1, <1>3 DEF Rows
    <2>2. AllRevoked[a] = [auth[a] EXCEPT !.status = "revoked"]
      BY <1>3 DEF AllRevoked, Stored
    <2>3. AllRevoked[a] \in AuthRow /\ AllRevoked[a].status = "revoked"
          /\ AllRevoked[a].access = auth[a].access
          /\ AllRevoked[a].refresh = auth[a].refresh
      BY <2>1, <2>2 DEF AuthRow
    <2>4. AllRevoked[a] # NoRow
      BY <2>3 DEF NoRow
    <2>5. QED
      BY <1>3, <2>3, <2>4 DEF Rows
  <1>4. QED
    BY <1>2, <1>3

LEMMA NewDisconnectType ==
    ASSUME TypeOK
    PROVE  /\ NewDisconnect \in Job /\ NewDisconnect.kind = "disconnect"
           /\ NewDisconnect.step = "listed" /\ NewDisconnect.answer = 0
           /\ NewDisconnect.seen = auth /\ NewDisconnect.image = AllRevoked
  <1>1. auth \in [Authorizations -> Rows] /\ AllRevoked \in [Authorizations -> Rows]
    BY AllRevokedType DEF TypeOK, Rows
  <1>2. QED
    BY <1>1, IdleFields DEF NewDisconnect, Job, Steps, Rows

\* ANAF's answer to a callback.
NewCallback(n) == [Idle EXCEPT !.kind = "callback", !.step = "answered", !.answer = n]

LEMMA NewCallbackType ==
    ASSUME NEW n \in 1..MaxAnswers
    PROVE  EmptyHanded(NewCallback(n)) /\ NewCallback(n).answer = n
  <1>1. n \in 0..MaxAnswers
    BY BoundAssumption
  <1>2. QED
    BY <1>1, IdleFields DEF NewCallback, EmptyHanded, Job, Steps

\* A callback that saves its tokens in a row.
Saving(j, a) ==
    [j EXCEPT !.step = "saved", !.seen = Loaded({a}),
              !.image[a] = Saved(auth[a], j.answer)]

LEMMA SavingType ==
    ASSUME TypeOK, NEW j \in Job, NEW a \in Authorizations, j.answer # 0,
           \A b \in Authorizations : j.image[b] = NoRow
    PROVE  /\ Saving(j, a) \in Job /\ Saving(j, a).kind = j.kind
           /\ Saving(j, a).step = "saved" /\ Saving(j, a).answer = j.answer
           /\ Saving(j, a).seen = Loaded({a})
           /\ Saving(j, a).image[a] = Saved(auth[a], j.answer)
           /\ \A b \in Authorizations : b # a => Saving(j, a).image[b] = NoRow
  <1>1. auth[a] \in Rows /\ j.answer \in 1..MaxAnswers
    BY JobFields, BoundAssumption DEF TypeOK, Rows
  <1>2. Saved(auth[a], j.answer) \in AuthRow
    BY <1>1, SavedType
  <1>3. Loaded({a}) \in [Authorizations -> Rows]
    BY LoadedType
  <1> DEFINE image == [j.image EXCEPT ![a] = Saved(auth[a], j.answer)]
  <1>4. /\ image \in [Authorizations -> Rows] /\ image[a] = Saved(auth[a], j.answer)
        /\ \A b \in Authorizations : b # a => image[b] = NoRow
    BY <1>2, JobFields DEF Rows
  <1>5. Saving(j, a) = [j EXCEPT !.step = "saved", !.seen = Loaded({a}),
                                 !.image = image]
    BY DEF Saving, Job
  <1> HIDE DEF image
  <1>6. QED
    BY <1>3, <1>4, <1>5 DEF Job, Steps, Rows

\* A session whose token must be refreshed.
NewToken(a) ==
    [Idle EXCEPT !.kind = "token", !.step = "expiring", !.seen = Loaded({a}),
                 !.image = Loaded({a})]

LEMMA NewTokenType ==
    ASSUME TypeOK, NEW a \in Authorizations
    PROVE  /\ NewToken(a) \in Job /\ NewToken(a).kind = "token"
           /\ NewToken(a).step = "expiring" /\ NewToken(a).answer = 0
           /\ NewToken(a).seen = Loaded({a}) /\ NewToken(a).image = Loaded({a})
  <1>1. Loaded({a}) \in [Authorizations -> Rows]
    BY LoadedType
  <1>2. QED
    BY <1>1, IdleFields DEF NewToken, Job, Steps, Rows

\* ANAF's answer to a refresh.
Heard(j, n) == [j EXCEPT !.step = "answered", !.answer = n]

LEMMA HeardType ==
    ASSUME NEW j \in Job, NEW n \in 1..MaxAnswers
    PROVE  /\ Heard(j, n) \in Job /\ Heard(j, n).kind = j.kind
           /\ Heard(j, n).step = "answered" /\ Heard(j, n).answer = n
           /\ Heard(j, n).seen = j.seen /\ Heard(j, n).image = j.image
  <1>1. n \in 0..MaxAnswers
    BY BoundAssumption
  <1>2. QED
    BY <1>1 DEF Heard, Job, Steps

\* A refresh that saves its tokens in the row it loaded.
Refreshed(j, a) ==
    [j EXCEPT !.step = "ready", !.image[a] = Saved(j.seen[a], j.answer)]

LEMMA RefreshedType ==
    ASSUME NEW j \in Job, NEW a \in Authorizations, j.answer # 0
    PROVE  /\ Refreshed(j, a) \in Job /\ Refreshed(j, a).kind = j.kind
           /\ Refreshed(j, a).step = "ready" /\ Refreshed(j, a).answer = j.answer
           /\ Refreshed(j, a).seen = j.seen
           /\ Refreshed(j, a).image[a] = Saved(j.seen[a], j.answer)
           /\ \A b \in Authorizations : b # a => Refreshed(j, a).image[b] = j.image[b]
  <1>1. j.seen[a] \in Rows /\ j.answer \in 1..MaxAnswers
    BY JobFields, BoundAssumption
  <1>2. Saved(j.seen[a], j.answer) \in AuthRow
    BY <1>1, SavedType
  <1> DEFINE image == [j.image EXCEPT ![a] = Saved(j.seen[a], j.answer)]
  <1>3. /\ image \in [Authorizations -> Rows] /\ image[a] = Saved(j.seen[a], j.answer)
        /\ \A b \in Authorizations : b # a => image[b] = j.image[b]
    BY <1>2, JobFields DEF Rows
  <1>4. Refreshed(j, a) = [j EXCEPT !.step = "ready", !.image = image]
    BY DEF Refreshed, Job
  <1> HIDE DEF image
  <1>5. QED
    BY <1>3, <1>4 DEF Job, Steps, Rows

-----------------------------------------------------------------------------
(* What a step must keep.                                                  *)

\* ANAF's answers are as they were, with one more perhaps.
Remembers ==
    /\ answered' \in Seq(BOOLEAN) /\ Len(answered) \in Nat /\ Len(answered') \in Nat
    /\ Len(answered) <= Len(answered')
    /\ \A n \in 1..Len(answered) : answered'[n] = answered[n]

LEMMA AnswersGrow ==
    ASSUME TypeOK,
           answered' = answered \/ \E c \in BOOLEAN : answered' = Append(answered, c)
    PROVE  Remembers
  <1>1. answered \in Seq(BOOLEAN)
    BY DEF TypeOK
  <1>2. CASE answered' = answered
    BY <1>1, <1>2 DEF Remembers
  <1>3. CASE \E c \in BOOLEAN : answered' = Append(answered, c)
    BY <1>1, <1>3 DEF Remembers
  <1>4. QED
    BY <1>2, <1>3

LEMMA KnownStays ==
    ASSUME Remembers, NEW r, Known(r)
    PROVE  Known(r)'
  BY DEF Remembers, Known

LEMMA OtherSessions ==
    ASSUME Remembers, NEW v \in Threads, job[v] \in Job, SessionFits(job[v]),
           job'[v] = job[v],
           \A a \in Authorizations : auth[a] # NoRow => auth'[a] # NoRow,
           \A a \in Added(job[v]) : auth'[a] = NoRow
    PROVE  SessionFits(job[v])'
  <1>1. PICK j \in Job : j = job[v]
    OBVIOUS
  <1>2. /\ job'[v] = j /\ SessionFits(j) /\ j.answer \in Nat
        /\ \A a \in Added(j) : auth'[a] = NoRow
    BY <1>1, JobFields, BoundAssumption
  <1>3. /\ j.answer \in 0..Len(answered')
        /\ j.answer # 0 => answered'[j.answer] = answered[j.answer]
    BY <1>2 DEF SessionFits, Remembers
  <1>4. ASSUME NEW a \in Authorizations
        PROVE  Known(j.seen[a])' /\ CopyFits(j, a)'
    BY <1>2, <1>3, KnownStays DEF SessionFits, CopyFits
  <1>5. SessionFits(j)'
    BY <1>2, <1>3, <1>4 DEF SessionFits
  <1>6. QED
    BY <1>2, <1>5 DEF SessionFits, Known, CopyFits, Added

\* The rows that sessions add, and their number.
Coming == UNION {Added(job[w]) : w \in Threads}

LEMMA TablesAreFinite ==
    /\ IsFiniteSet(Stored) /\ IsFiniteSet(Coming)
    /\ Cardinality(Stored) \in Nat /\ Cardinality(Coming) \in Nat
    /\ Cardinality(Threads) \in Nat
  <1>1. Stored \in SUBSET Authorizations /\ Coming \in SUBSET Authorizations
    BY DEF Stored, Coming, Added
  <1>2. QED
    BY <1>1, PartIsSmaller, SessionsAreFinite, AuthorizationsAreFinite,
       FS_CardinalityType

\* A step of one session that writes no row: it adds none that it did not add
\* before, or sees none at all.
LEMMA OneSession ==
    ASSUME IInv, NEW w \in Threads, NEW old \in Job, old = job[w], NEW j \in Job,
           job' = [job EXCEPT ![w] = j],
           auth' = auth, integration' \in IntegrationRow, Remembers,
           SessionFits(j)', j.answer \in {0, old.answer, Len(answered) + 1},
           \A a \in Authorizations : j.seen[a] \in {NoRow, auth[a], old.seen[a]},
           \/ Added(j) \subseteq Added(old)
           \/ Stored = {} /\ \A v \in Threads : Added(j) \cap Added(job[v]) = {}
    PROVE  IInv'
  <1>1. /\ TypeOK /\ answered \in Seq(BOOLEAN)
        /\ \A v \in Threads : job[v] \in Job /\ SessionFits(job[v])
    BY DEF IInv, TypeOK
  <1>2. /\ job'[w] = j /\ job' \in [Threads -> Job]
        /\ \A v \in Threads : v # w => job'[v] = job[v]
    BY <1>1 DEF TypeOK
  <1>3. TypeOK'
    BY <1>1, <1>2 DEF TypeOK, Remembers
  <1>4. ASSUME NEW v \in Threads PROVE SessionFits(job[v])'
    <2>1. CASE v = w
      BY <1>2, <2>1 DEF SessionFits, Known, CopyFits, Added
    <2>2. CASE v # w
      <3>1. \A a \in Added(job[v]) : auth'[a] = NoRow
        BY <1>1 DEF SessionFits, Added
      <3>2. QED
        BY <1>1, <1>2, <2>2, <3>1, OtherSessions
    <2>3. QED
      BY <2>1, <2>2
  <1>5. \A a \in Authorizations : Known(auth[a]) /\ Known(auth[a])'
    BY KnownStays DEF IInv, Known
  <1>6. TokensBelongTogether'
    <2>1. ASSUME NEW a \in Stored
          PROVE  answered'[auth[a].access] = answered[auth[a].access]
      <3>1. auth[a] \in Rows /\ auth[a] # NoRow
        BY <1>1 DEF Stored, TypeOK, Rows
      <3>2. auth[a].access \in 1..Len(answered)
        BY <1>5, <3>1, RowFields, BoundAssumption DEF Known, Stored, Remembers
      <3>3. QED
        BY <3>2 DEF Remembers
    <2>2. QED
      BY <2>1 DEF IInv, TokensBelongTogether, Stored
  <1>7. ASSUME NEW n, n # 0, Unused(n) PROVE Unused(n)'
    <2>1. NoRow.access = 0 /\ NoRow.refresh = 0
      BY DEF NoRow
    <2>2. ASSUME NEW a \in Authorizations, NEW v \in Threads
          PROVE  n \notin {job'[v].seen[a].access, job'[v].seen[a].refresh}
      <3>1. job'[v].seen[a] \in {NoRow, auth[a], job[v].seen[a]}
        BY <1>2
      <3>2. QED
        BY <1>7, <2>1, <3>1 DEF Unused
    <2>3. QED
      BY <1>7, <2>2 DEF Unused
  <1>8. Unused(Len(answered) + 1)
    BY <1>1, <1>5 DEF Unused, Known, SessionFits
  <1>9. Len(answered) + 1 # 0 /\ Len(answered) \in Nat
    BY <1>1
  <1>10. ASSUME NEW v \in Threads, job'[v].answer # 0
         PROVE  Unused(job[v].answer)'
    <2>1. PICK n : n = job'[v].answer
      OBVIOUS
    <2>2. Unused(n)
      BY <1>2, <1>8, <1>10, <2>1 DEF IInv
    <2>3. Unused(n)'
      BY <1>7, <1>10, <2>1, <2>2
    <2>4. QED
      BY <2>1, <2>3 DEF Unused
  <1>11. SessionsApart'
    <2>1. \A v \in Threads : job[v].answer # Len(answered) + 1
      BY <1>1, <1>9 DEF SessionFits
    <2>2. ASSUME NEW u \in Threads, NEW v \in Threads, u # v
          PROVE  job'[v].answer # 0 => job'[u].answer # job'[v].answer
      BY <1>2, <2>1, <2>2 DEF IInv, SessionsApart
    <2>3. ASSUME NEW u \in Threads, NEW v \in Threads, u # v
          PROVE  Added(job[u])' \cap Added(job[v])' = {}
      <3>1. /\ Added(job[w])' = Added(j)
            /\ \A t \in Threads : t # w => Added(job[t])' = Added(job[t])
        BY <1>2 DEF Added
      <3>2. \A t \in Threads : t # w => Added(j) \cap Added(job[t]) = {}
        BY DEF IInv, SessionsApart
      <3>3. QED
        BY <2>3, <3>1, <3>2 DEF IInv, SessionsApart
    <2>4. QED
      BY <2>2, <2>3 DEF SessionsApart
  <1>12. AuthorizationsAreFew'
    <2>1. /\ IsFiniteSet(Coming) /\ Stored' = Stored
          /\ Cardinality(Stored) + Cardinality(Coming) <= Cardinality(Threads)
      BY TablesAreFinite DEF IInv, AuthorizationsAreFew, Coming, Stored
    <2>2. /\ Added(job[w])' = Added(j)
          /\ \A t \in Threads : t # w => Added(job[t])' = Added(job[t])
      BY <1>2 DEF Added
    <2>3. CASE Added(j) \subseteq Added(old)
      <3>1. Coming' \in SUBSET Coming
        BY <2>2, <2>3 DEF Coming
      <3>2. Cardinality(Coming') \in Nat /\ Cardinality(Coming') <= Cardinality(Coming)
        BY <2>1, <3>1, PartIsSmaller
      <3>3. Cardinality(Stored') + Cardinality(Coming') <= Cardinality(Threads)
        BY <2>1, <3>2, TablesAreFinite
      <3>4. QED
        BY <3>3 DEF AuthorizationsAreFew, Coming
    <2>4. CASE Stored = {}
      <3> DEFINE f == [t \in Threads |-> Added(job[t])']
      <3>1. \A t \in Threads : f[t] = Added(job[t])'
        OBVIOUS
      <3> HIDE DEF f
      <3>2. \A a \in Coming' : \E t \in Threads : a \in f[t]
        BY <3>1 DEF Coming
      <3>3. \A t \in Threads : \A a, b \in f[t] : a = b
        BY <1>4, <3>1 DEF SessionFits
      <3>4. Cardinality(Coming') \in Nat /\ Cardinality(Coming') <= Cardinality(Threads)
        BY <3>2, <3>3, SessionsAreFinite, OneEach
      <3>5. Cardinality(Stored') = 0
        BY <2>1, <2>4, FS_EmptySet
      <3>6. Cardinality(Stored') + Cardinality(Coming') <= Cardinality(Threads)
        BY <3>4, <3>5, TablesAreFinite
      <3>7. QED
        BY <3>6 DEF AuthorizationsAreFew, Coming
    <2>5. QED
      BY <2>3, <2>4
  <1>13. QED
    BY <1>3, <1>4, <1>5, <1>6, <1>10, <1>11, <1>12 DEF IInv

-----------------------------------------------------------------------------
(* One lemma per action.                                                   *)

LEMMA EmptyHandedStep ==
    ASSUME IInv, NEW w \in Threads, NEW j, EmptyHanded(j),
           job' = [job EXCEPT ![w] = j],
           auth' = auth, integration' = integration, Remembers,
           j.answer \in {0, Len(answered) + 1}, j.answer \in 0..Len(answered'),
           j.step = "answered" => j.answer # 0
    PROVE  IInv'
  <1>1. PICK old \in Job : old = job[w]
    BY DEF IInv, TypeOK
  <1>2. /\ j \in Job /\ j.step # "expiring"
        /\ \A a \in Authorizations : j.seen[a] = NoRow /\ j.image[a] = NoRow
    BY NothingIsNoRow DEF EmptyHanded
  <1>3. Added(j) = {}
    BY <1>2 DEF Added
  <1>4. Known(NoRow)'
    BY DEF Known, NoRow, Remembers
  <1>5. NoRow.status = "none" /\ NoRow.access = 0 /\ NoRow.refresh = 0
    BY DEF NoRow
  <1>6. SessionFits(j)'
    BY <1>2, <1>3, <1>4, <1>5 DEF SessionFits, CopyFits
  <1>7. integration' \in IntegrationRow
    BY DEF IInv, TypeOK
  <1>8. QED
    BY <1>1, <1>2, <1>3, <1>6, <1>7, OneSession

LEMMA ConnectStep ==
    ASSUME IInv, NEW w \in Threads, Connect(w)
    PROVE  IInv'
  <1>1. TypeOK /\ "pending_oauth" \in IntegrationStatuses
    BY DEF IInv, IntegrationStatuses
  <1>2. PICK j \in Job : j = WithIntegration(NewConnect, "pending_oauth")
    BY <1>1, NewConnectType, WithIntegrationType DEF EmptyHanded
  <1>3. EmptyHanded(j) /\ j.answer = 0 /\ j.step # "answered"
    BY <1>1, <1>2, NewConnectType, WithIntegrationType DEF EmptyHanded, SameWork
  <1>4. /\ job' = [job EXCEPT ![w] = j] /\ auth' = auth
        /\ integration' = integration /\ answered' = answered
    BY <1>2 DEF Connect, Begin, NewConnect
  <1>5. Remembers
    BY <1>1, <1>4, AnswersGrow
  <1>6. j.answer \in 0..Len(answered')
    BY <1>3, <1>5 DEF Remembers
  <1>7. QED
    BY <1>3, <1>4, <1>5, <1>6, EmptyHandedStep

LEMMA TestConnectionStep ==
    ASSUME IInv, NEW w \in Threads, TestConnection(w)
    PROVE  IInv'
  <1>1. TypeOK
    BY DEF IInv
  <1>2. PICK becomes \in IntegrationRow :
            /\ job' = [job EXCEPT ![w] = NewTest(becomes)] /\ auth' = auth
            /\ integration' = integration /\ answered' = answered
    <2> DEFINE status == IF integration.mode = "real" THEN "pending_oauth"
                                                      ELSE "connected"
               becomes == [integration EXCEPT !.status = status]
    <2>1. becomes \in IntegrationRow
      BY <1>1 DEF TypeOK, IntegrationRow
    <2>2. /\ job' = [job EXCEPT ![w] = NewTest(becomes)] /\ auth' = auth
          /\ integration' = integration /\ answered' = answered
      BY DEF TestConnection, Begin, NewTest
    <2> HIDE DEF becomes
    <2>3. QED
      BY <2>1, <2>2
  <1>3. PICK j \in Job : j = NewTest(becomes)
    BY <1>1, NewTestType DEF EmptyHanded
  <1>4. EmptyHanded(j) /\ j.answer = 0 /\ j.step # "answered"
    BY <1>1, <1>3, NewTestType
  <1>5. Remembers
    BY <1>1, <1>2, AnswersGrow
  <1>6. j.answer \in 0..Len(answered')
    BY <1>4, <1>5 DEF Remembers
  <1>7. QED
    BY <1>2, <1>3, <1>4, <1>5, <1>6, EmptyHandedStep

LEMMA AbortStep ==
    ASSUME IInv, NEW w \in Threads, Abort(w)
    PROVE  IInv'
  <1>1. TypeOK /\ job' = [job EXCEPT ![w] = Idle] /\ auth' = auth
        /\ integration' = integration /\ answered' = answered
    BY DEF Abort, IInv
  <1>2. EmptyHanded(Idle) /\ Idle.answer = 0 /\ Idle.step # "answered"
    BY IdleFields DEF EmptyHanded
  <1>3. Remembers
    BY <1>1, AnswersGrow
  <1>4. Idle.answer \in 0..Len(answered')
    BY <1>2, <1>3 DEF Remembers
  <1>5. QED
    BY <1>1, <1>2, <1>3, <1>4, EmptyHandedStep

\* ANAF's answer is a new one.
LEMMA NewAnswer ==
    ASSUME TypeOK, NEW c \in BOOLEAN, Answer(c)
    PROVE  /\ Remembers /\ Len(answered') = Len(answered) + 1
           /\ Len(answered') \in 1..MaxAnswers
  <1>1. /\ answered \in Seq(BOOLEAN) /\ answered' = Append(answered, c)
        /\ Len(answered) < MaxAnswers
    BY DEF TypeOK, Answer
  <1>2. Len(answered') = Len(answered) + 1 /\ Len(answered) \in Nat
    BY <1>1
  <1>3. QED
    BY <1>1, <1>2, AnswersGrow, BoundAssumption

LEMMA CallbackStep ==
    ASSUME IInv, NEW w \in Threads, NEW c \in BOOLEAN, Callback(w, c)
    PROVE  IInv'
  <1>1. TypeOK /\ Answer(c)
    BY DEF IInv, Callback
  <1>2. PICK n \in 1..MaxAnswers : n = Len(answered') /\ n = Len(answered) + 1
    BY <1>1, NewAnswer
  <1>3. /\ job' = [job EXCEPT ![w] = NewCallback(n)] /\ auth' = auth
        /\ integration' = integration
    BY <1>2 DEF Callback, Begin, NewCallback
  <1>4. EmptyHanded(NewCallback(n)) /\ NewCallback(n).answer = n /\ n # 0
    BY <1>2, NewCallbackType, BoundAssumption
  <1>5. Remembers /\ n \in 0..Len(answered')
    BY <1>1, <1>2, NewAnswer DEF Remembers
  <1>6. QED
    BY <1>2, <1>3, <1>4, <1>5, EmptyHandedStep

\* A step that reads the integration, or hears an answer, leaves the session
\* with the copies it had.
LEMMA SameCopiesStep ==
    ASSUME IInv, NEW w \in Threads, NEW old \in Job, old = job[w], NEW j \in Job,
           job' = [job EXCEPT ![w] = j],
           auth' = auth, integration' = integration, Remembers,
           j.kind = old.kind, j.seen = old.seen, j.image = old.image,
           j.step # "expiring", j.step = "answered" => j.kind = "token",
           \/ j.answer = old.answer /\ j.step # "answered"
           \/ /\ j.answer = Len(answered) + 1 /\ j.answer = Len(answered')
              /\ old.step = "expiring"
    PROVE  IInv'
  <1>1. TypeOK /\ SessionFits(old)
    BY DEF IInv
  <1>2. Len(answered) \in Nat /\ Len(answered') \in Nat
    BY DEF Remembers
  <1>3. /\ j.answer \in 0..Len(answered')
        /\ j.answer \in {0, old.answer, Len(answered) + 1}
        /\ j.step = "answered" => j.answer # 0
    BY <1>1, <1>2 DEF SessionFits, Remembers
  <1>4. ASSUME NEW a \in Authorizations PROVE Known(j.seen[a])' /\ CopyFits(j, a)'
    <2>1. Known(j.seen[a]) /\ CopyFits(old, a)
      BY <1>1 DEF SessionFits
    <2>2. CASE j.answer = old.answer
      <3>1. j.answer # 0 => answered'[j.answer] = answered[j.answer]
        BY <1>1, <2>2 DEF SessionFits, Remembers
      <3>2. QED
        BY <2>1, <2>2, <3>1, KnownStays DEF CopyFits
    <2>3. CASE old.step = "expiring"
      BY <1>1, <2>1, <2>3, KnownStays DEF CopyFits, SessionFits
    <2>4. QED
      BY <2>2, <2>3
  <1>5. Added(j) = Added(old)
    BY DEF Added
  <1>6. SessionFits(j)'
    BY <1>1, <1>3, <1>4, <1>5 DEF SessionFits
  <1>7. integration' \in IntegrationRow
    BY <1>1 DEF TypeOK
  <1>8. QED
    BY <1>3, <1>5, <1>6, <1>7, OneSession

LEMMA IntegrationReadStep ==
    ASSUME IInv, NEW w \in Threads, NEW status \in IntegrationStatuses,
           job' = [job EXCEPT ![w] = WithIntegration(job[w], status)],
           UNCHANGED <<auth, integration, answered>>
    PROVE  IInv'
  <1>1. TypeOK /\ auth' = auth /\ integration' = integration /\ answered' = answered
    BY DEF IInv
  <1>2. PICK old \in Job : old = job[w]
    BY DEF IInv, TypeOK
  <1>3. PICK j \in Job : j = WithIntegration(old, status)
    BY <1>1, WithIntegrationType
  <1>4. SameWork(j, old)
    BY <1>1, <1>3, WithIntegrationType
  <1>5. Remembers
    BY <1>1, AnswersGrow
  <1>6. job' = [job EXCEPT ![w] = j]
    BY <1>2, <1>3
  <1>7. QED
    BY <1>1, <1>2, <1>4, <1>5, <1>6, SameCopiesStep DEF SameWork

LEMMA IntegrationSteps ==
    ASSUME IInv, NEW w \in Threads, DisconnectIntegration(w) \/ CallbackIntegration(w)
    PROVE  IInv'
  BY IntegrationReadStep
  DEF DisconnectIntegration, CallbackIntegration, IntegrationStatuses

LEMMA RefreshStep ==
    ASSUME IInv, NEW w \in Threads, NEW a \in Authorizations, NEW c \in BOOLEAN,
           Refresh(w, a, c)
    PROVE  IInv'
  <1>1. TypeOK /\ Answer(c) /\ SessionFits(job[w]) /\ job[w].step = "expiring"
    BY DEF IInv, Refresh
  <1>2. PICK old \in Job : old = job[w]
    BY <1>1 DEF TypeOK
  <1>3. PICK n \in 1..MaxAnswers : n = Len(answered') /\ n = Len(answered) + 1
    BY <1>1, NewAnswer
  <1>4. PICK j \in Job : j = Heard(old, n)
    BY HeardType
  <1>5. /\ j.kind = old.kind /\ j.step = "answered" /\ j.answer = n
        /\ j.seen = old.seen /\ j.image = old.image
    BY <1>4, HeardType
  <1>6. /\ job' = [job EXCEPT ![w] = j] /\ auth' = auth
        /\ integration' = integration
    BY <1>2, <1>3, <1>4 DEF Refresh, Heard
  <1>7. Remembers /\ old.kind = "token"
    BY <1>1, <1>2, NewAnswer DEF SessionFits
  <1>8. QED
    BY <1>1, <1>2, <1>3, <1>5, <1>6, <1>7, SameCopiesStep

\* A session that loads rows and changes no token of them.
LEMMA LoadingStep ==
    ASSUME IInv, NEW w \in Threads, NEW j \in Job,
           job' = [job EXCEPT ![w] = j],
           UNCHANGED <<auth, integration, answered>>,
           j.answer = 0, j.kind # "callback", j.step # "answered",
           j.step = "expiring" => j.kind = "token",
           \A a \in Authorizations :
               /\ j.seen[a] \in {NoRow, auth[a]}
               /\ j.image[a].access = j.seen[a].access
               /\ j.image[a].refresh = j.seen[a].refresh
               /\ j.image[a] = NoRow <=> j.seen[a] = NoRow
               /\ j.image[a].status = "active" => j.seen[a].status = "active"
               /\ j.kind = "token" /\ j.seen[a] # NoRow => j.seen[a].status = "active"
    PROVE  IInv'
  <1>1. /\ TypeOK /\ auth' = auth /\ answered' = answered /\ integration' = integration
        /\ \A a \in Authorizations : Known(auth[a])
    BY DEF IInv
  <1>2. PICK old \in Job : old = job[w]
    BY DEF IInv, TypeOK
  <1>3. Remembers
    BY <1>1, AnswersGrow
  <1>4. Known(NoRow)
    BY <1>3 DEF Known, NoRow, Remembers
  <1>5. Added(j) = {}
    BY DEF Added
  <1>6. \A a \in Authorizations : Known(j.seen[a])' /\ CopyFits(j, a)'
    BY <1>1, <1>4 DEF Known, CopyFits
  <1>7. j.answer \in 0..Len(answered')
    BY <1>3 DEF Remembers
  <1>8. SessionFits(j)'
    BY <1>1, <1>5, <1>6, <1>7 DEF SessionFits
  <1>9. integration' \in IntegrationRow
    BY <1>1 DEF TypeOK
  <1>10. QED
    BY <1>1, <1>2, <1>3, <1>5, <1>8, <1>9, OneSession

LEMMA DisconnectStep ==
    ASSUME IInv, NEW w \in Threads, Disconnect(w)
    PROVE  IInv'
  <1>1. TypeOK
    BY DEF IInv
  <1>2. PICK j \in Job : j = NewDisconnect
    BY <1>1, NewDisconnectType
  <1>3. /\ j.kind = "disconnect" /\ j.step = "listed" /\ j.answer = 0
        /\ j.seen = auth /\ j.image = AllRevoked
    BY <1>1, <1>2, NewDisconnectType
  <1>4. /\ job' = [job EXCEPT ![w] = j] /\ auth' = auth
        /\ integration' = integration /\ answered' = answered
    BY <1>2 DEF Disconnect, Begin, NewDisconnect, AllRevoked
  <1>5. QED
    BY <1>1, <1>3, <1>4, AllRevokedType, LoadingStep

LEMMA TokenExpiringStep ==
    ASSUME IInv, NEW w \in Threads, NEW a \in Authorizations, TokenExpiring(w, a)
    PROVE  IInv'
  <1>1. TypeOK /\ auth[a].status = "active"
    BY DEF IInv, TokenExpiring, Active
  <1>2. PICK j \in Job : j = NewToken(a)
    BY <1>1, NewTokenType
  <1>3. /\ j.kind = "token" /\ j.step = "expiring" /\ j.answer = 0
        /\ j.seen = Loaded({a}) /\ j.image = Loaded({a})
    BY <1>1, <1>2, NewTokenType
  <1>4. /\ job' = [job EXCEPT ![w] = j] /\ auth' = auth
        /\ integration' = integration /\ answered' = answered
    BY <1>2 DEF TokenExpiring, Begin, NewToken
  <1>5. /\ Loaded({a})[a] = auth[a]
        /\ \A b \in Authorizations : b # a => Loaded({a})[b] = NoRow
    BY <1>1, LoadedType
  <1>6. \A b \in Authorizations : /\ j.image[b] = j.seen[b]
                                  /\ j.seen[b] \in {NoRow, auth[b]}
    BY <1>3, <1>5
  <1>8. \A b \in Authorizations : j.seen[b] # NoRow => j.seen[b].status = "active"
    BY <1>1, <1>3, <1>5
  <1>9. QED
    BY <1>3, <1>4, <1>6, <1>8, LoadingStep

\* The other copies of a session are none, or as they were; it adds a row only
\* if there is none and no session adds that one.
KeepsOthers(j, old, a) ==
    \A b \in Authorizations \ {a} :
        \/ j.seen[b] = NoRow /\ j.image[b] = NoRow
        \/ j.seen[b] = old.seen[b] /\ j.image[b] = old.image[b]

AddsOnly(j, a) ==
    /\ Stored = {} /\ \A b \in Authorizations \ {a} : j.image[b] = NoRow
    /\ \A v \in Threads : a \notin Added(job[v])

\* A session saves the tokens of its answer in a copy of one row.
LEMMA SavingStep ==
    ASSUME IInv, NEW w \in Threads, NEW old \in Job, old = job[w], NEW j \in Job,
           NEW a \in Authorizations, old.answer # 0,
           job' = [job EXCEPT ![w] = j],
           UNCHANGED <<auth, integration, answered>>,
           j.kind = old.kind, j.answer = old.answer, j.step \in {"saved", "ready"},
           j.seen[a] \in {auth[a], old.seen[a]},
           j.image[a] = Saved(j.seen[a], j.answer),
           KeepsOthers(j, old, a),
           j.kind = "callback" \/ j.seen[a].status = "active",
           j.kind = "token" => j.seen = old.seen,
           j.seen[a] # NoRow \/ AddsOnly(j, a)
    PROVE  IInv'
  <1>1. /\ TypeOK /\ auth' = auth /\ answered' = answered /\ integration' = integration
        /\ \A b \in Authorizations : Known(auth[b])
        /\ SessionFits(old)
    BY DEF IInv
  <1>2. Remembers
    BY <1>1, AnswersGrow
  <1>3. Known(NoRow) /\ NoRow.status = "none"
    BY <1>2 DEF Known, NoRow, Remembers
  <1>4. j.seen[a] \in Rows /\ j.answer \in 1..MaxAnswers
    BY JobFields, BoundAssumption
  <1>5. /\ j.image[a] # NoRow /\ j.image[a].access = j.answer
        /\ j.image[a].status = "active"
        /\ j.image[a].refresh = IF answered[j.answer] THEN j.answer
                                                      ELSE j.seen[a].refresh
    BY <1>4, SavedType
  <1>6. \A b \in Authorizations \ {a} :
            /\ j.seen[b] \in {NoRow, old.seen[b]}
            /\ \/ j.seen[b] = NoRow /\ j.image[b] = NoRow
               \/ j.seen[b] = old.seen[b] /\ j.image[b] = old.image[b]
    BY DEF KeepsOthers
  <1>7. \A b \in Authorizations : Known(j.seen[b])
    BY <1>1, <1>3, <1>6 DEF SessionFits
  <1>8. \A b \in Authorizations : CopyFits(j, b)
    BY <1>1, <1>4, <1>5, <1>6 DEF CopyFits, SessionFits
  <1>9. \/ Added(j) \subseteq Added(old)
        \/ /\ Stored = {} /\ Added(j) = {a}
           /\ \A v \in Threads : Added(j) \cap Added(job[v]) = {}
    <2>1. CASE j.seen[a] # NoRow
      BY <1>6, <2>1 DEF Added
    <2>2. CASE j.seen[a] = NoRow
      BY <1>5, <2>2 DEF Added, AddsOnly
    <2>3. QED
      BY <2>1, <2>2
  <1>10. SessionFits(j)
    <2>1. \A b, c \in Added(j) : b = c
      BY <1>1, <1>9 DEF SessionFits
    <2>2. \A b \in Added(j) : auth[b] = NoRow
      BY <1>1, <1>9 DEF SessionFits, Stored, Added
    <2>3. ASSUME NEW b \in Authorizations
          PROVE  /\ j.seen[b] # NoRow => j.image[b] # NoRow /\ auth[b] # NoRow
                 /\ j.image[b].status = "active" /\ j.seen[b].status # "active" =>
                        j.kind = "callback"
                 /\ j.kind = "token" /\ j.seen[b] # NoRow => j.seen[b].status = "active"
      <3>1. CASE b = a
        BY <1>1, <1>3, <1>5, <3>1 DEF SessionFits
      <3>2. CASE b # a
        BY <1>1, <1>3, <1>6, <3>2 DEF SessionFits
      <3>3. QED
        BY <3>1, <3>2
    <2>4. j.answer \in 0..Len(answered) /\ j.step \notin {"answered", "expiring"}
      BY <1>1 DEF SessionFits
    <2>5. QED
      BY <1>7, <1>8, <2>1, <2>2, <2>3, <2>4 DEF SessionFits
  <1>11. SessionFits(j)'
    BY <1>1, <1>10 DEF SessionFits, Known, CopyFits
  <1>12. integration' \in IntegrationRow
    BY <1>1 DEF TypeOK
  <1>13. \A b \in Authorizations : j.seen[b] \in {NoRow, auth[b], old.seen[b]}
    BY <1>6
  <1>14. QED
    BY <1>1, <1>2, <1>9, <1>11, <1>12, <1>13, OneSession

LEMMA SaveTokensStep ==
    ASSUME IInv, NEW w \in Threads, NEW a \in Authorizations, SaveTokens(w, a)
    PROVE  IInv'
  <1>1. PICK old \in Job : old = job[w]
    BY DEF IInv, TypeOK
  <1>2. /\ TypeOK /\ SessionFits(old) /\ old.kind = "callback"
        /\ old.step = "answered" /\ a \in Lookup
    BY <1>1 DEF IInv, SaveTokens
  <1>3. /\ old.answer # 0
        /\ \A b \in Authorizations : old.image[b] = NoRow
    BY <1>2 DEF SessionFits
  <1>4. PICK j \in Job : j = Saving(old, a)
    BY <1>2, <1>3, SavingType
  <1>5. /\ j.kind = "callback" /\ j.step = "saved" /\ j.answer = old.answer
        /\ j.seen = Loaded({a}) /\ j.image[a] = Saved(auth[a], old.answer)
        /\ \A b \in Authorizations : b # a => j.image[b] = NoRow
    BY <1>2, <1>3, <1>4, SavingType
  <1>6. /\ j.seen[a] = auth[a]
        /\ \A b \in Authorizations : b # a => j.seen[b] = NoRow
    BY <1>2, <1>5, LoadedType
  <1>7. /\ job' = [job EXCEPT ![w] = j]
        /\ UNCHANGED <<auth, integration, answered>>
    BY <1>1, <1>4 DEF SaveTokens, Saving
  <1>8. j.seen[a] # NoRow \/ AddsOnly(j, a)
    BY <1>2, <1>5, <1>6 DEF Lookup, Stored, AddsOnly
  <1>9. /\ j.image[a] = Saved(j.seen[a], j.answer)
        /\ j.seen[a] \in {auth[a], old.seen[a]}
    BY <1>5, <1>6
  <1>10. KeepsOthers(j, old, a)
    BY <1>5, <1>6 DEF KeepsOthers
  <1>11. /\ j.kind = old.kind /\ j.step \in {"saved", "ready"}
         /\ j.kind = "callback" \/ j.seen[a].status = "active"
         /\ j.kind = "token" => j.seen = old.seen
    BY <1>2, <1>5
  <1>12. QED
    BY <1>1, <1>3, <1>5, <1>7, <1>8, <1>9, <1>10, <1>11, SavingStep

LEMMA SaveRefreshedStep ==
    ASSUME IInv, NEW w \in Threads, NEW a \in Authorizations, SaveRefreshed(w, a)
    PROVE  IInv'
  <1>1. PICK old \in Job : old = job[w]
    BY DEF IInv, TypeOK
  <1>2. /\ TypeOK /\ SessionFits(old) /\ old.kind = "token"
        /\ old.step = "answered" /\ old.seen[a] # NoRow
    BY <1>1 DEF IInv, SaveRefreshed
  <1>3. old.answer # 0 /\ old.seen[a].status = "active"
    BY <1>2 DEF SessionFits
  <1>4. PICK j \in Job : j = Refreshed(old, a)
    BY <1>3, RefreshedType
  <1>5. /\ j.kind = "token" /\ j.step = "ready" /\ j.answer = old.answer
        /\ j.seen = old.seen /\ j.image[a] = Saved(old.seen[a], old.answer)
        /\ \A b \in Authorizations : b # a => j.image[b] = old.image[b]
    BY <1>2, <1>3, <1>4, RefreshedType
  <1>6. /\ job' = [job EXCEPT ![w] = j]
        /\ UNCHANGED <<auth, integration, answered>>
    BY <1>1, <1>4 DEF SaveRefreshed, Refreshed
  <1>7. /\ j.image[a] = Saved(j.seen[a], j.answer)
        /\ j.seen[a] \in {auth[a], old.seen[a]} /\ j.seen[a] # NoRow
        /\ j.seen[a].status = "active"
    BY <1>2, <1>3, <1>5
  <1>8. KeepsOthers(j, old, a)
    BY <1>5 DEF KeepsOthers
  <1>9. /\ j.kind = old.kind /\ j.step \in {"saved", "ready"}
        /\ j.kind = "callback" \/ j.seen[a].status = "active"
        /\ j.kind = "token" => j.seen = old.seen
    BY <1>2, <1>5, <1>7
  <1>10. QED
    BY <1>1, <1>3, <1>5, <1>6, <1>7, <1>8, <1>9, SavingStep

\* What a commit leaves in the row a.
Left(j, a) ==
    CASE a \in Added(j) -> j.image[a]
      [] j.seen[a] # NoRow -> Merged(auth[a], j.seen[a], j.image[a])
      [] OTHER -> auth[a]

LEMMA MergedType ==
    ASSUME NEW r \in AuthRow, NEW seen \in AuthRow, NEW new \in AuthRow
    PROVE  /\ Merged(r, seen, new) \in AuthRow
           /\ Merged(r, seen, new).access = Written(r.access, seen.access, new.access)
           /\ Merged(r, seen, new).refresh = Written(r.refresh, seen.refresh, new.refresh)
           /\ Merged(r, seen, new).status = Written(r.status, seen.status, new.status)
  BY DEF Merged, Written, AuthRow

LEMMA LeftRows ==
    ASSUME IInv, NEW w \in Threads, NEW old \in Job, old = job[w],
           NEW a \in Authorizations, NEW r, r = Left(old, a)
    PROVE  /\ r \in Rows /\ Known(r)
           /\ r # NoRow <=> auth[a] # NoRow \/ a \in Added(old)
           /\ r # NoRow /\ answered[r.access] => r.refresh = r.access
           /\ {r.access, r.refresh} \subseteq
                  {0, auth[a].access, auth[a].refresh, old.answer}
           /\ auth[a].status = "revoked" /\ r.status = "active" =>
                  old.kind = "callback" /\ old.seen[a].status = "revoked"
  <1>1. /\ TypeOK /\ SessionFits(old) /\ Known(auth[a])
        /\ old.answer # 0 => Unused(old.answer)
        /\ auth[a] \in Rows /\ old.seen[a] \in Rows /\ old.image[a] \in Rows
    BY JobFields DEF IInv, TypeOK, Rows
  <1>2. /\ auth[a] # NoRow /\ answered[auth[a].access] =>
               auth[a].refresh = auth[a].access
        /\ CopyFits(old, a) /\ Known(old.seen[a]) /\ old.answer \in 0..Len(answered)
        /\ old.seen[a] # NoRow => old.image[a] # NoRow /\ auth[a] # NoRow
        /\ a \in Added(old) => auth[a] = NoRow
        /\ old.image[a].status = "active" /\ old.seen[a].status # "active" =>
               old.kind = "callback"
    BY <1>1 DEF IInv, TokensBelongTogether, Stored, SessionFits
  <1>3. NoRow.access = 0 /\ NoRow.refresh = 0 /\ NoRow.status = "none"
    BY DEF NoRow
  <1>4. CASE a \in Added(old)
    <2>1. r = old.image[a] /\ old.seen[a] = NoRow /\ r # NoRow
      BY <1>4 DEF Left, Added
    <2>2. r.access # 0
      BY <1>1, <2>1, RowFields
    <2>3. /\ r.access = old.answer
          /\ r.refresh = IF answered[old.answer] THEN old.answer ELSE 0
      BY <1>2, <1>3, <2>1, <2>2 DEF CopyFits
    <2>4. Known(r)
      BY <1>2, <2>3 DEF Known
    <2>5. QED
      BY <1>1, <1>2, <1>3, <1>4, <2>1, <2>3, <2>4
  <1>5. CASE a \notin Added(old) /\ old.seen[a] # NoRow
    <2>1. r = Merged(auth[a], old.seen[a], old.image[a])
      BY <1>5 DEF Left
    <2>2. auth[a] \in AuthRow /\ old.seen[a] \in AuthRow /\ old.image[a] \in AuthRow
      BY <1>1, <1>2, <1>5 DEF Rows
    <2>3. /\ r \in AuthRow
          /\ r.access = Written(auth[a].access, old.seen[a].access, old.image[a].access)
          /\ r.refresh = Written(auth[a].refresh, old.seen[a].refresh, old.image[a].refresh)
          /\ r.status = Written(auth[a].status, old.seen[a].status, old.image[a].status)
      BY <2>1, <2>2, MergedType
    <2>4. \/ r.access = auth[a].access /\ r.refresh = auth[a].refresh
          \/ /\ r.access = old.answer
             /\ answered[old.answer] => r.refresh = old.answer
             /\ r.refresh \in {auth[a].refresh, old.answer}
      <3>1. CASE /\ old.image[a].access = old.seen[a].access
                 /\ old.image[a].refresh = old.seen[a].refresh
        BY <2>3, <3>1 DEF Written
      <3>2. CASE /\ old.answer # 0 /\ old.image[a].access = old.answer
                 /\ old.image[a].refresh =
                        IF answered[old.answer] THEN old.answer ELSE old.seen[a].refresh
        <4>1. old.answer \notin {old.seen[a].access, old.seen[a].refresh}
          BY <1>1, <3>2 DEF Unused
        <4>2. QED
          BY <2>3, <3>2, <4>1 DEF Written
      <3>3. QED
        BY <1>2, <3>1, <3>2 DEF CopyFits
    <2>5. Known(r)
      BY <1>1, <1>2, <2>4 DEF Known
    <2>6. r # NoRow /\ r \in Rows
      BY <2>3, BoundAssumption DEF AuthRow, NoRow, Rows
    <2>7. auth[a].status = "revoked" /\ r.status = "active" =>
              old.kind = "callback" /\ old.seen[a].status = "revoked"
      <3>1. old.seen[a].status \in {"active", "revoked"}
        BY <2>2 DEF AuthRow
      <3>2. QED
        BY <1>2, <2>3, <3>1 DEF Written
    <2>8. QED
      BY <1>2, <1>5, <2>4, <2>5, <2>6, <2>7
  <1>6. CASE a \notin Added(old) /\ old.seen[a] = NoRow
    <2>1. r = auth[a]
      BY <1>6 DEF Left
    <2>2. QED
      BY <1>1, <1>2, <1>6, <2>1
  <1>7. QED
    BY <1>4, <1>5, <1>6

LEMMA CommitStep ==
    ASSUME IInv, NEW w \in Threads, Commit(w)
    PROVE  IInv'
  <1>1. PICK old \in Job : old = job[w]
    BY DEF IInv, TypeOK
  <1>2. /\ TypeOK /\ SessionFits(old)
        /\ \A v \in Threads : job[v] \in Job /\ SessionFits(job[v])
        /\ old.was \in IntegrationRow /\ old.becomes \in IntegrationRow
        /\ integration \in IntegrationRow
    BY <1>1, JobFields DEF IInv, TypeOK
  <1>3. /\ auth' = [a \in Authorizations |-> Left(old, a)]
        /\ answered' = answered /\ job' = [job EXCEPT ![w] = Idle]
        /\ integration' =
               [mode |-> Written(integration.mode, old.was.mode, old.becomes.mode),
                status |-> Written(integration.status, old.was.status,
                                   old.becomes.status)]
    BY <1>1 DEF Commit, Left
  <1>4. /\ job'[w] = Idle /\ job' \in [Threads -> Job]
        /\ \A v \in Threads : v # w => job'[v] = job[v]
    BY <1>2, <1>3, IdleFields DEF TypeOK
  <1>5. ASSUME NEW a \in Authorizations
        PROVE  /\ auth'[a] \in Rows /\ Known(auth'[a])
               /\ auth'[a] # NoRow <=> auth[a] # NoRow \/ a \in Added(old)
               /\ auth'[a] # NoRow /\ answered[auth'[a].access] =>
                      auth'[a].refresh = auth'[a].access
               /\ {auth'[a].access, auth'[a].refresh} \subseteq
                      {0, auth[a].access, auth[a].refresh, old.answer}
    <2>1. auth'[a] = Left(old, a)
      BY <1>3
    <2>2. QED
      BY <1>1, <2>1, LeftRows
  <1>6. Remembers
    BY <1>2, <1>3, AnswersGrow
  <1>7. TypeOK'
    <2>1. integration' \in IntegrationRow
      BY <1>2, <1>3 DEF IntegrationRow, Written
    <2>2. auth' \in [Authorizations -> Rows]
      BY <1>3, <1>5
    <2>3. QED
      BY <1>2, <1>3, <1>4, <2>1, <2>2 DEF TypeOK, Rows
  <1>8. \A a \in Authorizations : Known(auth[a])'
    BY <1>3, <1>5 DEF Known
  <1>9. TokensBelongTogether'
    BY <1>3, <1>5 DEF TokensBelongTogether, Stored
  <1>10. \A v \in Threads : v # w => Added(old) \cap Added(job[v]) = {}
    BY <1>1 DEF IInv, SessionsApart
  <1>11. ASSUME NEW v \in Threads PROVE SessionFits(job[v])'
    <2>1. CASE v = w
      <3>1. \A a \in Authorizations : Idle.seen[a] = NoRow /\ Idle.image[a] = NoRow
        BY IdleFields, NothingIsNoRow
      <3>2. Known(NoRow)' /\ NoRow.status = "none"
        BY <1>6 DEF Known, NoRow, Remembers
      <3>3. 0 \in 0..Len(answered')
        BY <1>6 DEF Remembers
      <3>4. SessionFits(Idle)'
        BY <3>1, <3>2, <3>3, IdleFields, IdleAddsNothing DEF SessionFits, CopyFits
      <3>5. QED
        BY <1>4, <2>1, <3>4 DEF SessionFits, Known, CopyFits, Added
    <2>2. CASE v # w
      <3>1. \A a \in Added(job[v]) : a \in Authorizations /\ auth[a] = NoRow
        BY <1>2 DEF SessionFits, Added
      <3>2. \A a \in Added(job[v]) : auth'[a] = NoRow
        BY <1>5, <1>10, <2>2, <3>1
      <3>3. QED
        BY <1>2, <1>4, <1>5, <1>6, <2>2, <3>2, OtherSessions
    <2>3. QED
      BY <2>1, <2>2
  <1>12. ASSUME NEW v \in Threads, job'[v].answer # 0
         PROVE  Unused(job[v].answer)'
    <2>1. PICK n : n = job'[v].answer
      OBVIOUS
    <2>2. v # w /\ n # 0 /\ n = job[v].answer
      BY <1>4, <1>12, <2>1, IdleFields
    <2>3. Unused(n) /\ n # old.answer
      BY <1>1, <2>2 DEF IInv, SessionsApart
    <2>4. \A a \in Authorizations : n \notin {auth'[a].access, auth'[a].refresh}
      BY <1>5, <2>2, <2>3 DEF Unused
    <2>5. \A a \in Authorizations : Idle.seen[a].access = 0 /\ Idle.seen[a].refresh = 0
      BY IdleFields, NothingIsNoRow DEF NoRow
    <2>6. \A u \in Threads, a \in Authorizations :
              n \notin {job'[u].seen[a].access, job'[u].seen[a].refresh}
      BY <1>4, <2>2, <2>3, <2>5 DEF Unused
    <2>7. QED
      BY <2>1, <2>4, <2>6 DEF Unused
  <1>13. /\ Added(job[w])' = {}
         /\ \A t \in Threads : t # w => Added(job[t])' = Added(job[t])
    BY <1>4, IdleAddsNothing DEF Added
  <1>14. SessionsApart'
    BY <1>4, <1>13, IdleFields DEF IInv, SessionsApart
  <1>15. AuthorizationsAreFew'
    <2>1. Cardinality(Stored) + Cardinality(Coming) <= Cardinality(Threads)
      BY DEF IInv, AuthorizationsAreFew, Coming
    <2>2. Added(old) \in SUBSET Coming
      BY <1>1 DEF Coming
    <2>3. Stored \cap Added(old) = {}
      BY <1>2 DEF SessionFits, Stored
    <2>4. Stored' = Stored \cup Added(old)
      BY <1>5 DEF Stored, Added
    <2>5. Coming' = Coming \ Added(old)
      BY <1>1, <1>10, <1>13 DEF Coming
    <2>6. Cardinality(Stored') + Cardinality(Coming')
              = Cardinality(Stored) + Cardinality(Coming)
      BY <2>2, <2>3, <2>4, <2>5, TablesAreFinite, RowsArrive
    <2>7. QED
      BY <2>1, <2>6 DEF AuthorizationsAreFew, Coming
  <1>16. QED
    BY <1>7, <1>8, <1>9, <1>11, <1>12, <1>14, <1>15 DEF IInv

LEMMA TokenExpiresStep ==
    ASSUME IInv, NEW a \in Authorizations, TokenExpires(a)
    PROVE  IInv'
  <1>1. TypeOK /\ auth[a] # NoRow /\ auth[a] \in Rows
    BY DEF IInv, TypeOK, TokenExpires, Stored, Rows
  <1>2. /\ auth' = [auth EXCEPT ![a] = [auth[a] EXCEPT !.expiring = TRUE]]
        /\ integration' = integration /\ answered' = answered /\ job' = job
    BY DEF TokenExpires
  <1>3. PICK r : r = [auth[a] EXCEPT !.expiring = TRUE]
    OBVIOUS
  <1>4. /\ r \in AuthRow /\ r # NoRow
        /\ r.access = auth[a].access /\ r.refresh = auth[a].refresh
    <2>1. auth[a] \in AuthRow
      BY <1>1 DEF Rows
    <2>2. r \in AuthRow /\ r.access = auth[a].access /\ r.refresh = auth[a].refresh
      BY <1>3, <2>1 DEF AuthRow
    <2>3. NoRow \notin AuthRow
      BY BoundAssumption DEF AuthRow, NoRow
    <2>4. QED
      BY <2>2, <2>3
  <1>5. auth' = [auth EXCEPT ![a] = r]
    BY <1>2, <1>3
  <1>6. /\ auth' \in [Authorizations -> AuthRow \cup {NoRow}]
        /\ \A b \in Authorizations :
               /\ auth'[b].access = auth[b].access
               /\ auth'[b].refresh = auth[b].refresh
               /\ auth'[b] = NoRow <=> auth[b] = NoRow
    BY <1>1, <1>4, <1>5 DEF TypeOK
  <1>7. Remembers
    BY <1>1, <1>2, AnswersGrow
  <1>8. TypeOK'
    BY <1>1, <1>2, <1>6 DEF TypeOK
  <1>9. Stored' = Stored /\ Coming' = Coming
    BY <1>2, <1>6 DEF Stored, Coming, Added
  <1>10. TokensBelongTogether'
    BY <1>2, <1>6, <1>9 DEF IInv, TokensBelongTogether, Stored
  <1>11. AuthorizationsAreFew'
    BY <1>2, <1>9 DEF IInv, AuthorizationsAreFew, Coming, Added
  <1>12. \A b \in Authorizations : Known(auth[b])'
    BY <1>2, <1>6 DEF IInv, Known
  <1>13. ASSUME NEW v \in Threads PROVE SessionFits(job[v])'
    <2>1. job[v] \in Job /\ SessionFits(job[v])
      BY <1>1 DEF IInv, TypeOK
    <2>2. \A b \in Added(job[v]) : auth'[b] = NoRow
      BY <1>6, <2>1 DEF SessionFits, Added
    <2>3. QED
      BY <1>2, <1>6, <1>7, <2>1, <2>2, OtherSessions
  <1>14. ASSUME NEW v \in Threads, job'[v].answer # 0
         PROVE  Unused(job[v].answer)'
    BY <1>2, <1>6, <1>14 DEF IInv, Unused
  <1>15. SessionsApart'
    BY <1>2 DEF IInv, SessionsApart, Added
  <1>16. QED
    BY <1>8, <1>10, <1>11, <1>12, <1>13, <1>14, <1>15 DEF IInv

LEMMA StutterStep ==
    ASSUME IInv, UNCHANGED vars
    PROVE  IInv'
  BY DEF vars, IInv, TypeOK, TokensBelongTogether, AuthorizationsAreFew, Known,
         SessionFits, CopyFits, Unused, SessionsApart, Added, Stored

-----------------------------------------------------------------------------
(* The theorems.                                                           *)

LEMMA NextIInv == IInv /\ [Next]_vars => IInv'
  <1> SUFFICES ASSUME IInv, [Next]_vars PROVE IInv'
    OBVIOUS
  <1>1. ASSUME NEW a \in Authorizations, TokenExpires(a) PROVE IInv'
    BY <1>1, TokenExpiresStep
  <1>2. ASSUME NEW w \in Threads,
               \/ Connect(w) \/ TestConnection(w)
               \/ Disconnect(w) \/ DisconnectIntegration(w)
               \/ CallbackIntegration(w) \/ Commit(w) \/ Abort(w)
        PROVE  IInv'
    BY <1>2, ConnectStep, TestConnectionStep, DisconnectStep, IntegrationSteps,
       CommitStep, AbortStep
  <1>3. ASSUME NEW w \in Threads, NEW c \in BOOLEAN, Callback(w, c) PROVE IInv'
    BY <1>3, CallbackStep
  <1>4. ASSUME NEW w \in Threads, NEW a \in Authorizations,
               SaveTokens(w, a) \/ TokenExpiring(w, a) \/ SaveRefreshed(w, a)
        PROVE  IInv'
    BY <1>4, SaveTokensStep, TokenExpiringStep, SaveRefreshedStep
  <1>5. ASSUME NEW w \in Threads, NEW a \in Authorizations, NEW c \in BOOLEAN,
               Refresh(w, a, c)
        PROVE  IInv'
    BY <1>5, RefreshStep
  <1>6. CASE UNCHANGED vars
    BY <1>6, StutterStep
  <1>7. QED
    BY <1>1, <1>2, <1>3, <1>4, <1>5, <1>6 DEF Next

LEMMA InitIInv == Init => IInv
  <1> SUFFICES ASSUME Init PROVE IInv
    OBVIOUS
  <1>1. \A w \in Threads : job[w] = Idle
    BY DEF Init
  <1>2. /\ answered = <<>> /\ Len(answered) = 0
        /\ \A a \in Authorizations : auth[a] = NoRow
    BY NothingIsNoRow DEF Init
  <1>3. TypeOK
    BY IdleFields, NothingIsNoRow DEF Init, TypeOK, Rows, NotRead, IntegrationRow
  <1>4. Known(NoRow) /\ NoRow.status = "none"
    BY <1>2 DEF Known, NoRow
  <1>5. SessionFits(Idle)
    BY <1>2, <1>4, IdleFields, IdleAddsNothing, NothingIsNoRow
    DEF SessionFits, CopyFits
  <1>6. Stored = {} /\ Coming = {}
    BY <1>1, <1>2, IdleAddsNothing DEF Stored, Coming
  <1>7. Cardinality(Stored) = 0 /\ Cardinality(Coming) = 0
    BY <1>6, FS_EmptySet
  <1>8. AuthorizationsAreFew
    BY <1>7, TablesAreFinite DEF AuthorizationsAreFew, Coming
  <1>9. TokensBelongTogether
    BY <1>2 DEF TokensBelongTogether, Stored
  <1>10. SessionsApart
    BY <1>1, IdleFields, IdleAddsNothing DEF SessionsApart
  <1>11. QED
    BY <1>1, <1>2, <1>3, <1>4, <1>5, <1>8, <1>9, <1>10, IdleFields DEF IInv

\* The inductive invariant holds of every number of authorizations, answers
\* and threads.
THEOREM Invariance == Spec => []IInv
  BY InitIInv, NextIInv, PTL DEF Spec

\* The rows and the sessions hold what the code may write.
THEOREM TypeCorrect == Spec => []TypeOK
  <1>1. IInv => TypeOK
    BY DEF IInv
  <1>2. QED
    BY <1>1, Invariance, PTL

\* An access token is stored with the refresh token that came with it.
THEOREM TokensTogether == Spec => []TokensBelongTogether
  <1>1. IInv => TokensBelongTogether
    BY DEF IInv
  <1>2. QED
    BY <1>1, Invariance, PTL

\* There are no more authorizations than sessions at once.
THEOREM AuthorizationsFew == Spec => []AuthorizationsAreFew
  <1>1. IInv => AuthorizationsAreFew
    BY DEF IInv
  <1>2. QED
    BY <1>1, Invariance, PTL

\* A revoked authorization becomes active again by the commit of a callback.
LEMMA OnlyCallbackActivates ==
    ASSUME IInv, [Next]_vars, NEW a \in Authorizations,
           auth[a].status = "revoked", auth'[a].status = "active"
    PROVE  \E w \in Threads : /\ job[w].kind = "callback"
                              /\ job[w].seen[a].status = "revoked"
                              /\ job'[w] = Idle
  <1>1. CASE \E w \in Threads : Commit(w)
    <2>1. PICK w \in Threads : Commit(w)
      BY <1>1
    <2>2. PICK old \in Job : old = job[w]
      BY DEF IInv, TypeOK
    <2>3. auth'[a] = Left(old, a)
      BY <2>1, <2>2 DEF Commit, Left
    <2>4. old.kind = "callback" /\ old.seen[a].status = "revoked"
      BY <2>2, <2>3, LeftRows
    <2>5. job'[w] = Idle
      BY <2>1 DEF Commit, IInv, TypeOK
    <2>6. QED
      BY <2>2, <2>4, <2>5
  <1>2. CASE \E b \in Authorizations : TokenExpires(b)
    <2>1. PICK b \in Authorizations : TokenExpires(b)
      BY <1>2
    <2>2. auth[a] \in Rows /\ auth \in [Authorizations -> Rows]
      BY DEF IInv, TypeOK, Rows
    <2>3. auth' = [auth EXCEPT ![b] = [auth[b] EXCEPT !.expiring = TRUE]]
      BY <2>1 DEF TokenExpires
    <2>4. auth'[a].status = auth[a].status
      BY <2>2, <2>3 DEF Rows, AuthRow, NoRow
    <2>5. QED
      BY <2>4
  <1>3. CASE /\ ~ \E w \in Threads : Commit(w)
             /\ ~ \E b \in Authorizations : TokenExpires(b)
    <2>1. auth' = auth
      BY <1>3 DEF Next, vars, Begin, Connect, TestConnection, Disconnect,
         DisconnectIntegration, CallbackIntegration, Abort, Callback, SaveTokens,
         TokenExpiring, SaveRefreshed, Refresh
    <2>2. QED
      BY <2>1
  <1>4. QED
    BY <1>1, <1>2, <1>3

\* Once the owner has disconnected an authorization, only a callback makes it
\* active again.
THEOREM Revoked == Spec => RevocationSticks
  <1>1. IInv /\ [Next]_vars =>
            [\A a \in Authorizations :
                auth[a].status = "revoked" /\ auth'[a].status = "active" =>
                    \E w \in Threads : /\ job[w].kind = "callback"
                                       /\ job[w].seen[a].status = "revoked"
                                       /\ job'[w] = Idle]_vars
    BY OnlyCallbackActivates
  <1>2. QED
    BY <1>1, Invariance, PTL DEF Spec, RevocationSticks
=============================================================================
