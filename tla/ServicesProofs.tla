---------------------------- MODULE ServicesProofs ----------------------------
(***************************************************************************)
(* The credentials, the saved views, the daily digest, the deadline of an  *)
(* invoice and the answers of ANAF, for every number of rows, threads,     *)
(* days and elements.  They share no state; each has an inductive          *)
(* invariant of its own.                                                   *)
(***************************************************************************)
EXTENDS Credentials, SavedViews, Digest, Deadlines, AnafAnswers, Counting

-----------------------------------------------------------------------------
(* Credentials.                                                            *)

LEMMA NoUseType ==
    /\ NoUse \in Use /\ NoUse.kind = "idle" /\ NoUse.of = "none"
    /\ NoUse.of \notin Credential
  BY CredentialsAssumption DEF NoUse, Use, CredentialStatuses, Credential

\* The sessions that read a credential.
Readers(c) == {s \in Sessions : use[s].of = c}

LEMMA ResetsByReaders ==
    ResetsAreFew <=>
        \A c \in ResetTokens :
            used[c] + Cardinality(Readers(c)) <= Cardinality(Sessions)
  BY DEF ResetsAreFew, Readers

LEMMA ReadersAreFew ==
    ASSUME NEW c
    PROVE  /\ Cardinality(Readers(c)) \in Nat /\ Cardinality(Callers(c)) \in Nat
           /\ Cardinality(Sessions) \in Nat
           /\ Cardinality(Readers(c)) <= Cardinality(Sessions)
           /\ Cardinality(Callers(c)) <= Cardinality(Sessions)
  <1>1. Readers(c) \in SUBSET Sessions /\ Callers(c) \in SUBSET Sessions
    BY DEF Readers, Callers
  <1>2. QED
    BY <1>1, CredentialsAssumption, PartIsSmaller

\* One session moves, the others stay as they are.
LEMMA OneUseMoves ==
    ASSUME NEW c, NEW s \in Sessions, \A r \in Sessions : r # s => use'[r] = use[r]
    PROVE  /\ Cardinality(Readers(c)) \in Nat /\ Cardinality(Readers(c)') \in Nat
           /\ Cardinality(Callers(c)) \in Nat /\ Cardinality(Callers(c)') \in Nat
           /\ (use[s].of = c <=> use'[s].of = c) => Readers(c)' = Readers(c)
           /\ use[s].of # c /\ use'[s].of = c =>
                  Cardinality(Readers(c)') = Cardinality(Readers(c)) + 1
           /\ use[s].of = c /\ use'[s].of # c =>
                  Cardinality(Readers(c)') = Cardinality(Readers(c)) - 1
           /\ (s \in Callers(c) <=> s \in Callers(c)') => Callers(c)' = Callers(c)
           /\ s \in Callers(c) /\ s \notin Callers(c)' =>
                  Cardinality(Callers(c)') = Cardinality(Callers(c)) - 1
  <1>1. /\ Readers(c) \in SUBSET Sessions /\ Readers(c)' \in SUBSET Sessions
        /\ \A r \in Sessions : r # s => (r \in Readers(c)' <=> r \in Readers(c))
        /\ s \in Readers(c) <=> use[s].of = c
        /\ s \in Readers(c)' <=> use'[s].of = c
    BY DEF Readers
  <1>2. /\ Callers(c) \in SUBSET Sessions /\ Callers(c)' \in SUBSET Sessions
        /\ \A r \in Sessions : r # s => (r \in Callers(c)' <=> r \in Callers(c))
    BY DEF Callers
  <1>3. /\ Cardinality(Readers(c)) \in Nat /\ Cardinality(Readers(c)') \in Nat
        /\ s \in Readers(c)' /\ s \notin Readers(c) =>
               Cardinality(Readers(c)') = Cardinality(Readers(c)) + 1
        /\ s \notin Readers(c)' /\ s \in Readers(c) =>
               Cardinality(Readers(c)') = Cardinality(Readers(c)) - 1
        /\ (s \in Readers(c) <=> s \in Readers(c)') => Readers(c)' = Readers(c)
    BY <1>1, CredentialsAssumption, OneMoves
  <1>4. /\ Cardinality(Callers(c)) \in Nat /\ Cardinality(Callers(c)') \in Nat
        /\ s \notin Callers(c)' /\ s \in Callers(c) =>
               Cardinality(Callers(c)') = Cardinality(Callers(c)) - 1
        /\ (s \in Callers(c) <=> s \in Callers(c)') => Callers(c)' = Callers(c)
    BY <1>2, CredentialsAssumption, OneMoves
  <1>5. QED
    BY <1>1, <1>3, <1>4

\* A session begins with u.
LEMMA BeginUseStep ==
    ASSUME CredentialsInv, NEW s \in Sessions, NEW u \in Use,
           use[s] = NoUse, use' = [use EXCEPT ![s] = u],
           UNCHANGED <<credential, overdue, used, late>>,
           UseFits(u), u # NoUse,
           u.of \in ResetTokens => credential[u.of] = "active",
           u.kind = "call" => credential[u.of] = "active"
    PROVE  CredentialsInv'
  <1>1. /\ CredentialsTypeOK /\ ResetsAreFew /\ LateFits
        /\ \A t \in Sessions : UseFits(use[t])
        /\ \A c \in ResetTokens : used[c] > 0 => credential[c] = "used"
        /\ use'[s] = u /\ \A r \in Sessions : r # s => use'[r] = use[r]
        /\ used \in [ResetTokens -> Nat] /\ late \in [ApiKeys -> Nat]
    BY DEF CredentialsInv, CredentialsTypeOK
  <1>2. CredentialsTypeOK'
    BY <1>1 DEF CredentialsTypeOK
  <1>3. \A t \in Sessions : UseFits(use[t])'
    BY <1>1 DEF UseFits
  <1>4. ASSUME NEW c \in ResetTokens
        PROVE  used'[c] + Cardinality(Readers(c)') <= Cardinality(Sessions)
    <2>1. used[c] + Cardinality(Readers(c)) <= Cardinality(Sessions)
      BY <1>1, ResetsByReaders
    <2>2. CASE u.of = c
      <3>1. used[c] = 0
        BY <1>1, <2>2
      <3>2. Readers(c)' \in SUBSET Sessions
        BY DEF Readers
      <3>3. Cardinality(Readers(c)') <= Cardinality(Sessions)
            /\ Cardinality(Readers(c)') \in Nat
        BY <3>2, CredentialsAssumption, PartIsSmaller
      <3>4. QED
        BY <3>1, <3>3
    <2>3. CASE u.of # c
      <3>1. Readers(c)' = Readers(c)
        BY <1>1, <2>3, NoUseType, OneUseMoves DEF Credential
      <3>2. QED
        BY <2>1, <3>1
    <2>4. QED
      BY <2>2, <2>3
  <1>5. ResetsAreFew'
    BY <1>4 DEF ResetsAreFew, Readers
  <1>6. ASSUME NEW c \in ApiKeys, credential'[c] = "revoked"
        PROVE  late'[c] + Cardinality(Callers(c)') <= Cardinality(Sessions) - 1
    <2>1. late[c] + Cardinality(Callers(c)) <= Cardinality(Sessions) - 1
      BY <1>1, <1>6 DEF LateFits
    <2>2. s \notin Callers(c) /\ s \notin Callers(c)'
      BY <1>1, <1>6, NoUseType DEF Callers
    <2>3. Callers(c)' = Callers(c)
      BY <1>1, <2>2, OneUseMoves
    <2>4. QED
      BY <2>1, <2>3
  <1>7. LateFits'
    BY <1>1, <1>6 DEF LateFits
  <1>8. QED
    BY <1>1, <1>2, <1>3, <1>5, <1>7 DEF CredentialsInv

LEMMA ResetPasswordStep ==
    ASSUME CredentialsInv, NEW s \in Sessions, NEW c \in ResetTokens,
           ResetPassword(s, c)
    PROVE  CredentialsInv'
  <1>1. credential[c] = "active"
    BY DEF ResetPassword, MayReset
  <1>2. PICK u : u = [kind |-> "reset", of |-> c, seen |-> credential[c],
                      image |-> "used"]
    OBVIOUS
  <1>3. u \in Use /\ u # NoUse /\ UseFits(u) /\ u.kind = "reset" /\ u.of = c
    BY <1>1, <1>2 DEF Use, NoUse, UseFits, CredentialStatuses, Credential
  <1>4. QED
    BY <1>1, <1>2, <1>3, BeginUseStep DEF ResetPassword, BeginUse

LEMMA PublicApiCallStep ==
    ASSUME CredentialsInv, NEW s \in Sessions, NEW c \in ApiKeys,
           PublicApiCall(s, c)
    PROVE  CredentialsInv'
  <1>1. credential[c] = "active"
    BY DEF PublicApiCall, MayCall
  <1>2. PICK u : u = [kind |-> "call", of |-> c, seen |-> credential[c],
                      image |-> credential[c]]
    OBVIOUS
  <1>3. u \in Use /\ u # NoUse /\ UseFits(u) /\ u.of = c /\ u.kind = "call"
    BY <1>1, <1>2 DEF Use, NoUse, UseFits, CredentialStatuses, Credential
  <1>4. u.of \notin ResetTokens
    BY <1>3, CredentialsAssumption
  <1>5. QED
    BY <1>1, <1>2, <1>3, <1>4, BeginUseStep DEF PublicApiCall, BeginUse

LEMMA RevokeKeyStep ==
    ASSUME CredentialsInv, NEW s \in Sessions, NEW c \in ApiKeys, RevokeKey(s, c)
    PROVE  CredentialsInv'
  <1>1. credential[c] \in CredentialStatuses
    BY DEF CredentialsInv, CredentialsTypeOK, Credential
  <1>2. PICK u : u = [kind |-> "revoke", of |-> c, seen |-> credential[c],
                      image |-> "revoked"]
    OBVIOUS
  <1>3. u \in Use /\ u # NoUse /\ UseFits(u) /\ u.of = c /\ u.kind = "revoke"
    BY <1>1, <1>2 DEF Use, NoUse, UseFits, CredentialStatuses, Credential
  <1>4. u.of \notin ResetTokens
    BY <1>3, CredentialsAssumption
  <1>5. QED
    BY <1>2, <1>3, <1>4, BeginUseStep DEF RevokeKey, BeginUse

\* Statuses change under sessions that read them before.
LEMMA UsesStayFit ==
    ASSUME NEW u \in Use, UseFits(u),
           \A c \in ResetTokens :
               credential[c] \in {"active", "used"} =>
                   credential'[c] \in {"active", "used"}
    PROVE  UseFits(u)'
  BY DEF UseFits

LEMMA CreatedStep ==
    ASSUME CredentialsInv, NEW c \in Credential, Created(c)
    PROVE  CredentialsInv'
  <1>1. /\ CredentialsTypeOK /\ ResetsAreFew /\ LateFits
        /\ \A t \in Sessions : UseFits(use[t]) /\ use[t] \in Use
        /\ \A d \in ResetTokens : used[d] > 0 => credential[d] = "used"
        /\ credential \in [Credential -> CredentialStatuses]
    BY DEF CredentialsInv, CredentialsTypeOK
  <1>2. /\ credential[c] = "none"
        /\ credential' = [credential EXCEPT ![c] = "active"]
        /\ overdue' = overdue /\ used' = used /\ late' = late /\ use' = use
    BY DEF Created
  <1>3. \A d \in Credential : credential'[d] = credential[d]
                              \/ (credential[d] = "none" /\ credential'[d] = "active")
    BY <1>1, <1>2
  <1>4. CredentialsTypeOK' /\ ResetsAreFew'
    BY <1>1, <1>2 DEF CredentialsTypeOK, CredentialStatuses, ResetsAreFew
  <1>5. \A t \in Sessions : UseFits(use[t])'
    BY <1>1, <1>2, <1>3 DEF UseFits, Credential
  <1>6. LateFits'
    BY <1>1, <1>2, <1>3 DEF LateFits, Callers, Credential
  <1>7. \A d \in ResetTokens : used'[d] > 0 => credential'[d] = "used"
    BY <1>1, <1>2, <1>3 DEF Credential
  <1>8. QED
    BY <1>4, <1>5, <1>6, <1>7 DEF CredentialsInv

\* Nothing but what is overdue changes, or nothing at all.
LEMMA CredentialsStay ==
    ASSUME CredentialsInv, UNCHANGED <<credential, used, late, use>>,
           overdue' \subseteq ResetTokens
    PROVE  CredentialsInv'
  BY DEF CredentialsInv, CredentialsTypeOK, ResetsAreFew, LateFits, Callers, UseFits

LEMMA AbortUseStep ==
    ASSUME CredentialsInv, NEW s \in Sessions, AbortUse(s)
    PROVE  CredentialsInv'
  <1>1. /\ CredentialsTypeOK /\ ResetsAreFew /\ LateFits
        /\ \A t \in Sessions : UseFits(use[t])
        /\ \A c \in ResetTokens : used[c] > 0 => credential[c] = "used"
        /\ use'[s] = NoUse /\ \A r \in Sessions : r # s => use'[r] = use[r]
        /\ use' \in [Sessions -> Use] /\ late \in [ApiKeys -> Nat]
        /\ used \in [ResetTokens -> Nat]
        /\ credential' = credential /\ overdue' = overdue
        /\ used' = used /\ late' = late
    BY NoUseType DEF CredentialsInv, CredentialsTypeOK, AbortUse
  <1>2. CredentialsTypeOK'
    BY <1>1 DEF CredentialsTypeOK
  <1>3. \A t \in Sessions : UseFits(use[t])'
    BY <1>1 DEF UseFits
  <1>4. ASSUME NEW c \in ResetTokens
        PROVE  used'[c] + Cardinality(Readers(c)') <= Cardinality(Sessions)
    <2>1. used[c] + Cardinality(Readers(c)) <= Cardinality(Sessions)
      BY <1>1, ResetsByReaders
    <2>2. use'[s].of # c
      BY <1>1, NoUseType DEF Credential
    <2>3. /\ Cardinality(Readers(c)') \in Nat /\ Cardinality(Readers(c)) \in Nat
          /\ Cardinality(Readers(c)') <= Cardinality(Readers(c))
      BY <1>1, <2>2, OneUseMoves
    <2>4. QED
      BY <1>1, <2>1, <2>3, ReadersAreFew
  <1>5. ResetsAreFew'
    BY <1>4 DEF ResetsAreFew, Readers
  <1>6. ASSUME NEW c \in ApiKeys, credential'[c] = "revoked"
        PROVE  late'[c] + Cardinality(Callers(c)') <= Cardinality(Sessions) - 1
    <2>1. late[c] + Cardinality(Callers(c)) <= Cardinality(Sessions) - 1
      BY <1>1, <1>6 DEF LateFits
    <2>2. s \notin Callers(c)'
      BY <1>1, NoUseType DEF Callers
    <2>3. /\ Cardinality(Callers(c)') \in Nat /\ Cardinality(Callers(c)) \in Nat
          /\ Cardinality(Callers(c)') <= Cardinality(Callers(c))
      BY <1>1, <2>2, OneUseMoves
    <2>4. QED
      BY <1>1, <2>1, <2>3, ReadersAreFew
  <1>7. LateFits'
    BY <1>1, <1>6 DEF LateFits
  <1>8. QED
    BY <1>1, <1>2, <1>3, <1>5, <1>7 DEF CredentialsInv

\* A password is set: the token is used from now on.
LEMMA CommitResetStep ==
    ASSUME CredentialsInv, NEW s \in Sessions, CommitUse(s), use[s].kind = "reset"
    PROVE  CredentialsInv'
  <1>1. PICK u \in Use : u = use[s]
    BY DEF CredentialsInv, CredentialsTypeOK
  <1>2. /\ CredentialsTypeOK /\ ResetsAreFew /\ LateFits
        /\ \A t \in Sessions : UseFits(use[t]) /\ use[t] \in Use
        /\ \A c \in ResetTokens : used[c] > 0 => credential[c] = "used"
        /\ credential \in [Credential -> CredentialStatuses]
        /\ late \in [ApiKeys -> Nat] /\ used \in [ResetTokens -> Nat]
    BY DEF CredentialsInv, CredentialsTypeOK
  <1>3. /\ u.of \in ResetTokens /\ u.of \in Credential /\ u.of \notin ApiKeys
        /\ u.kind = "reset" /\ u.seen = "active" /\ u.image = "used"
    BY <1>1, <1>2, CredentialsAssumption DEF UseFits, NoUse, Credential
  <1>4. /\ credential' = [credential EXCEPT ![u.of] = "used"]
        /\ used' = [used EXCEPT ![u.of] = @ + 1]
        /\ late' = late /\ overdue' = overdue
        /\ use' = [use EXCEPT ![s] = NoUse]
    BY <1>1, <1>3 DEF CommitUse, Written
  <1>5. /\ use'[s] = NoUse /\ \A r \in Sessions : r # s => use'[r] = use[r]
        /\ use' \in [Sessions -> Use]
    BY <1>2, <1>4, NoUseType DEF CredentialsTypeOK
  <1>6. /\ \A c \in Credential : c # u.of => credential'[c] = credential[c]
        /\ \A c \in ResetTokens : c # u.of => used'[c] = used[c]
        /\ credential'[u.of] = "used" /\ used'[u.of] = used[u.of] + 1
        /\ used' \in [ResetTokens -> Nat]
        /\ credential' \in [Credential -> CredentialStatuses]
    BY <1>2, <1>3, <1>4 DEF CredentialStatuses
  <1>7. CredentialsTypeOK'
    BY <1>2, <1>4, <1>5, <1>6 DEF CredentialsTypeOK
  <1>8. \A t \in Sessions : UseFits(use[t])'
    BY <1>2, <1>5, <1>6 DEF UseFits, Credential
  <1>9. ASSUME NEW c \in ResetTokens
        PROVE  used'[c] + Cardinality(Readers(c)') <= Cardinality(Sessions)
    <2>1. used[c] + Cardinality(Readers(c)) <= Cardinality(Sessions)
      BY <1>2, ResetsByReaders
    <2>2. use'[s].of # c
      BY <1>5, NoUseType DEF Credential
    <2>3. /\ Cardinality(Readers(c)') \in Nat /\ Cardinality(Readers(c)) \in Nat
          /\ c = u.of => Cardinality(Readers(c)') = Cardinality(Readers(c)) - 1
          /\ c # u.of => Cardinality(Readers(c)') = Cardinality(Readers(c))
      BY <1>1, <1>5, <2>2, OneUseMoves
    <2>4. QED
      BY <1>2, <1>6, <2>1, <2>3, ReadersAreFew
  <1>10. ResetsAreFew'
    BY <1>9 DEF ResetsAreFew, Readers
  <1>11. ASSUME NEW c \in ApiKeys
         PROVE  credential'[c] = credential[c] /\ Callers(c)' = Callers(c)
    <2>1. c # u.of
      BY <1>3
    <2>2. s \notin Callers(c) /\ s \notin Callers(c)'
      BY <1>1, <1>5, <2>1, NoUseType DEF Callers
    <2>3. QED
      BY <1>5, <1>6, <2>1, <2>2, OneUseMoves DEF Credential
  <1>12. LateFits'
    BY <1>2, <1>4, <1>11 DEF LateFits
  <1>13. \A c \in ResetTokens : used'[c] > 0 => credential'[c] = "used"
    BY <1>2, <1>6 DEF Credential
  <1>14. QED
    BY <1>7, <1>8, <1>10, <1>12, <1>13 DEF CredentialsInv

\* A call or a revocation of a key: no key that was revoked comes back.
LEMMA CommitKeyStep ==
    ASSUME CredentialsInv, NEW s \in Sessions, CommitUse(s),
           use[s].kind \in {"call", "revoke"}
    PROVE  CredentialsInv'
  <1>1. PICK u \in Use : u = use[s]
    BY DEF CredentialsInv, CredentialsTypeOK
  <1>2. /\ CredentialsTypeOK /\ ResetsAreFew /\ LateFits
        /\ \A t \in Sessions : UseFits(use[t]) /\ use[t] \in Use
        /\ \A c \in ResetTokens : used[c] > 0 => credential[c] = "used"
        /\ credential \in [Credential -> CredentialStatuses]
        /\ late \in [ApiKeys -> Nat] /\ used \in [ResetTokens -> Nat]
    BY DEF CredentialsInv, CredentialsTypeOK
  <1>3. /\ u.of \in ApiKeys /\ u.of \in Credential /\ u.of \notin ResetTokens
        /\ u.kind \in {"call", "revoke"}
        /\ u.kind = "call" => u.image = u.seen
        /\ u.kind = "revoke" => u.image = "revoked"
    BY <1>1, <1>2, CredentialsAssumption DEF UseFits, NoUse, Credential
  <1>4. /\ credential' = [credential EXCEPT ![u.of] = Written(@, u.seen, u.image)]
        /\ used' = used /\ overdue' = overdue
        /\ late' = IF u.kind = "call" /\ credential[u.of] = "revoked"
                   THEN [late EXCEPT ![u.of] = @ + 1] ELSE late
        /\ use' = [use EXCEPT ![s] = NoUse]
    BY <1>1, <1>3 DEF CommitUse
  <1>5. /\ use'[s] = NoUse /\ \A r \in Sessions : r # s => use'[r] = use[r]
        /\ use' \in [Sessions -> Use]
    BY <1>2, <1>4, NoUseType DEF CredentialsTypeOK
  <1>6. /\ \A c \in Credential : c # u.of => credential'[c] = credential[c]
        /\ credential'[u.of] = credential[u.of] \/ (u.kind = "revoke"
                                                    /\ credential'[u.of] = "revoked")
        /\ credential' \in [Credential -> CredentialStatuses]
    BY <1>2, <1>3, <1>4 DEF CredentialStatuses, Written
  <1>7. /\ \A c \in ApiKeys : c # u.of => late'[c] = late[c]
        /\ late'[u.of] = IF u.kind = "call" /\ credential[u.of] = "revoked"
                         THEN late[u.of] + 1 ELSE late[u.of]
        /\ late' \in [ApiKeys -> Nat]
    BY <1>2, <1>3, <1>4
  <1>8. CredentialsTypeOK'
    BY <1>2, <1>4, <1>5, <1>6, <1>7 DEF CredentialsTypeOK
  <1>9. \A c \in ResetTokens : credential'[c] = credential[c]
    BY <1>3, <1>6 DEF Credential
  <1>10. \A t \in Sessions : UseFits(use[t])'
    BY <1>2, <1>5, <1>9 DEF UseFits
  <1>11. ASSUME NEW c \in ResetTokens
         PROVE  used'[c] + Cardinality(Readers(c)') <= Cardinality(Sessions)
    <2>1. used[c] + Cardinality(Readers(c)) <= Cardinality(Sessions)
      BY <1>2, ResetsByReaders
    <2>2. use[s].of # c /\ use'[s].of # c
      BY <1>1, <1>3, <1>5, NoUseType DEF Credential
    <2>3. Readers(c)' = Readers(c)
      BY <1>5, <2>2, OneUseMoves
    <2>4. QED
      BY <1>4, <2>1, <2>3
  <1>12. ResetsAreFew'
    BY <1>11 DEF ResetsAreFew, Readers
  <1>13. ASSUME NEW c \in ApiKeys
         PROVE  /\ late'[c] > 0 => credential'[c] = "revoked"
                /\ credential'[c] = "revoked" =>
                       late'[c] + Cardinality(Callers(c)') <= Cardinality(Sessions) - 1
    <2>1. s \notin Callers(c)'
      BY <1>5, NoUseType DEF Callers
    <2>2. /\ late[c] > 0 => credential[c] = "revoked"
          /\ credential[c] = "revoked" =>
                 late[c] + Cardinality(Callers(c)) <= Cardinality(Sessions) - 1
          /\ late[c] \in Nat
      BY <1>2 DEF LateFits
    <2>3. /\ Cardinality(Callers(c)') \in Nat /\ Cardinality(Callers(c)) \in Nat
          /\ s \in Callers(c) => Cardinality(Callers(c)') = Cardinality(Callers(c)) - 1
          /\ s \notin Callers(c) => Callers(c)' = Callers(c)
      BY <1>5, <2>1, OneUseMoves
    <2>4. CASE c # u.of
      <3>1. s \notin Callers(c) /\ credential'[c] = credential[c]
        BY <1>1, <1>6, <2>4 DEF Callers, Credential
      <3>2. QED
        BY <1>7, <2>2, <2>3, <2>4, <3>1
    <2>5. CASE c = u.of /\ u.kind = "call"
      <3>1. s \in Callers(c) /\ credential'[c] = credential[c]
        BY <1>1, <1>6, <2>5 DEF Callers
      <3>2. QED
        BY <1>7, <2>2, <2>3, <2>5, <3>1, ReadersAreFew
    <2>6. CASE c = u.of /\ u.kind = "revoke"
      <3>1. s \notin Callers(c) /\ late'[c] = late[c]
        BY <1>1, <1>7, <2>6 DEF Callers
      <3>2. Callers(c) \in SUBSET (Sessions \ {s})
        BY <3>1 DEF Callers
      <3>3. Cardinality(Callers(c)) + 1 <= Cardinality(Sessions)
        BY <3>2, CredentialsAssumption, OthersAreFewer
      <3>4. credential[c] = "revoked" => credential'[c] = "revoked"
        BY <1>6, <2>6
      <3>5. QED
        BY <2>2, <2>3, <3>1, <3>3, <3>4, ReadersAreFew
    <2>7. QED
      BY <1>3, <2>4, <2>5, <2>6
  <1>14. LateFits'
    BY <1>13 DEF LateFits
  <1>15. QED
    BY <1>2, <1>4, <1>8, <1>9, <1>10, <1>12, <1>14 DEF CredentialsInv

LEMMA NextCredentialsInv ==
    ASSUME CredentialsInv, [CredentialsNext]_credentialsVars
    PROVE  CredentialsInv'
  <1>1. ASSUME NEW s \in Sessions, CommitUse(s) PROVE CredentialsInv'
    <2>1. use[s] \in Use /\ use[s].kind # "idle"
      BY <1>1 DEF CommitUse, CredentialsInv, CredentialsTypeOK
    <2>2. use[s].kind \in {"reset", "call", "revoke"}
      BY <2>1 DEF Use
    <2>3. QED
      BY <1>1, <2>2, CommitResetStep, CommitKeyStep
  <1>2. ASSUME NEW c \in ResetTokens, TokenOverdue(c) PROVE CredentialsInv'
    BY <1>2, CredentialsStay DEF TokenOverdue, CredentialsInv, CredentialsTypeOK
  <1>3. CASE UNCHANGED credentialsVars
    BY <1>3, CredentialsStay DEF credentialsVars, CredentialsInv, CredentialsTypeOK
  <1>4. ASSUME NEW c \in Credential, CreatePasswordResetToken(c) \/ CreateApiKey(c)
        PROVE  CredentialsInv'
    BY <1>4, CreatedStep DEF CreatePasswordResetToken, CreateApiKey
  <1>5. QED
    BY <1>1, <1>2, <1>3, <1>4, AbortUseStep, ResetPasswordStep,
       PublicApiCallStep, RevokeKeyStep
    DEF CredentialsNext

LEMMA InitCredentialsInv ==
    ASSUME CredentialsInit
    PROVE  CredentialsInv
  <1>1. /\ use \in [Sessions -> Use] /\ \A s \in Sessions : use[s] = NoUse
        /\ credential \in [Credential -> CredentialStatuses]
        /\ \A c \in Credential : credential[c] = "none"
        /\ used \in [ResetTokens -> Nat] /\ \A c \in ResetTokens : used[c] = 0
        /\ late \in [ApiKeys -> Nat] /\ \A c \in ApiKeys : late[c] = 0
        /\ overdue = {}
    BY NoUseType DEF CredentialsInit, CredentialStatuses
  <1>2. CredentialsTypeOK
    BY <1>1 DEF CredentialsTypeOK
  <1>3. ResetsAreFew
    BY <1>1, ReadersAreFew, ResetsByReaders
  <1>4. LateFits
    BY <1>1 DEF LateFits, Credential
  <1>5. QED
    BY <1>1, <1>2, <1>3, <1>4 DEF CredentialsInv, UseFits

\* The inductive invariant of the credentials holds in every state.
THEOREM CredentialsInvariance == CredentialsSpec => []CredentialsInv
  <1>1. CredentialsInit => CredentialsInv
    BY InitCredentialsInv
  <1>2. CredentialsInv /\ [CredentialsNext]_credentialsVars => CredentialsInv'
    BY NextCredentialsInv
  <1>3. QED
    BY <1>1, <1>2, PTL DEF CredentialsSpec

\* A reset token sets the password at most as often as there are sessions at a
\* time, those that have read it included.
THEOREM ResetsFew == CredentialsSpec => []ResetsAreFew
  <1>1. CredentialsInv => ResetsAreFew
    BY DEF CredentialsInv
  <1>2. QED
    BY <1>1, CredentialsInvariance, PTL

\* A key that is revoked stays revoked, and only the calls that were under way
\* come late.
THEOREM LateCallsFew == CredentialsSpec => []LateCallsAreFew
  <1>1. CredentialsInv => LateCallsAreFew
    BY DEF CredentialsInv, LateFits, LateCallsAreFew, Callers
  <1>2. QED
    BY <1>1, CredentialsInvariance, PTL

-----------------------------------------------------------------------------
(* Saved views.                                                            *)

LEMMA IdleViewType ==
    /\ IdleView \in ViewJob /\ IdleView.busy = FALSE /\ ClearsOthers(IdleView)
    /\ NoView \in [Views -> ViewStates]
  <1>1. /\ NoView \in [Views -> ViewStates]
        /\ \A v \in Views : NoView[v] = "none"
    BY DEF NoView, ViewStates
  <1>2. PICK none \in [Views -> ViewStates] : none = NoView
    BY <1>1
  <1>3. IdleView = [busy |-> FALSE, adds |-> {}, deletes |-> {}, touches |-> {},
                    seen |-> none, image |-> none]
    BY <1>2 DEF IdleView
  <1>4. IdleView \in ViewJob /\ IdleView.busy = FALSE /\ IdleView.image = NoView
    BY <1>2, <1>3 DEF ViewJob
  <1>5. QED
    BY <1>1, <1>4 DEF ClearsOthers

\* A session with the rows that it saw, and its copies.
Requests(j, seen, image) ==
    /\ j \in ViewJob /\ j.busy /\ j.seen = seen /\ j.image = image

LEMMA RequestsType ==
    ASSUME NEW rows \in SUBSET Views, NEW seen \in [Views -> ViewStates],
           NEW image \in [Views -> ViewStates]
    PROVE  /\ Requests([IdleView EXCEPT !.busy = TRUE, !.adds = rows,
                                        !.seen = seen, !.image = image], seen, image)
           /\ Requests([IdleView EXCEPT !.busy = TRUE, !.touches = rows,
                                        !.seen = seen, !.image = image], seen, image)
           /\ Requests([IdleView EXCEPT !.busy = TRUE, !.deletes = rows,
                                        !.seen = seen, !.image = image], seen, image)
  <1>1. PICK idle \in ViewJob : idle = IdleView
    BY IdleViewType
  <1>2. Requests([idle EXCEPT !.busy = TRUE, !.adds = rows,
                              !.seen = seen, !.image = image], seen, image)
    BY DEF ViewJob, Requests
  <1>3. Requests([idle EXCEPT !.busy = TRUE, !.touches = rows,
                              !.seen = seen, !.image = image], seen, image)
    BY DEF ViewJob, Requests
  <1>4. Requests([idle EXCEPT !.busy = TRUE, !.deletes = rows,
                              !.seen = seen, !.image = image], seen, image)
    BY DEF ViewJob, Requests
  <1>5. QED
    BY <1>1, <1>2, <1>3, <1>4

LEMMA ClearedType ==
    ASSUME view \in [Views -> ViewStates]
    PROVE  /\ Cleared \in [Views -> ViewStates]
           /\ \A v \in Views : Cleared[v] # "default"
  BY DEF Cleared, ViewStates

\* A session that sees all the defaults begins.
LEMMA BeginViewStep ==
    ASSUME ViewsInv, NEW t \in ViewThreads, NEW j \in ViewJob, BeginView(t, j),
           ClearsOthers(j), j.busy,
           \A v \in Defaults : j.seen[v] = "default"
    PROVE  ViewsInv'
  <1>1. /\ ViewsTypeOK /\ view' = view
        /\ viewJob'[t] = j /\ viewJob' \in [ViewThreads -> ViewJob]
        /\ \A r \in ViewThreads : r # t => viewJob'[r] = viewJob[r]
        /\ \A r \in ViewThreads : /\ ClearsOthers(viewJob[r])
                                  /\ ~viewJob[r].busy => viewJob[r] = IdleView
    BY DEF ViewsInv, ViewsTypeOK, BeginView
  <1>2. Defaults' = Defaults
    BY <1>1 DEF Defaults
  <1>3. PICK by \in [Defaults -> ViewThreads] : MadeBy(by)
    BY DEF ViewsInv
  <1>4. MadeBy(by)'
    BY <1>1, <1>2, <1>3 DEF MadeBy
  <1>5. ViewsTypeOK'
    BY <1>1 DEF ViewsTypeOK
  <1>6. \A r \in ViewThreads : /\ ClearsOthers(viewJob'[r])
                               /\ ~viewJob'[r].busy => viewJob'[r] = IdleView
    BY <1>1
  <1>7. \A r \in ViewThreads : ClearsOthers(viewJob[r])'
    BY <1>6 DEF ClearsOthers, Makes
  <1>8. QED
    BY <1>2, <1>3, <1>4, <1>5, <1>6, <1>7 DEF ViewsInv

LEMMA CreateViewStep ==
    ASSUME ViewsInv, NEW t \in ViewThreads, NEW v \in Views,
           NEW isDefault \in BOOLEAN, CreateView(t, v, isDefault)
    PROVE  ViewsInv'
  <1> DEFINE seen == [view EXCEPT ![v] = "none"]
             others == IF isDefault THEN Cleared ELSE view
             image == [others EXCEPT ![v] = Flag(isDefault)]
  <1>1. view \in [Views -> ViewStates] /\ view[v] = "none"
    BY DEF ViewsInv, ViewsTypeOK, CreateView, FreeViews
  <1>2. /\ Flag(isDefault) \in ViewStates /\ others \in [Views -> ViewStates]
        /\ isDefault => \A w \in Views : others[w] # "default"
        /\ ~isDefault => Flag(isDefault) # "default" /\ others = view
    BY <1>1, ClearedType DEF Flag, ViewStates
  <1>3. /\ seen \in [Views -> ViewStates] /\ image \in [Views -> ViewStates]
        /\ \A w \in Views : seen[w] = view[w]
        /\ isDefault => \A w \in Views : w # v => image[w] # "default"
        /\ ~isDefault => \A w \in Views : image[w] = "default" => view[w] = "default"
    <2> HIDE DEF others
    <2>1. QED
      BY <1>1, <1>2 DEF ViewStates
  <1>4. BeginView(t, [IdleView EXCEPT !.busy = TRUE, !.adds = {v},
                                      !.seen = seen, !.image = image])
    BY DEF CreateView
  <1> HIDE DEF seen, image
  <1>5. PICK j : j = [IdleView EXCEPT !.busy = TRUE, !.adds = {v},
                                      !.seen = seen, !.image = image]
    OBVIOUS
  <1>6. j \in ViewJob /\ j.busy /\ j.seen = seen /\ j.image = image
    <2>1. PICK rows \in SUBSET Views : rows = {v}
      OBVIOUS
    <2>2. Requests([IdleView EXCEPT !.busy = TRUE, !.adds = rows,
                                    !.seen = seen, !.image = image], seen, image)
      BY <1>3, RequestsType, Zenon
    <2>3. QED
      BY <1>5, <2>1, <2>2 DEF Requests
  <1>7. ClearsOthers(j)
    BY <1>3, <1>6 DEF ClearsOthers, Makes
  <1>8. \A w \in Defaults : j.seen[w] = "default"
    BY <1>3, <1>6 DEF Defaults
  <1>9. BeginView(t, j)
    BY <1>4, <1>5
  <1>10. QED
    BY <1>6, <1>7, <1>8, <1>9, BeginViewStep

LEMMA UpdateViewStep ==
    ASSUME ViewsInv, NEW t \in ViewThreads, NEW v \in Views,
           NEW isDefault \in BOOLEAN, UpdateView(t, v, isDefault)
    PROVE  ViewsInv'
  <1> DEFINE others == IF isDefault THEN Cleared ELSE view
             image == [others EXCEPT ![v] = Flag(isDefault)]
  <1>1. view \in [Views -> ViewStates]
    BY DEF ViewsInv, ViewsTypeOK
  <1>2. /\ Flag(isDefault) \in ViewStates /\ others \in [Views -> ViewStates]
        /\ isDefault => \A w \in Views : others[w] # "default"
        /\ ~isDefault => Flag(isDefault) # "default" /\ others = view
    BY <1>1, ClearedType DEF Flag, ViewStates
  <1>3. /\ image \in [Views -> ViewStates]
        /\ isDefault => \A w \in Views : w # v => image[w] # "default"
        /\ ~isDefault => \A w \in Views : image[w] = "default" => view[w] = "default"
    <2> HIDE DEF others
    <2>1. QED
      BY <1>1, <1>2 DEF ViewStates
  <1>4. BeginView(t, [IdleView EXCEPT !.busy = TRUE, !.touches = {v},
                                      !.seen = view, !.image = image])
    BY DEF UpdateView
  <1> HIDE DEF image
  <1>5. PICK j : j = [IdleView EXCEPT !.busy = TRUE, !.touches = {v},
                                      !.seen = view, !.image = image]
    OBVIOUS
  <1>6. j \in ViewJob /\ j.busy /\ j.seen = view /\ j.image = image
    <2>1. PICK rows \in SUBSET Views : rows = {v}
      OBVIOUS
    <2>2. Requests([IdleView EXCEPT !.busy = TRUE, !.touches = rows,
                                    !.seen = view, !.image = image], view, image)
      BY <1>1, <1>3, RequestsType, Zenon
    <2>3. QED
      BY <1>5, <2>1, <2>2 DEF Requests
  <1>7. ClearsOthers(j)
    BY <1>3, <1>6 DEF ClearsOthers, Makes
  <1>8. QED
    BY <1>4, <1>5, <1>6, <1>7, BeginViewStep DEF Defaults

LEMMA DeleteViewStep ==
    ASSUME ViewsInv, NEW t \in ViewThreads, NEW v \in Views, DeleteView(t, v)
    PROVE  ViewsInv'
  <1>1. view \in [Views -> ViewStates]
    BY DEF ViewsInv, ViewsTypeOK
  <1>2. BeginView(t, [IdleView EXCEPT !.busy = TRUE, !.deletes = {v},
                                      !.seen = view, !.image = view])
    BY DEF DeleteView
  <1>3. PICK j : j = [IdleView EXCEPT !.busy = TRUE, !.deletes = {v},
                                      !.seen = view, !.image = view]
    OBVIOUS
  <1>4. j \in ViewJob /\ j.busy /\ j.seen = view /\ j.image = view
    <2>1. PICK rows \in SUBSET Views : rows = {v}
      OBVIOUS
    <2>2. Requests([IdleView EXCEPT !.busy = TRUE, !.deletes = rows,
                                    !.seen = view, !.image = view], view, view)
      BY <1>1, RequestsType, Zenon
    <2>3. QED
      BY <1>3, <2>1, <2>2 DEF Requests
  <1>5. ClearsOthers(j)
    BY <1>4 DEF ClearsOthers, Makes
  <1>6. QED
    BY <1>2, <1>3, <1>4, <1>5, BeginViewStep DEF Defaults

\* A session ends; the rows are as the defaults by goes back to say.
LEMMA EndViewStep ==
    ASSUME ViewsInv, NEW t \in ViewThreads,
           viewJob' = [viewJob EXCEPT ![t] = IdleView],
           view' \in [Views -> ViewStates],
           NEW by \in [Defaults' -> ViewThreads],
           \A v, other \in Defaults' : by[v] = by[other] => v = other,
           \A v \in Defaults' : by[v] # t /\ viewJob[by[v]].busy =>
               viewJob[by[v]].seen[v] = "default"
    PROVE  ViewsInv'
  <1>1. /\ viewJob'[t] = IdleView /\ viewJob' \in [ViewThreads -> ViewJob]
        /\ \A r \in ViewThreads : r # t => viewJob'[r] = viewJob[r]
        /\ \A r \in ViewThreads : /\ ClearsOthers(viewJob[r])
                                  /\ ~viewJob[r].busy => viewJob[r] = IdleView
    BY IdleViewType DEF ViewsInv, ViewsTypeOK
  <1>2. ViewsTypeOK'
    BY <1>1 DEF ViewsTypeOK
  <1>3. \A r \in ViewThreads : /\ ClearsOthers(viewJob'[r])
                               /\ ~viewJob'[r].busy => viewJob'[r] = IdleView
    BY <1>1, IdleViewType
  <1>4. \A r \in ViewThreads : ClearsOthers(viewJob[r])'
    BY <1>3 DEF ClearsOthers, Makes
  <1>5. MadeBy(by)'
    BY <1>1, IdleViewType DEF MadeBy
  <1>6. QED
    BY <1>2, <1>3, <1>4, <1>5 DEF ViewsInv

LEMMA AbortViewStep ==
    ASSUME ViewsInv, NEW t \in ViewThreads, AbortView(t)
    PROVE  ViewsInv'
  <1>1. /\ viewJob' = [viewJob EXCEPT ![t] = IdleView] /\ Defaults' = Defaults
        /\ view' \in [Views -> ViewStates]
    BY DEF AbortView, Defaults, ViewsInv, ViewsTypeOK
  <1>2. PICK by \in [Defaults -> ViewThreads] : MadeBy(by)
    BY DEF ViewsInv
  <1>3. by \in [Defaults' -> ViewThreads]
    BY <1>1, <1>2
  <1>4. QED
    BY <1>1, <1>2, <1>3, EndViewStep DEF MadeBy

\* The default that a commit makes goes back to its session, and none of those
\* that it made before is left.
LEMMA CommitViewStep ==
    ASSUME ViewsInv, NEW t \in ViewThreads, CommitView(t)
    PROVE  ViewsInv'
  <1>1. PICK j \in ViewJob : j = viewJob[t]
    BY DEF ViewsInv, ViewsTypeOK
  <1>2. /\ ClearsOthers(j) /\ j.busy /\ view \in [Views -> ViewStates]
        /\ j.seen \in [Views -> ViewStates] /\ j.image \in [Views -> ViewStates]
        /\ viewJob' = [viewJob EXCEPT ![t] = IdleView]
        /\ view' = [v \in Views |-> IF v \in j.deletes THEN "none"
                                    ELSE Written(view[v], j.seen[v], j.image[v])]
    BY <1>1 DEF ViewsInv, ViewsTypeOK, CommitView, ViewJob
  <1>3. view' \in [Views -> ViewStates]
    BY <1>2 DEF Written, ViewStates
  <1>4. PICK by \in [Defaults -> ViewThreads] : MadeBy(by)
    BY DEF ViewsInv
  <1>5. \A v \in Defaults' :
            /\ v \in Views /\ (v \in Defaults \/ Makes(j, v))
            /\ j.seen[v] = "default" => j.image[v] = "default"
    BY <1>2 DEF Defaults, Makes, Written
  <1> DEFINE next == [v \in Defaults' |-> IF Makes(j, v) THEN t ELSE by[v]]
  <1>6. next \in [Defaults' -> ViewThreads]
    BY <1>4, <1>5
  <1>7. \A v \in Defaults' : ~Makes(j, v) =>
            /\ v \in Defaults /\ next[v] = by[v]
            /\ by[v] = t => j.seen[v] = "default" /\ j.image[v] = "default"
    BY <1>1, <1>2, <1>4, <1>5 DEF MadeBy
  <1>8. \A v \in Defaults' : Makes(j, v) => next[v] = t
    OBVIOUS
  <1> HIDE DEF next
  <1>9. ASSUME NEW v \in Defaults', NEW other \in Defaults', next[v] = next[other]
        PROVE  v = other
    <2>1. CASE Makes(j, v)
      BY <1>2, <1>5, <1>7, <1>8, <1>9, <2>1 DEF ClearsOthers, Makes
    <2>2. CASE Makes(j, other)
      BY <1>2, <1>5, <1>7, <1>8, <1>9, <2>2 DEF ClearsOthers, Makes
    <2>3. CASE ~Makes(j, v) /\ ~Makes(j, other)
      BY <1>4, <1>7, <1>9, <2>3 DEF MadeBy
    <2>4. QED
      BY <2>1, <2>2, <2>3
  <1>10. \A v \in Defaults' : next[v] # t /\ viewJob[next[v]].busy =>
             viewJob[next[v]].seen[v] = "default"
    BY <1>4, <1>7, <1>8 DEF MadeBy
  <1>11. QED
    BY <1>2, <1>3, <1>6, <1>9, <1>10, EndViewStep

LEMMA NextViewsInv ==
    ASSUME ViewsInv, [ViewsNext]_viewsVars
    PROVE  ViewsInv'
  <1>1. CASE UNCHANGED viewsVars
    <2>1. view' = view /\ viewJob' = viewJob
      BY <1>1 DEF viewsVars
    <2>2. Defaults' = Defaults
      BY <2>1 DEF Defaults
    <2>3. ViewsTypeOK'
      BY <2>1 DEF ViewsInv, ViewsTypeOK
    <2>4. ASSUME NEW t \in ViewThreads
          PROVE  (/\ ClearsOthers(viewJob[t])
                  /\ ~viewJob[t].busy => viewJob[t] = IdleView)'
      BY <2>1 DEF ViewsInv, ClearsOthers, Makes, IdleView
    <2>5. PICK by \in [Defaults -> ViewThreads] : MadeBy(by)
      BY DEF ViewsInv
    <2>6. MadeBy(by)'
      BY <2>1, <2>2, <2>5 DEF MadeBy
    <2>7. QED
      BY <2>2, <2>3, <2>4, <2>5, <2>6 DEF ViewsInv
  <1>2. QED
    BY <1>1, CommitViewStep, AbortViewStep, CreateViewStep, UpdateViewStep,
       DeleteViewStep
    DEF ViewsNext

LEMMA InitViewsInv ==
    ASSUME ViewsInit
    PROVE  ViewsInv
  <1>1. /\ viewJob \in [ViewThreads -> ViewJob]
        /\ \A t \in ViewThreads : viewJob[t] = IdleView
        /\ view \in [Views -> ViewStates] /\ \A v \in Views : view[v] = "none"
    BY IdleViewType DEF ViewsInit, NoView
  <1>2. Defaults = {}
    BY <1>1 DEF Defaults
  <1>3. [v \in Defaults |-> CHOOSE t \in ViewThreads : TRUE]
            \in [Defaults -> ViewThreads]
    BY <1>2
  <1>4. \E by \in [Defaults -> ViewThreads] : MadeBy(by)
    BY <1>2, <1>3 DEF MadeBy
  <1>5. QED
    BY <1>1, <1>4, IdleViewType DEF ViewsInv, ViewsTypeOK

\* The inductive invariant of the saved views holds in every state.
THEOREM ViewsInvariance == ViewsSpec => []ViewsInv
  <1>1. ViewsInit => ViewsInv
    BY InitViewsInv
  <1>2. ViewsInv /\ [ViewsNext]_viewsVars => ViewsInv'
    BY NextViewsInv
  <1>3. QED
    BY <1>1, <1>2, PTL DEF ViewsSpec

\* There are no more default views than sessions at a time, whatever the
\* number of views.
THEOREM DefaultsFew == ViewsSpec => []DefaultsAreFew
  <1>1. ASSUME ViewsInv PROVE DefaultsAreFew
    <2>1. PICK by \in [Defaults -> ViewThreads] : MadeBy(by)
      BY <1>1 DEF ViewsInv
    <2>2. by \in Injection(Defaults, ViewThreads)
      BY <2>1 DEF MadeBy, Injection, IsInjective
    <2>3. Cardinality(Defaults) <= Cardinality(ViewThreads)
      BY <2>2, ViewsAssumption, FS_Injection
    <2>4. QED
      BY <2>3 DEF DefaultsAreFew, Defaults
  <1>2. QED
    BY <1>1, ViewsInvariance, PTL

-----------------------------------------------------------------------------
(* The daily digest.                                                       *)

LEMMA RowsOfSettings ==
    /\ NoSettings \notin SettingsRow /\ DefaultSettings \in SettingsRow
    /\ NoEdit.audits = {} /\ NoEdit \in Edit
    /\ NoRun \in Run /\ NoRun.audits = {} /\ NoRun.left = {} /\ ~NoRun.busy
  BY DEF NoSettings, SettingsRow, DefaultSettings, Flags, NoEdit, Edit, NoRun, Run

\* The sessions that have flushed an entry for a client.
Recording(c) == {t \in SettingsThreads : c \in editing[t].audits}

\* The entries that no commit has counted yet.
UnderWay(c) == Cardinality(Recording(c)) + (IF c \in run.audits THEN 1 ELSE 0)

\* A client's entries and mails.
Accounted(c) ==
    /\ audits[c] + UnderWay(c) <= mails[c]
    /\ mails[c] <= audits[c] + UnderWay(c) + lost

LEMMA AllAccounted == AuditsFollowMails <=> \A c \in Clients : Accounted(c)
  BY DEF AuditsFollowMails, Accounted, UnderWay, Recording

LEMMA RecordingType ==
    ASSUME NEW c
    PROVE  Cardinality(Recording(c)) \in Nat /\ UnderWay(c) \in Nat
  <1>1. Recording(c) \in SUBSET SettingsThreads
    BY DEF Recording
  <1>2. Cardinality(Recording(c)) \in Nat
    BY <1>1, DigestAssumption, PartIsSmaller
  <1>3. QED
    BY <1>2 DEF UnderWay

\* One session moves, the others and the job stay as they are.
LEMMA OneEditMoves ==
    ASSUME NEW c, NEW t \in SettingsThreads, run'.audits = run.audits,
           \A s \in SettingsThreads : s # t => editing'[s] = editing[s]
    PROVE  /\ UnderWay(c) \in Nat /\ UnderWay(c)' \in Nat
           /\ (c \in editing[t].audits <=> c \in editing'[t].audits) =>
                  UnderWay(c)' = UnderWay(c)
           /\ c \notin editing[t].audits /\ c \in editing'[t].audits =>
                  UnderWay(c)' = UnderWay(c) + 1
           /\ c \in editing[t].audits /\ c \notin editing'[t].audits =>
                  UnderWay(c)' = UnderWay(c) - 1
  <1>1. /\ Recording(c) \in SUBSET SettingsThreads
        /\ Recording(c)' \in SUBSET SettingsThreads
        /\ \A s \in SettingsThreads :
               s # t => (s \in Recording(c)' <=> s \in Recording(c))
        /\ t \in Recording(c) <=> c \in editing[t].audits
        /\ t \in Recording(c)' <=> c \in editing'[t].audits
    BY DEF Recording
  <1>2. /\ Cardinality(Recording(c)) \in Nat /\ Cardinality(Recording(c)') \in Nat
        /\ t \in Recording(c)' /\ t \notin Recording(c) =>
               Cardinality(Recording(c)') = Cardinality(Recording(c)) + 1
        /\ t \notin Recording(c)' /\ t \in Recording(c) =>
               Cardinality(Recording(c)') = Cardinality(Recording(c)) - 1
        /\ (t \in Recording(c) <=> t \in Recording(c)') =>
               Recording(c)' = Recording(c)
    BY <1>1, DigestAssumption, OneMoves
  <1>3. QED
    BY <1>1, <1>2 DEF UnderWay

LEMMA DigestTyped ==
    ASSUME DigestInv
    PROVE  /\ settings \in [Clients -> SettingsRow \cup {NoSettings}]
           /\ editing \in [SettingsThreads -> Edit] /\ run \in Run /\ runs \in Nat
           /\ enabled \subseteq Clients /\ served \subseteq Clients
           /\ mails \in [Clients -> Nat] /\ audits \in [Clients -> Nat]
           /\ lost \in Nat
           /\ \A t \in SettingsThreads : EditFits(editing[t])
           /\ \A c \in Clients : Accounted(c)
  BY AllAccounted DEF DigestInv, DigestTypeOK

\* A session begins to edit the settings of a client, perhaps with a mail.
LEMMA BeginEditStep ==
    ASSUME DigestInv, NEW t \in SettingsThreads, NEW e \in Edit,
           editing[t] = NoEdit, editing' = [editing EXCEPT ![t] = e],
           UNCHANGED <<settings, run, runs, enabled, served, audits, lost>>,
           EditFits(e), mails' \in [Clients -> Nat],
           \A c \in Clients : mails'[c] = IF c \in e.audits THEN mails[c] + 1
                                                           ELSE mails[c]
    PROVE  DigestInv'
  <1>1. /\ editing'[t] = e /\ editing' \in [SettingsThreads -> Edit]
        /\ \A s \in SettingsThreads : s # t => editing'[s] = editing[s]
    BY DigestTyped
  <1>2. DigestTypeOK' /\ RunFits'
    BY <1>1, DigestTyped DEF DigestInv, DigestTypeOK, RunFits, IsEnabled
  <1>3. \A s \in SettingsThreads : EditFits(editing[s])'
    BY <1>1, DigestTyped DEF EditFits
  <1>4. ASSUME NEW c \in Clients PROVE Accounted(c)'
    <2>1. /\ UnderWay(c) \in Nat /\ UnderWay(c)' \in Nat
          /\ c \in e.audits => UnderWay(c)' = UnderWay(c) + 1
          /\ c \notin e.audits => UnderWay(c)' = UnderWay(c)
      BY <1>1, OneEditMoves, RowsOfSettings
    <2>2. mails'[c] = IF c \in e.audits THEN mails[c] + 1 ELSE mails[c]
      OBVIOUS
    <2>3. /\ audits[c] \in Nat /\ mails[c] \in Nat /\ lost \in Nat
          /\ audits[c] + UnderWay(c) <= mails[c]
          /\ mails[c] <= audits[c] + UnderWay(c) + lost
          /\ audits' = audits /\ lost' = lost
      BY DigestTyped DEF Accounted
    <2>4. /\ audits'[c] + UnderWay(c)' <= mails'[c]
          /\ mails'[c] <= audits'[c] + UnderWay(c)' + lost'
      BY <2>1, <2>2, <2>3
    <2>5. QED
      BY <2>4 DEF Accounted
  <1>5. AuditsFollowMails'
    BY <1>4 DEF AuditsFollowMails, Accounted, UnderWay, Recording
  <1>6. QED
    BY <1>2, <1>3, <1>5 DEF DigestInv

\* The settings as a session sees them: those of the row, or the defaults.
Loaded(c) == IF settings[c] = NoSettings THEN DefaultSettings ELSE settings[c]

LEMMA LoadedType ==
    ASSUME DigestInv, NEW c \in Clients
    PROVE  Loaded(c) \in SettingsRow /\ DOMAIN Loaded(c) = {"digest", "mail"}
  <1>1. Loaded(c) \in SettingsRow
    BY DigestTyped, RowsOfSettings DEF Loaded
  <1>2. QED
    BY <1>1 DEF SettingsRow

LEMMA ChangesType ==
    ASSUME NEW change \in Changes, NEW column \in DOMAIN change
    PROVE  change[column] \in Flags
  BY DEF Changes, Flags

LEMMA EditSettingsStep ==
    ASSUME DigestInv, NEW t \in SettingsThreads, NEW c \in Clients,
           NEW change \in Changes, EditSettings(t, c, change)
    PROVE  DigestInv'
  <1>1. PICK row \in SettingsRow : row = Loaded(c)
    BY LoadedType
  <1>2. PICK image : image = [column \in DOMAIN row |->
                                 IF column \in DOMAIN change THEN change[column]
                                                             ELSE row[column]]
    OBVIOUS
  <1>3. image \in SettingsRow
    <2>1. /\ DOMAIN row = {"digest", "mail"}
          /\ row["digest"] \in Flags /\ row["mail"] \in Flags
      BY DEF SettingsRow
    <2>2. /\ image["digest"] \in Flags /\ image["mail"] \in Flags
          /\ image = [column \in {"digest", "mail"} |-> image[column]]
      BY <1>2, <2>1, ChangesType
    <2>3. QED
      BY <2>2 DEF SettingsRow
  <1>4. PICK e : e = [of |-> c, seen |-> settings[c], audits |-> {}, image |-> image]
    OBVIOUS
  <1>5. e \in Edit /\ EditFits(e) /\ e.audits = {}
    BY <1>3, <1>4, DigestTyped DEF Edit, EditFits
  <1>6. /\ editing[t] = NoEdit /\ editing' = [editing EXCEPT ![t] = e]
        /\ UNCHANGED <<settings, run, runs, enabled, served, mails, audits, lost>>
    BY <1>1, <1>2, <1>4 DEF EditSettings, Loaded
  <1>7. QED
    BY <1>5, <1>6, BeginEditStep, DigestTyped

LEMMA SendNowStep ==
    ASSUME DigestInv, NEW t \in SettingsThreads, NEW c \in Clients,
           NEW force \in BOOLEAN, SendNow(t, c, force)
    PROVE  DigestInv'
  <1>1. PICK row \in SettingsRow : row = Loaded(c)
    BY LoadedType
  <1>2. PICK e : e = [of |-> c, seen |-> settings[c], image |-> row, audits |-> {c}]
    OBVIOUS
  <1>3. e \in Edit /\ EditFits(e) /\ e.audits = {c}
    BY <1>1, <1>2, DigestTyped DEF Edit, EditFits
  <1>4. /\ editing[t] = NoEdit /\ editing' = [editing EXCEPT ![t] = e]
        /\ mails' = [mails EXCEPT ![c] = @ + 1]
        /\ UNCHANGED <<settings, run, runs, enabled, served, audits, lost>>
    BY <1>1, <1>2 DEF SendNow, Loaded
  <1>5. /\ mails' \in [Clients -> Nat]
        /\ \A d \in Clients : mails'[d] = IF d \in e.audits THEN mails[d] + 1
                                                            ELSE mails[d]
    BY <1>3, <1>4, DigestTyped
  <1>6. QED
    BY <1>3, <1>4, <1>5, BeginEditStep

\* Rows of settings are never taken away.
LEMMA EditsStayFit ==
    ASSUME NEW e, EditFits(e),
           \A c \in Clients : settings[c] # NoSettings => settings'[c] # NoSettings
    PROVE  EditFits(e)'
  BY DEF EditFits

LEMMA KeptType ==
    ASSUME DigestInv, NEW e \in Edit, EditFits(e), e # NoEdit
    PROVE  Kept(e) \in SettingsRow
  <1>1. e.of \in Clients /\ e.image \in SettingsRow
    BY DEF EditFits
  <1>2. CASE e.seen = NoSettings
    BY <1>1, <1>2 DEF Kept
  <1>3. CASE e.seen # NoSettings
    <2>1. /\ e.seen \in SettingsRow /\ settings[e.of] \in SettingsRow
      BY <1>1, <1>3, DigestTyped DEF Edit, EditFits
    <2>2. PICK seen \in SettingsRow, image \in SettingsRow, row \in SettingsRow :
              seen = e.seen /\ image = e.image /\ row = settings[e.of]
      BY <1>1, <2>1
    <2>3. [column \in DOMAIN seen |->
              Written(row[column], seen[column], image[column])] \in SettingsRow
      BY DEF SettingsRow, Written
    <2>4. QED
      BY <1>3, <2>2, <2>3 DEF Kept
  <1>4. QED
    BY <1>2, <1>3

LEMMA CommitSettingsStep ==
    ASSUME DigestInv, NEW t \in SettingsThreads, CommitSettings(t)
    PROVE  DigestInv'
  <1>1. PICK e \in Edit : e = editing[t]
    BY DigestTyped
  <1>2. /\ EditFits(e) /\ e # NoEdit /\ e.of \in Clients
        /\ e.audits \in SUBSET Clients
    BY <1>1, DigestTyped DEF CommitSettings, EditFits, Edit
  <1>3. PICK row \in SettingsRow : row = Kept(e)
    BY <1>2, KeptType
  <1>4. /\ settings' = [settings EXCEPT ![e.of] = row]
        /\ enabled' = {c \in enabled : IsEnabled(settings'[c])}
        /\ audits' = Counted(e.audits)
        /\ editing' = [editing EXCEPT ![t] = NoEdit]
        /\ run' = run /\ runs' = runs /\ served' = served
        /\ mails' = mails /\ lost' = lost
    BY <1>1, <1>3 DEF CommitSettings
  <1>5. /\ settings' \in [Clients -> SettingsRow \cup {NoSettings}]
        /\ \A c \in Clients : settings[c] # NoSettings => settings'[c] # NoSettings
    BY <1>2, <1>4, DigestTyped, RowsOfSettings
  <1>6. /\ editing'[t] = NoEdit /\ editing' \in [SettingsThreads -> Edit]
        /\ \A s \in SettingsThreads : s # t => editing'[s] = editing[s]
    BY <1>4, DigestTyped, RowsOfSettings
  <1>7. /\ audits' \in [Clients -> Nat]
        /\ \A c \in Clients : audits'[c] = IF c \in e.audits THEN audits[c] + 1
                                                             ELSE audits[c]
    BY <1>4, DigestTyped DEF Counted
  <1>8. DigestTypeOK'
    BY <1>4, <1>5, <1>6, <1>7, DigestTyped DEF DigestTypeOK
  <1>9. RunFits'
    BY <1>4 DEF DigestInv, RunFits, IsEnabled
  <1>10. ASSUME NEW s \in SettingsThreads PROVE EditFits(editing[s])'
    <2>1. CASE s = t
      BY <1>6, <2>1 DEF EditFits
    <2>2. CASE s # t
      <3>1. PICK f : f = editing[s]
        OBVIOUS
      <3>2. EditFits(f)'
        BY <1>5, <3>1, DigestTyped, EditsStayFit
      <3>3. QED
        BY <1>6, <2>2, <3>1, <3>2 DEF EditFits
    <2>3. QED
      BY <2>1, <2>2
  <1>11. ASSUME NEW c \in Clients PROVE Accounted(c)'
    <2>1. /\ UnderWay(c) \in Nat /\ UnderWay(c)' \in Nat
          /\ c \in e.audits => UnderWay(c)' = UnderWay(c) - 1
          /\ c \notin e.audits => UnderWay(c)' = UnderWay(c)
      BY <1>1, <1>4, <1>6, OneEditMoves, RowsOfSettings
    <2>2. /\ audits[c] \in Nat /\ mails[c] \in Nat /\ lost \in Nat
          /\ audits[c] + UnderWay(c) <= mails[c]
          /\ mails[c] <= audits[c] + UnderWay(c) + lost
      BY DigestTyped DEF Accounted
    <2>3. audits'[c] = IF c \in e.audits THEN audits[c] + 1 ELSE audits[c]
      BY <1>7
    <2>4. /\ audits'[c] + UnderWay(c)' <= mails'[c]
          /\ mails'[c] <= audits'[c] + UnderWay(c)' + lost'
      BY <1>4, <2>1, <2>2, <2>3
    <2>5. QED
      BY <2>4 DEF Accounted
  <1>12. AuditsFollowMails'
    BY <1>11 DEF AuditsFollowMails, Accounted, UnderWay, Recording
  <1>13. QED
    BY <1>8, <1>9, <1>10, <1>12 DEF DigestInv

LEMMA AbortSettingsStep ==
    ASSUME DigestInv, NEW t \in SettingsThreads, AbortSettings(t)
    PROVE  DigestInv'
  <1>1. PICK e \in Edit : e = editing[t]
    BY DigestTyped
  <1>2. /\ lost' = IF e.audits = {} THEN lost ELSE lost + 1
        /\ editing' = [editing EXCEPT ![t] = NoEdit]
        /\ UNCHANGED <<settings, run, runs, enabled, served, mails, audits>>
    BY <1>1 DEF AbortSettings
  <1>3. /\ editing'[t] = NoEdit /\ editing' \in [SettingsThreads -> Edit]
        /\ \A s \in SettingsThreads : s # t => editing'[s] = editing[s]
        /\ lost' \in Nat
    BY <1>2, DigestTyped, RowsOfSettings
  <1>4. DigestTypeOK' /\ RunFits'
    BY <1>2, <1>3 DEF DigestInv, DigestTypeOK, RunFits, IsEnabled
  <1>5. \A s \in SettingsThreads : EditFits(editing[s])'
    BY <1>2, <1>3, DigestTyped DEF EditFits
  <1>6. ASSUME NEW c \in Clients PROVE Accounted(c)'
    <2>1. /\ UnderWay(c) \in Nat /\ UnderWay(c)' \in Nat
          /\ c \in e.audits => UnderWay(c)' = UnderWay(c) - 1
          /\ c \notin e.audits => UnderWay(c)' = UnderWay(c)
      BY <1>1, <1>2, <1>3, OneEditMoves, RowsOfSettings
    <2>2. /\ audits[c] \in Nat /\ mails[c] \in Nat /\ lost \in Nat
          /\ audits[c] + UnderWay(c) <= mails[c]
          /\ mails[c] <= audits[c] + UnderWay(c) + lost
      BY DigestTyped DEF Accounted
    <2>3. lost' >= lost /\ (c \in e.audits => lost' = lost + 1)
      BY <1>2, <2>2
    <2>4. /\ audits'[c] + UnderWay(c)' <= mails'[c]
          /\ mails'[c] <= audits'[c] + UnderWay(c)' + lost'
      BY <1>2, <1>3, <2>1, <2>2, <2>3
    <2>5. QED
      BY <2>4 DEF Accounted
  <1>7. AuditsFollowMails'
    BY <1>6 DEF AuditsFollowMails, Accounted, UnderWay, Recording
  <1>8. QED
    BY <1>4, <1>5, <1>7 DEF DigestInv

\* The job moves, the sessions stay as they are.
LEMMA JobMoves ==
    ASSUME NEW c, editing' = editing
    PROVE  /\ UnderWay(c) \in Nat /\ UnderWay(c)' \in Nat
           /\ (c \in run.audits <=> c \in run'.audits) => UnderWay(c)' = UnderWay(c)
           /\ c \notin run.audits /\ c \in run'.audits =>
                  UnderWay(c)' = UnderWay(c) + 1
           /\ c \in run.audits /\ c \notin run'.audits =>
                  UnderWay(c)' = UnderWay(c) - 1
  <1>1. Recording(c)' = Recording(c) /\ Cardinality(Recording(c)) \in Nat
    BY RecordingType DEF Recording
  <1>2. QED
    BY <1>1 DEF UnderWay

LEMMA JobStep ==
    ASSUME DigestInv, UNCHANGED <<settings, editing>>, DigestTypeOK', RunFits',
           \A c \in Clients : Accounted(c)'
    PROVE  DigestInv'
  <1>1. \A t \in SettingsThreads : EditFits(editing[t])'
    BY DEF DigestInv, EditFits
  <1>2. AuditsFollowMails'
    BY DEF AuditsFollowMails, Accounted, UnderWay, Recording
  <1>3. QED
    BY <1>1, <1>2 DEF DigestInv

LEMMA RunBeginsStep ==
    ASSUME DigestInv, RunBegins
    PROVE  DigestInv'
  <1>1. /\ run = NoRun /\ run' = [busy |-> TRUE, left |-> Clients, audits |-> {}]
        /\ runs' = runs + 1 /\ served' = {}
        /\ enabled' = {c \in Clients : IsEnabled(settings[c])}
        /\ UNCHANGED <<settings, editing, mails, audits, lost>>
    BY DEF RunBegins, DigestInv, RunFits
  <1>2. run' \in Run /\ run'.left = Clients /\ run'.audits = {} /\ run'.busy
    BY <1>1 DEF Run
  <1>3. DigestTypeOK' /\ RunFits'
    BY <1>1, <1>2, DigestTyped DEF DigestTypeOK, RunFits, IsEnabled
  <1>4. ASSUME NEW c \in Clients PROVE Accounted(c)'
    <2>1. UnderWay(c)' = UnderWay(c)
      BY <1>1, <1>2, JobMoves, RowsOfSettings
    <2>2. QED
      BY <1>1, <2>1, DigestTyped DEF Accounted
  <1>5. QED
    BY <1>1, <1>3, <1>4, JobStep

LEMMA RunSkipsStep ==
    ASSUME DigestInv, NEW c \in Clients, RunSkips(c)
    PROVE  DigestInv'
  <1>1. /\ c \in run.left /\ ~IsEnabled(settings[c])
        /\ run' = [run EXCEPT !.left = @ \ {c}]
        /\ UNCHANGED <<settings, editing, runs, enabled, served, mails, audits, lost>>
    BY DEF RunSkips, AfterSkip
  <1>2. /\ run' \in Run /\ run'.left = run.left \ {c}
        /\ run'.audits = run.audits /\ run'.busy = run.busy
    BY <1>1, DigestTyped DEF Run
  <1>3. run.busy
    BY <1>1, RowsOfSettings DEF DigestInv, RunFits
  <1>4. DigestTypeOK' /\ RunFits'
    BY <1>1, <1>2, <1>3 DEF DigestInv, DigestTypeOK, RunFits, IsEnabled
  <1>5. ASSUME NEW d \in Clients PROVE Accounted(d)'
    <2>1. UnderWay(d)' = UnderWay(d)
      BY <1>1, <1>2, JobMoves
    <2>2. QED
      BY <1>1, <2>1, DigestTyped DEF Accounted
  <1>6. QED
    BY <1>1, <1>4, <1>5, JobStep

LEMMA RunMailsStep ==
    ASSUME DigestInv, NEW c \in Clients, RunMails(c)
    PROVE  DigestInv'
  <1>1. /\ c \in run.left
        /\ run' = [run EXCEPT !.left = @ \ {c}, !.audits = @ \cup {c}]
        /\ mails' = [mails EXCEPT ![c] = @ + 1] /\ served' = served \cup {c}
        /\ UNCHANGED <<settings, editing, runs, enabled, audits, lost>>
    BY DEF RunMails
  <1>2. /\ run' \in Run /\ run'.left = run.left \ {c}
        /\ run'.audits = run.audits \cup {c} /\ run'.busy = run.busy
    BY <1>1, DigestTyped DEF Run
  <1>3. run.busy /\ c \notin run.audits
    BY <1>1, RowsOfSettings DEF DigestInv, RunFits
  <1>4. DigestTypeOK' /\ RunFits'
    BY <1>1, <1>2, <1>3 DEF DigestInv, DigestTypeOK, RunFits, IsEnabled
  <1>5. ASSUME NEW d \in Clients PROVE Accounted(d)'
    <2>1. /\ UnderWay(d) \in Nat /\ UnderWay(d)' \in Nat
          /\ d = c => UnderWay(d)' = UnderWay(d) + 1
          /\ d # c => UnderWay(d)' = UnderWay(d)
      BY <1>1, <1>2, <1>3, JobMoves
    <2>2. /\ audits[d] \in Nat /\ mails[d] \in Nat /\ lost \in Nat
          /\ audits[d] + UnderWay(d) <= mails[d]
          /\ mails[d] <= audits[d] + UnderWay(d) + lost
      BY DigestTyped DEF Accounted
    <2>3. mails'[d] = IF d = c THEN mails[d] + 1 ELSE mails[d]
      BY <1>1, DigestTyped
    <2>4. /\ audits'[d] + UnderWay(d)' <= mails'[d]
          /\ mails'[d] <= audits'[d] + UnderWay(d)' + lost'
      BY <1>1, <2>1, <2>2, <2>3
    <2>5. QED
      BY <2>4 DEF Accounted
  <1>6. QED
    BY <1>1, <1>4, <1>5, JobStep

LEMMA RunLostStep ==
    ASSUME DigestInv, RunLost
    PROVE  DigestInv'
  <1>1. /\ run' = NoRun /\ lost' = lost + 1
        /\ UNCHANGED <<settings, editing, runs, enabled, served, mails, audits>>
    BY DEF RunLost
  <1>2. DigestTypeOK' /\ RunFits'
    BY <1>1, RowsOfSettings DEF DigestInv, DigestTypeOK, RunFits, IsEnabled
  <1>3. ASSUME NEW d \in Clients PROVE Accounted(d)'
    <2>1. /\ UnderWay(d) \in Nat /\ UnderWay(d)' \in Nat
          /\ UnderWay(d)' = UnderWay(d) \/ UnderWay(d)' = UnderWay(d) - 1
      BY <1>1, JobMoves, RowsOfSettings
    <2>2. /\ audits[d] \in Nat /\ mails[d] \in Nat /\ lost \in Nat
          /\ audits[d] + UnderWay(d) <= mails[d]
          /\ mails[d] <= audits[d] + UnderWay(d) + lost
      BY DigestTyped DEF Accounted
    <2>3. /\ audits'[d] + UnderWay(d)' <= mails'[d]
          /\ mails'[d] <= audits'[d] + UnderWay(d)' + lost'
      BY <1>1, <2>1, <2>2
    <2>4. QED
      BY <2>3 DEF Accounted
  <1>4. QED
    BY <1>1, <1>2, <1>3, JobStep

LEMMA RunFailsStep ==
    ASSUME DigestInv, NEW c \in Clients, RunFails(c)
    PROVE  DigestInv'
  <1>1. run.left # {}
    BY DEF RunFails
  <1>2. run.busy
    BY <1>1, RowsOfSettings DEF DigestInv, RunFits
  <1>3. RunLost
    BY <1>2 DEF RunFails, RunLost, AfterFailure
  <1>4. QED
    BY <1>3, RunLostStep

LEMMA RunCommitsStep ==
    ASSUME DigestInv, RunCommits
    PROVE  DigestInv'
  <1>1. /\ audits' = Counted(run.audits) /\ run' = NoRun
        /\ UNCHANGED <<settings, editing, runs, enabled, served, mails, lost>>
    BY DEF RunCommits
  <1>2. /\ audits' \in [Clients -> Nat]
        /\ \A c \in Clients : audits'[c] = IF c \in run.audits THEN audits[c] + 1
                                                               ELSE audits[c]
    BY <1>1, DigestTyped DEF Counted
  <1>3. DigestTypeOK' /\ RunFits'
    BY <1>1, <1>2, RowsOfSettings DEF DigestInv, DigestTypeOK, RunFits, IsEnabled
  <1>4. ASSUME NEW d \in Clients PROVE Accounted(d)'
    <2>1. /\ UnderWay(d) \in Nat /\ UnderWay(d)' \in Nat
          /\ d \in run.audits => UnderWay(d)' = UnderWay(d) - 1
          /\ d \notin run.audits => UnderWay(d)' = UnderWay(d)
      BY <1>1, JobMoves, RowsOfSettings
    <2>2. /\ audits[d] \in Nat /\ mails[d] \in Nat /\ lost \in Nat
          /\ audits[d] + UnderWay(d) <= mails[d]
          /\ mails[d] <= audits[d] + UnderWay(d) + lost
      BY DigestTyped DEF Accounted
    <2>3. audits'[d] = IF d \in run.audits THEN audits[d] + 1 ELSE audits[d]
      BY <1>2
    <2>4. /\ audits'[d] + UnderWay(d)' <= mails'[d]
          /\ mails'[d] <= audits'[d] + UnderWay(d)' + lost'
      BY <1>1, <2>1, <2>2, <2>3
    <2>5. QED
      BY <2>4 DEF Accounted
  <1>5. QED
    BY <1>1, <1>3, <1>4, JobStep

LEMMA NextDigestInv ==
    ASSUME DigestInv, [DigestNext]_digestVars
    PROVE  DigestInv'
  <1>1. CASE UNCHANGED digestVars
    BY <1>1
    DEF digestVars, DigestInv, DigestTypeOK, RunFits, EditFits, AuditsFollowMails,
        IsEnabled
  <1>2. QED
    BY <1>1, RunBeginsStep, RunCommitsStep, RunSkipsStep, RunMailsStep,
       RunLostStep, RunFailsStep, CommitSettingsStep, AbortSettingsStep,
       EditSettingsStep, SendNowStep
    DEF DigestNext

LEMMA InitDigestInv ==
    ASSUME DigestInit
    PROVE  DigestInv
  <1>1. /\ settings \in [Clients -> SettingsRow \cup {NoSettings}]
        /\ editing \in [SettingsThreads -> Edit]
        /\ \A t \in SettingsThreads : editing[t] = NoEdit
        /\ run = NoRun /\ run \in Run /\ runs = 0 /\ enabled = {} /\ served = {}
        /\ mails \in [Clients -> Nat] /\ audits \in [Clients -> Nat]
        /\ \A c \in Clients : mails[c] = 0 /\ audits[c] = 0
        /\ lost = 0
    BY RowsOfSettings DEF DigestInit
  <1>2. DigestTypeOK /\ RunFits
    BY <1>1, RowsOfSettings DEF DigestTypeOK, RunFits
  <1>3. ASSUME NEW c \in Clients PROVE Accounted(c)
    <2>1. Recording(c) = {} /\ c \notin run.audits
      BY <1>1, RowsOfSettings DEF Recording
    <2>2. Cardinality(Recording(c)) = 0
      BY <2>1, FS_EmptySet
    <2>3. UnderWay(c) = 0
      BY <2>1, <2>2 DEF UnderWay
    <2>4. QED
      BY <1>1, <2>3 DEF Accounted
  <1>4. AuditsFollowMails
    BY <1>3, AllAccounted
  <1>5. QED
    BY <1>1, <1>2, <1>4 DEF DigestInv, EditFits

\* The inductive invariant of the digest holds in every state.
THEOREM DigestInvariance == DigestSpec => []DigestInv
  <1>1. DigestInit => DigestInv
    BY InitDigestInv
  <1>2. DigestInv /\ [DigestNext]_digestVars => DigestInv'
    BY NextDigestInv
  <1>3. QED
    BY <1>1, <1>2, PTL DEF DigestSpec

\* A run that comes to its commit has mailed every client that wanted the
\* digest all the while, whatever the number of clients and of their edits.
THEOREM EnabledServed == DigestSpec => []EnabledAreServed
  <1>1. DigestInv => EnabledAreServed
    BY DEF DigestInv, RunFits, EnabledAreServed
  <1>2. QED
    BY <1>1, DigestInvariance, PTL

\* Each entry stands for a mail, and each mail without one for a session that
\* was lost or is still under way.
THEOREM AuditsFollow == DigestSpec => []AuditsFollowMails
  <1>1. DigestInv => AuditsFollowMails
    BY DEF DigestInv
  <1>2. QED
    BY <1>1, DigestInvariance, PTL

-----------------------------------------------------------------------------
(* The deadline of an invoice.                                             *)

StillLeft(day, left) == IF IsWorkday(day + 1) THEN left - 1 ELSE left

\* The equation of the walk in add_business_days.
IsWalk(f) ==
    f = [day \in Nat |-> [left \in Nat |->
            IF left = 0 THEN day
            ELSE f[day + 1][IF IsWorkday(day + 1) THEN left - 1 ELSE left]]]

\* The day of the week, a weekend counted as the Friday before it, and where
\* the walk ends.
WeekdayOf(day) == IF day % 7 > 4 THEN 4 ELSE day % 7

Reached(day, left) ==
    IF left = 0 THEN day
    ELSE 7 * ((day \div 7) + ((WeekdayOf(day) + left) \div 5))
             + ((WeekdayOf(day) + left) % 5)

LEMMA OneDayFurther ==
    ASSUME NEW day \in Nat, NEW left \in Nat
    PROVE  /\ Reached(day, left) \in Nat /\ Reached(day, left) >= day
           /\ left # 0 => /\ Reached(day, left) >= day + 1
                          /\ StillLeft(day, left) \in Nat
                          /\ Reached(day, left) = Reached(day + 1, StillLeft(day, left))
           /\ left = 0 => Reached(day, left) = day
  BY DEF Reached, WeekdayOf, IsWorkday, StillLeft

\* There is a function that satisfies the equation, so the walk is one.
LEMMA WalkExists == \E f : IsWalk(f)
  <1> DEFINE f == [day \in Nat |-> [left \in Nat |-> Reached(day, left)]]
             g(day) == [left \in Nat |->
                           IF left = 0 THEN day
                           ELSE f[day + 1][IF IsWorkday(day + 1) THEN left - 1 ELSE left]]
  <1>1. ASSUME NEW day \in Nat PROVE f[day] = g(day)
    <2>1. ASSUME NEW left \in Nat
          PROVE  Reached(day, left) =
                    IF left = 0 THEN day
                    ELSE f[day + 1][IF IsWorkday(day + 1) THEN left - 1 ELSE left]
      <3>1. f[day + 1] = [l \in Nat |-> Reached(day + 1, l)]
        OBVIOUS
      <3>2. QED
        BY OneDayFurther, <3>1 DEF StillLeft
    <2>2. QED
      BY <2>1
  <1>2. IsWalk(f)
    BY <1>1 DEF IsWalk
  <1>3. QED
    BY <1>2

LEMMA WalkStep ==
    ASSUME NEW f, IsWalk(f), NEW day \in Nat, NEW left \in Nat
    PROVE  f[day][left] = IF left = 0 THEN day ELSE f[day + 1][StillLeft(day, left)]
  BY DEF IsWalk, StillLeft

LEMMA AddIsWalk ==
    \E f : IsWalk(f) /\ \A day, left \in Nat : AddBusinessDays(day, left) = f[day][left]
  <1> DEFINE f == CHOOSE walk : walk = [day \in Nat |-> [left \in Nat |->
            IF left = 0 THEN day
            ELSE walk[day + 1][IF IsWorkday(day + 1) THEN left - 1 ELSE left]]]
  <1>1. IsWalk(f)
    BY WalkExists DEF IsWalk
  <1>2. \A day, left \in Nat : AddBusinessDays(day, left) = f[day][left]
    BY DEF AddBusinessDays
  <1>3. QED
    BY <1>1, <1>2

\* Where the walk ends, for every day and every number of workdays: of the
\* walks that end elsewhere, the shortest would have one day less to go.
LEMMA AddReaches ==
    \A day, left \in Nat : AddBusinessDays(day, left) = Reached(day, left)
  <1>1. PICK f : IsWalk(f)
                 /\ \A day, left \in Nat : AddBusinessDays(day, left) = f[day][left]
    BY AddIsWalk
  <1> DEFINE T == {n \in Nat : \E day, left \in Nat :
                       n = Reached(day, left) - day /\ f[day][left] # Reached(day, left)}
  <1>2. ASSUME T # {} PROVE FALSE
    <2>1. PICK n \in T : \A m \in T : n <= m
      BY <1>2, LeastNumber
    <2>2. PICK day \in Nat : \E left \in Nat :
              n = Reached(day, left) - day /\ f[day][left] # Reached(day, left)
      BY <2>1
    <2>3. PICK left \in Nat :
              n = Reached(day, left) - day /\ f[day][left] # Reached(day, left)
      BY <2>2
    <2>4. left # 0
      <3>1. left = 0 => f[day][left] = day
        BY <1>1, WalkStep
      <3>2. QED
        BY <2>3, <3>1, OneDayFurther
    <2>5. PICK next \in Nat : next = StillLeft(day, left)
      BY <2>4, OneDayFurther
    <2>6. PICK tomorrow \in Nat : tomorrow = day + 1
      OBVIOUS
    <2>7. Reached(day, left) = Reached(tomorrow, next)
          /\ Reached(tomorrow, next) >= tomorrow /\ Reached(tomorrow, next) \in Nat
      BY <2>4, <2>5, <2>6, OneDayFurther
    <2>8. f[day][left] = f[tomorrow][next]
      BY <1>1, <2>4, <2>5, <2>6, WalkStep
    <2>9. PICK m \in Nat : m = Reached(tomorrow, next) - tomorrow
      <3>1. Reached(tomorrow, next) - tomorrow \in Nat
        BY <2>7
      <3>2. QED
        BY <3>1
    <2>10. m \in T
      BY <2>3, <2>7, <2>8, <2>9
    <2>11. m < n
      BY <2>3, <2>6, <2>7, <2>9
    <2>12. QED
      BY <2>1, <2>10, <2>11
  <1>3. ASSUME NEW day \in Nat, NEW left \in Nat
        PROVE  f[day][left] = Reached(day, left)
    <2>1. Reached(day, left) - day \in Nat
      BY OneDayFurther
    <2>2. QED
      BY <1>2, <2>1
  <1>4. QED
    BY <1>1, <1>3

\* The deadline is five weekdays on: the same day of the week after, or a
\* Friday.
LEMMA DueIsReached ==
    ASSUME NEW start \in Nat
    PROVE  /\ DueDate(start) = 7 * ((start \div 7) + 1) + WeekdayOf(start)
           /\ start \div 7 \in Nat /\ WeekdayOf(start) \in 0..4
           /\ DueDate(start) \in Nat
  <1>1. DueDate(start) = Reached(start, 5)
    BY AddReaches DEF DueDate
  <1>2. Reached(start, 5) = 7 * ((start \div 7) + 1) + WeekdayOf(start)
        /\ start \div 7 \in Nat /\ WeekdayOf(start) \in 0..4
    BY DEF Reached, WeekdayOf
  <1>3. QED
    BY <1>1, <1>2

LEMMA FiveWorkdays ==
    ASSUME NEW start \in Nat
    PROVE  /\ IsWorkday(DueDate(start))
           /\ Cardinality({d \in (start + 1)..DueDate(start) : IsWorkday(d)}) = 5
  <1>1. PICK week \in Nat : week = start \div 7
    BY DueIsReached
  <1>2. PICK r \in 0..4 : r = WeekdayOf(start)
    BY DueIsReached
  <1>3. PICK due \in Nat : due = DueDate(start)
    BY DueIsReached
  <1>4. due = 7 * week + 7 + r
    BY <1>1, <1>2, <1>3, DueIsReached
  <1>5. start = 7 * week + (start % 7) /\ start % 7 \in 0..6
    BY <1>1
  <1> DEFINE A == (7 * week + r + 1)..(7 * week + 4)
             B == (7 * week + 7)..(7 * week + 7 + r)
             D == {d \in (start + 1)..due : IsWorkday(d)}
  <1>6. ASSUME NEW d \in Nat PROVE d \in D <=> d \in A \cup B
    BY <1>2, <1>4, <1>5 DEF IsWorkday, WeekdayOf
  <1>7. D = A \cup B
    <2>1. D \in SUBSET Nat /\ A \cup B \in SUBSET Nat
      BY <1>5
    <2>2. QED
      BY <1>6, <2>1
  <1>8. /\ IsFiniteSet(A) /\ IsFiniteSet(B)
        /\ Cardinality(A) = 4 - r /\ Cardinality(B) = r + 1
    <2>1. 7 * week + r + 1 \in Int /\ 7 * week + 4 \in Int
          /\ 7 * week + 7 \in Int /\ 7 * week + 7 + r \in Int
      OBVIOUS
    <2>2. PICK n \in Int : n = 7 * week
      OBVIOUS
    <2>3. /\ IsFiniteSet((n + r + 1)..(n + 4))
          /\ Cardinality((n + r + 1)..(n + 4)) =
                IF n + r + 1 > n + 4 THEN 0 ELSE n + 4 - (n + r + 1) + 1
      BY FS_Interval
    <2>4. /\ IsFiniteSet((n + 7)..(n + 7 + r))
          /\ Cardinality((n + 7)..(n + 7 + r)) =
                IF n + 7 > n + 7 + r THEN 0 ELSE n + 7 + r - (n + 7) + 1
      BY FS_Interval
    <2>5. QED
      BY <2>2, <2>3, <2>4
  <1>9. A \cap B = {}
    OBVIOUS
  <1>10. Cardinality(A \cap B) = 0
    BY <1>9, FS_EmptySet
  <1>11. Cardinality(A \cup B) = Cardinality(A) + Cardinality(B) - Cardinality(A \cap B)
    BY <1>8, FS_Union
  <1>12. Cardinality(D) = 5
    <2> HIDE DEF A, B, D
    <2>1. Cardinality(D) = 4 - r + (r + 1) - 0
      BY <1>7, <1>8, <1>10, <1>11
    <2>2. QED
      BY <2>1
  <1>13. IsWorkday(due)
    BY <1>4 DEF IsWorkday
  <1>14. QED
    BY <1>3, <1>12, <1>13

LEMMA StatusOfUnsent ==
    ASSUME NEW start \in Nat, NEW day \in Nat
    PROVE  LET status == InternalStatus("unsent", PhaseOn(start, day)) IN
           /\ status = "overdue" => day > DueDate(start)
           /\ status = "unsent" => DueDate(start) - day > 2
  <1>1. PICK due \in Nat : due = DueDate(start)
    BY DueIsReached
  <1>2. /\ PhaseOn(start, day) \in {"early", "near", "late"}
        /\ PhaseOn(start, day) = "late" => day > due
        /\ PhaseOn(start, day) = "early" => due - day > 2
    BY <1>1 DEF PhaseOn
  <1>3. /\ PhaseOn(start, day) = "early" =>
              InternalStatus("unsent", PhaseOn(start, day)) = "unsent"
        /\ PhaseOn(start, day) = "near" =>
              InternalStatus("unsent", PhaseOn(start, day)) = "near_deadline"
        /\ PhaseOn(start, day) = "late" =>
              InternalStatus("unsent", PhaseOn(start, day)) = "overdue"
    BY DEF InternalStatus
  <1>4. QED
    BY <1>1, <1>2, <1>3

\* Only an invoice that ANAF does not know is shown as unsent.
LEMMA UnsentIsUnsent ==
    ASSUME NEW said \in AnafStatuses, NEW start \in Nat, NEW day \in Nat,
           InternalStatus(said, PhaseOn(start, day)) = "unsent"
    PROVE  said = "unsent"
  BY DEF InternalStatus, AnafStatuses, Verdicts

LEMMA NextDeadlinesInv ==
    ASSUME DeadlinesInv, [DeadlinesNext]_deadlinesVars
    PROVE  DeadlinesInv'
  <1>1. /\ issued \in 0..6 /\ issued \in Nat /\ today \in Nat /\ synced \in Nat
        /\ synced <= today
        /\ shown # "none" => today - synced <= MaxGap
        /\ shown = "unsent" => DueDate(issued) - synced > 2
        /\ MaxGap \in Nat \ {0} /\ anaf \in AnafStatuses
    BY CalendarAssumption DEF DeadlinesInv
  <1>2. CASE UNCHANGED deadlinesVars
    BY <1>2 DEF deadlinesVars, DeadlinesInv, DueDate, AddBusinessDays
  <1>3. CASE NextDay
    <2>1. /\ today' = today + 1 /\ issued' = issued /\ anaf' = anaf
          /\ shown' = shown /\ synced' = synced
          /\ shown = "none" \/ today - synced < MaxGap
      BY <1>3 DEF NextDay
    <2>2. DueDate(issued)' = DueDate(issued)
      BY <2>1
    <2>3. QED
      BY <1>1, <2>1, <2>2 DEF DeadlinesInv
  <1>4. ASSUME NEW start \in 0..6, ImportOn(start)
        PROVE  DeadlinesInv'
    <2>1. /\ today' = today /\ issued' = start /\ anaf' = anaf /\ synced' = today
          /\ shown' = InternalStatus(anaf, PhaseOn(start, today))
      BY <1>4 DEF ImportOn
    <2>2. shown' = "unsent" => DueDate(start) - today > 2
      <3>1. start \in Nat
        OBVIOUS
      <3>2. shown' = "unsent" => anaf = "unsent"
        BY <1>1, <2>1, <3>1, UnsentIsUnsent
      <3>3. InternalStatus("unsent", PhaseOn(start, today)) = "unsent"
                => DueDate(start) - today > 2
        BY <1>1, <3>1, StatusOfUnsent
      <3>4. QED
        BY <2>1, <3>2, <3>3
    <2>3. DueDate(issued)' = DueDate(start)
      BY <2>1
    <2>4. QED
      BY <1>1, <2>1, <2>2, <2>3 DEF DeadlinesInv
  <1>5. ASSUME NEW said \in AnafStatuses, Sync(said)
        PROVE  DeadlinesInv'
    <2>1. /\ today' = today /\ issued' = issued /\ anaf' = said /\ synced' = today
          /\ shown' = InternalStatus(said, PhaseOn(issued, today))
      BY <1>5 DEF Sync
    <2>2. shown' = "unsent" => DueDate(issued) - today > 2
      BY <1>1, <2>1, StatusOfUnsent, UnsentIsUnsent
    <2>3. DueDate(issued)' = DueDate(issued)
      BY <2>1
    <2>4. QED
      BY <1>1, <2>1, <2>2, <2>3 DEF DeadlinesInv
  <1>6. ASSUME NEW days \in Thresholds, SetThreshold(days)
        PROVE  DeadlinesInv'
    <2>1. /\ today' = today /\ issued' = issued /\ anaf' = anaf
          /\ shown' = shown /\ synced' = synced
      BY <1>6 DEF SetThreshold
    <2>2. DueDate(issued)' = DueDate(issued)
      BY <2>1
    <2>3. QED
      BY <1>1, <2>1, <2>2 DEF DeadlinesInv
  <1>7. QED
    BY <1>2, <1>3, <1>4, <1>5, <1>6 DEF DeadlinesNext

\* Every invoice has a day of issue, and what is shown as unsent had three days
\* or more to go when it was synchronised.
THEOREM DeadlinesInvariance == DeadlinesSpec => []DeadlinesInv
  <1>1. DeadlinesInit => DeadlinesInv
    BY DEF DeadlinesInit, DeadlinesInv, AnafStatuses
  <1>2. DeadlinesInv /\ [DeadlinesNext]_deadlinesVars => DeadlinesInv'
    BY NextDeadlinesInv
  <1>3. QED
    BY <1>1, <1>2, PTL DEF DeadlinesSpec

\* The deadline is the fifth workday after the issue.
THEOREM FifthWorkday == DeadlinesSpec => []DeadlineIsFifthWorkday
  <1>1. DeadlinesInv => DeadlineIsFifthWorkday
    BY FiveWorkdays DEF DeadlinesInv, DeadlineIsFifthWorkday
  <1>2. QED
    BY <1>1, DeadlinesInvariance, PTL

\* With no more than three days from one synchronisation to the next, an
\* invoice that stays unsent is shown near its deadline before it is late.
THEOREM WarnedInTime ==
    ASSUME MaxGap <= 3
    PROVE  DeadlinesSpec => WarnedBeforeLate
  <1>1. ASSUME DeadlinesInv, [DeadlinesNext]_deadlinesVars
        PROVE  [shown = "unsent" /\ anaf' = "unsent" => shown' # "overdue"]_deadlinesVars
    <2>1. /\ issued \in Nat /\ today \in Nat /\ synced \in Nat /\ MaxGap \in Nat
          /\ shown # "none" => today - synced <= MaxGap
          /\ shown = "unsent" => DueDate(issued) - synced > 2
      BY <1>1, CalendarAssumption DEF DeadlinesInv
    <2>2. SUFFICES ASSUME shown = "unsent", shown' = "overdue", anaf' = "unsent"
                   PROVE  FALSE
      OBVIOUS
    <2>3. PICK due \in Nat : due = DueDate(issued)
      BY <2>1, DueIsReached
    <2>4. today <= due
      BY <2>1, <2>2, <2>3
    <2>5. ASSUME NEW said \in AnafStatuses, Sync(said) PROVE FALSE
      <3>1. said = "unsent" /\ shown' = InternalStatus("unsent", PhaseOn(issued, today))
        BY <2>2, <2>5 DEF Sync
      <3>2. today > due
        BY <2>1, <2>2, <2>3, <3>1, StatusOfUnsent
      <3>3. QED
        BY <2>1, <2>4, <3>2
    <2>6. QED
      BY <1>1, <2>2, <2>5
      DEF DeadlinesNext, deadlinesVars, NextDay, ImportOn, SetThreshold
  <1>2. QED
    BY <1>1, DeadlinesInvariance, PTL DEF DeadlinesSpec, WarnedBeforeLate

-----------------------------------------------------------------------------
(* Answers of ANAF.                                                        *)

ReadStatuses == {"rejected", "validated", "pending"}
SomeMarkers == UNION {MarkersOf[w] : w \in Words}
Read == [status: ReadStatuses, message: SUBSET (SomeMarkers \cup {"none"})]

\* The first reader takes the status from such an element.
SaysStatus(e) == e.tag \in {"stare", "@stare"} /\ e.text # {}

LEMMA ElementFields ==
    ASSUME NEW e \in Element
    PROVE  /\ e.tag \in Tags
           /\ e.text = {} \/ \E w \in Words : e.text = {w}
           /\ Markers(e.text) \subseteq SomeMarkers
           /\ e.text = {} => Markers(e.text) = {}
  <1>1. e.tag \in Tags /\ (e.text = {} \/ \E w \in Words : e.text = {w})
    BY DEF Element
  <1>2. \A w \in e.text : w \in Words
    BY <1>1
  <1>3. QED
    BY <1>1, <1>2 DEF Markers, SomeMarkers

LEMMA ElementsOf ==
    ASSUME NEW elements \in Seq(Element)
    PROVE  /\ Len(elements) \in Nat /\ DOMAIN elements = 1..Len(elements)
           /\ \A n \in 1..Len(elements) : elements[n] \in Element
  OBVIOUS

LEMMA NormalizeSays ==
    ASSUME NEW value, NEW message
    PROVE  LET all == value \cup message
               status == NormalizeAnafStatus(value, message) IN
           /\ status \in ReadStatuses
           /\ status = "rejected" <=> all \cap StatusRejections # {}
           /\ status = "validated" <=> /\ all \cap StatusRejections = {}
                                       /\ all \cap StatusValidations # {}
  BY DEF NormalizeAnafStatus, ReadStatuses

\* What is in an element is in the answer, and the other way round.
LEMMA RawIsWhole ==
    ASSUME NEW elements
    PROVE  /\ \A n \in DOMAIN elements :
                  /\ Markers(elements[n].text) \subseteq RawMarkers(elements)
                  /\ TagMarkers(elements[n].tag) \subseteq RawMarkers(elements)
           /\ \A m \in RawMarkers(elements) : \E n \in DOMAIN elements :
                  \/ m \in Markers(elements[n].text)
                  \/ m \in TagMarkers(elements[n].tag)
  BY DEF RawMarkers, Markers, TextOf

LEMMA StatusTurnType ==
    ASSUME NEW r \in Read, NEW e \in Element, NEW raw
    PROVE  StatusTurn(r, e, raw) \in Read
  <1>1. Markers(e.text) \in SUBSET (SomeMarkers \cup {"none"})
    BY ElementFields
  <1>2. NormalizeAnafStatus(Markers(e.text), raw) \in ReadStatuses
    BY NormalizeSays
  <1>3. QED
    BY <1>1, <1>2 DEF StatusTurn, Read

\* The loop of the first reader, turn by turn.
Turns(f, elements, raw) ==
    /\ f \in [0..Len(elements) -> Read]
    /\ f[0] = [status |-> "pending", message |-> {"none"}]
    /\ \A n \in 1..Len(elements) : f[n] = StatusTurn(f[n - 1], elements[n], raw)

LEMMA StatusReadIsLoop ==
    ASSUME NEW elements \in Seq(Element), NEW raw
    PROVE  \E f : /\ Turns(f, elements, raw)
                  /\ StatusRead(elements, raw) = f[Len(elements)]
  <1> DEFINE N == Len(elements)
             start == [status |-> "pending", message |-> {"none"}]
             step == [n \in 1..N |-> [r \in Read |-> StatusTurn(r, elements[n], raw)]]
             Loop(f) == f = [n \in 0..N |->
                                IF n = 0 THEN start
                                ELSE StatusTurn(f[n - 1], elements[n], raw)]
             g == CHOOSE f : Loop(f)
  <1>1. N \in Nat /\ \A n \in 1..N : elements[n] \in Element
    BY ElementsOf
  <1>2. start \in Read
    BY DEF Read, ReadStatuses
  <1>3. step \in [1..N -> [Read -> Read]]
    BY <1>1, StatusTurnType
  <1> HIDE DEF N, start
  <1>4. \E f : Loop(f)
    <2>1. PICK f \in [0..N -> Read] : Recurs(f, N, start, step)
      <3> HIDE DEF step
      <3>1. QED
        BY <1>1, <1>2, <1>3, RecursionExists
    <2>2. \A n \in 1..N : step[n][f[n - 1]] = StatusTurn(f[n - 1], elements[n], raw)
      <3>1. ASSUME NEW n \in 1..N PROVE f[n - 1] \in Read
        BY <1>1
      <3>2. QED
        BY <3>1
    <2>3. \A n \in 0..N : n # 0 => n \in 1..N
      BY <1>1
    <2> HIDE DEF step
    <2>4. \A n \in 0..N : f[n] = IF n = 0 THEN start
                                ELSE StatusTurn(f[n - 1], elements[n], raw)
      BY <2>1, <2>2, <2>3 DEF Recurs
    <2>5. Loop(f)
      BY <2>4
    <2>6. QED
      BY <2>5
  <1>5. Loop(g)
    BY <1>4
  <1>6. /\ g[0] = start
        /\ \A n \in 1..N : g[n] = StatusTurn(g[n - 1], elements[n], raw)
    <2>1. 0 \in 0..N /\ \A n \in 1..N : n \in 0..N /\ n # 0
      BY <1>1
    <2> HIDE DEF g
    <2>2. QED
      BY <1>5, <2>1
  <1> DEFINE T == {n \in 0..N : g[n] \in Read}
  <1>7. T = 0..N
    <2> HIDE DEF g
    <2>1. 0 \in T
      BY <1>1, <1>2, <1>6
    <2>2. ASSUME NEW n \in 1..N, n - 1 \in T PROVE n \in T
      BY <1>1, <1>6, <2>2, StatusTurnType
    <2>3. T \in SUBSET (0..N)
      OBVIOUS
    <2> HIDE DEF T
    <2>4. QED
      BY <1>1, <2>1, <2>2, <2>3, UpTo
  <1>8. Turns(g, elements, raw)
    <2>1. g = [n \in 0..N |-> g[n]]
      <3> HIDE DEF g
      <3>1. QED
        BY <1>5
    <2> HIDE DEF g
    <2>2. g \in [0..N -> Read]
      BY <1>7, <2>1
    <2>3. QED
      BY <1>6, <2>2 DEF Turns, N, start
  <1>9. StatusRead(elements, raw) = g[N]
    BY DEF StatusRead, N, start
  <1>10. QED
    BY <1>8, <1>9 DEF N

\* After the loop: the message is of the answer, and the status is that of
\* the whole answer as soon as one element says a status.
LEMMA StatusReadSays ==
    ASSUME NEW elements \in Seq(Element)
    PROVE  LET raw == RawMarkers(elements)
               read == StatusRead(elements, raw) IN
           /\ read.status \in ReadStatuses
           /\ read.message = {"none"} \/ read.message \subseteq raw
           /\ (\E n \in DOMAIN elements : SaysStatus(elements[n])) =>
                  read.status = NormalizeAnafStatus({}, raw)
  <1> DEFINE N == Len(elements)
             raw == RawMarkers(elements)
  <1>1. N \in Nat /\ \A n \in 1..N : elements[n] \in Element /\ n \in DOMAIN elements
    BY ElementsOf
  <1>2. PICK f : Turns(f, elements, raw) /\ StatusRead(elements, raw) = f[N]
    BY StatusReadIsLoop
  <1> DEFINE Good(n) ==
                 /\ f[n].message = {"none"} \/ f[n].message \subseteq raw
                 /\ (\E k \in 1..n : SaysStatus(elements[k])) =>
                        f[n].status = NormalizeAnafStatus({}, raw)
             T == {n \in 0..N : Good(n)}
  <1>3. 0 \in T
    <2>1. f[0].message = {"none"} /\ 1..0 = {}
      BY <1>2 DEF Turns
    <2>2. Good(0)
      BY <2>1
    <2>3. QED
      BY <1>1, <2>2
  <1>4. ASSUME NEW n \in 1..N, n - 1 \in T
        PROVE  n \in T
    <2> DEFINE e == elements[n]
    <2>1. e \in Element /\ Markers(e.text) \subseteq raw
      BY <1>1, RawIsWhole
    <2>2. f[n - 1] \in Read /\ f[n] = StatusTurn(f[n - 1], e, raw)
      <3>1. n - 1 \in 0..N
        BY <1>1
      <3>2. QED
        BY <1>2, <3>1 DEF Turns
    <2>3. NormalizeAnafStatus(Markers(e.text), raw) = NormalizeAnafStatus({}, raw)
      BY <2>1 DEF NormalizeAnafStatus
    <2>4. /\ SaysStatus(e) => f[n].status = NormalizeAnafStatus({}, raw)
          /\ ~ SaysStatus(e) => f[n].status = f[n - 1].status
          /\ f[n].message \in {f[n - 1].message, Markers(e.text)}
      BY <2>2, <2>3 DEF StatusTurn, SaysStatus, Read
    <2>5. \A k \in 1..n : k = n \/ k \in 1..(n - 1)
      BY <1>1
    <2>6. Good(n - 1)
      BY <1>4
    <2>7. Good(n)
      <3> HIDE DEF e
      <3>1. f[n].message = {"none"} \/ f[n].message \subseteq raw
        BY <2>1, <2>4, <2>6
      <3>2. ASSUME NEW k \in 1..n, SaysStatus(elements[k])
            PROVE  f[n].status = NormalizeAnafStatus({}, raw)
        <4>1. CASE SaysStatus(e)
          BY <2>4, <4>1
        <4>2. CASE ~ SaysStatus(e)
          <5>1. k \in 1..(n - 1)
            BY <2>5, <3>2, <4>2 DEF e
          <5>2. QED
            BY <2>4, <2>6, <3>2, <4>2, <5>1
        <4>3. QED
          BY <4>1, <4>2
      <3>3. QED
        BY <3>1, <3>2
    <2> HIDE DEF Good
    <2>8. QED
      BY <1>1, <2>7
  <1>5. N \in T
    <2>1. T \in SUBSET (0..N)
      OBVIOUS
    <2> HIDE DEF T
    <2>2. QED
      BY <1>1, <1>3, <1>4, <2>1, UpTo
  <1>6. f[N].status \in ReadStatuses
    BY <1>1, <1>2 DEF Turns, Read
  <1>7. \A n \in DOMAIN elements : n \in 1..N
    BY ElementsOf
  <1>8. QED
    BY <1>2, <1>5, <1>6, <1>7

LEMMA MessageIsOfAnswer ==
    ASSUME NEW elements \in Seq(Element), NEW message,
           message = {"none"} \/ message \subseteq RawMarkers(elements)
    PROVE  MessageRead(elements, message, RawMarkers(elements))
               \subseteq RawMarkers(elements)
  <1>1. ASSUME NEW first \in SUBSET DOMAIN elements
        PROVE  Markers(UNION {elements[n].text : n \in first})
                   \subseteq RawMarkers(elements)
    <2>1. ASSUME NEW m \in Markers(UNION {elements[n].text : n \in first})
          PROVE  m \in RawMarkers(elements)
      <3>1. PICK n \in first : m \in Markers(elements[n].text)
        BY <2>1 DEF Markers
      <3>2. QED
        BY <3>1, RawIsWhole
    <2>2. QED
      BY <2>1
  <1> DEFINE texts == {n \in DOMAIN elements :
                          elements[n].tag # "@stare" /\ elements[n].text # {}}
             first == {n \in texts : Cardinality({m \in texts : m <= n}) <= 5}
  <1>2. first \in SUBSET DOMAIN elements
    OBVIOUS
  <1>3. CASE message # {"none"}
    BY <1>3 DEF MessageRead
  <1>4. CASE message = {"none"} /\ texts = {}
    BY <1>4 DEF MessageRead
  <1>5. CASE message = {"none"} /\ texts # {}
    <2>1. MessageRead(elements, message, RawMarkers(elements))
              = Markers(UNION {elements[n].text : n \in first})
      BY <1>5 DEF MessageRead
    <2> HIDE DEF first
    <2>2. QED
      BY <1>1, <1>2, <2>1
  <1>6. QED
    BY <1>3, <1>4, <1>5

\* An answer that says a status is read as the whole of it.
LEMMA StatusOfAnswer ==
    ASSUME NEW elements \in Seq(Element),
           \E n \in DOMAIN elements : SaysStatus(elements[n])
    PROVE  ParseStatus(elements) = NormalizeAnafStatus({}, RawMarkers(elements))
  <1> DEFINE raw == RawMarkers(elements)
             read == StatusRead(elements, raw)
             message == MessageRead(elements, read.message, raw)
  <1>1. read.status = NormalizeAnafStatus({}, raw)
    BY StatusReadSays
  <1>2. message \subseteq raw
    BY StatusReadSays, MessageIsOfAnswer
  <1>3. ParseStatus(elements) = NormalizeAnafStatus({read.status}, message)
    BY DEF ParseStatus
  <1> HIDE DEF raw, read, message
  <1>4. QED
    BY <1>1, <1>2, <1>3
       DEF NormalizeAnafStatus, StatusRejections, StatusValidations, raw

\* The second reader: what the answer as a whole means to it, it keeps if
\* each element means that, or nothing.
LEMMA ResponseOfAnswer ==
    ASSUME NEW elements \in Seq(Element), NEW R \in SUBSET Statuses,
           NormalizeFromText(RawMarkers(elements)) \in R,
           \A n \in DOMAIN elements :
               NormalizeFromText(Markers(elements[n].text)) \in R \cup {"none"}
    PROVE  ParseResponse(elements) \in R
  <1> DEFINE N == Len(elements)
             start == NormalizeFromText(RawMarkers(elements))
             step == [n \in 1..N |-> [s \in R |-> ResponseTurn(s, elements[n])]]
             Loop(f) == f = [n \in 0..N |->
                                IF n = 0 THEN start
                                ELSE ResponseTurn(f[n - 1], elements[n])]
             g == CHOOSE f : Loop(f)
  <1>1. N \in Nat /\ \A n \in 1..N : n \in DOMAIN elements
    BY ElementsOf
  <1>2. \A n \in 1..N : \A s \in R : ResponseTurn(s, elements[n]) \in R
    BY <1>1 DEF ResponseTurn
  <1>3. step \in [1..N -> [R -> R]]
    BY <1>2
  <1>4. start \in R
    OBVIOUS
  <1> HIDE DEF N, start
  <1>5. \E f : Loop(f)
    <2>1. PICK f \in [0..N -> R] : Recurs(f, N, start, step)
      <3> HIDE DEF step
      <3>1. QED
        BY <1>1, <1>3, <1>4, RecursionExists
    <2>2. \A n \in 1..N : step[n][f[n - 1]] = ResponseTurn(f[n - 1], elements[n])
      <3>1. ASSUME NEW n \in 1..N PROVE f[n - 1] \in R
        BY <1>1
      <3>2. QED
        BY <3>1
    <2>3. \A n \in 0..N : n # 0 => n \in 1..N
      BY <1>1
    <2> HIDE DEF step
    <2>4. \A n \in 0..N : f[n] = IF n = 0 THEN start
                                ELSE ResponseTurn(f[n - 1], elements[n])
      BY <2>1, <2>2, <2>3 DEF Recurs
    <2>5. Loop(f)
      BY <2>4
    <2>6. QED
      BY <2>5
  <1>6. Loop(g)
    BY <1>5
  <1>7. /\ g[0] = start
        /\ \A n \in 1..N : g[n] = ResponseTurn(g[n - 1], elements[n])
    <2>1. 0 \in 0..N /\ \A n \in 1..N : n \in 0..N /\ n # 0
      BY <1>1
    <2> HIDE DEF g
    <2>2. QED
      BY <1>6, <2>1
  <1> DEFINE T == {n \in 0..N : g[n] \in R}
  <1>8. N \in T
    <2> HIDE DEF g
    <2>1. 0 \in T
      BY <1>1, <1>4, <1>7
    <2>2. ASSUME NEW n \in 1..N, n - 1 \in T PROVE n \in T
      BY <1>1, <1>2, <1>7, <2>2
    <2>3. T \in SUBSET (0..N)
      OBVIOUS
    <2> HIDE DEF T
    <2>4. T = 0..N
      BY <1>1, <2>1, <2>2, <2>3, UpTo
    <2>5. QED
      BY <1>1, <2>4
  <1>9. ParseResponse(elements) = g[N]
    BY DEF ParseResponse, N, start
  <1>10. QED
    BY <1>8, <1>9

LEMMA FromTextType ==
    ASSUME NEW text
    PROVE  /\ NormalizeFromText(text) \in Statuses
           /\ NormalizeFromText({}) = "none"
  BY DEF NormalizeFromText, Statuses

LEMMA ResponseType ==
    ASSUME NEW elements \in Seq(Element)
    PROVE  ParseResponse(elements) \in Statuses
  BY FromTextType, ResponseOfAnswer DEF Statuses

\* What a text must hold to mean something to one reader and to the other.
LEMMA MarkersSay ==
    ASSUME NEW M
    PROVE  /\ NormalizeAnafStatus(M, {}) = NormalizeAnafStatus({}, M)
           /\ NormalizeAnafStatus({}, M) = "rejected" <=> M \cap StatusRejections # {}
           /\ NormalizeAnafStatus({}, M) = "validated" <=>
                  M \cap StatusRejections = {} /\ M \cap StatusValidations # {}
           /\ NormalizeAnafStatus({}, M) = "pending" <=>
                  M \cap StatusRejections = {} /\ M \cap StatusValidations = {}
           /\ NormalizeFromText(M) = "rejected" <=> M \cap ResponseRejections # {}
           /\ NormalizeFromText(M) = "validated" <=>
                  M \cap ResponseRejections = {} /\ M \cap ResponseValidations # {}
           /\ NormalizeFromText(M) = "pending" <=>
                  /\ M \cap (ResponseRejections \cup ResponseValidations) = {}
                  /\ M \cap ResponseWaits # {}
  <1>1. {} \cup M = M /\ M \cup {} = M
    OBVIOUS
  <1>2. /\ NormalizeAnafStatus({}, M) = "rejected" <=> M \cap StatusRejections # {}
        /\ NormalizeAnafStatus({}, M) = "validated" <=>
               M \cap StatusRejections = {} /\ M \cap StatusValidations # {}
        /\ NormalizeAnafStatus({}, M) = "pending" <=>
               M \cap StatusRejections = {} /\ M \cap StatusValidations = {}
        /\ NormalizeAnafStatus(M, {}) = NormalizeAnafStatus({}, M)
    BY <1>1 DEF NormalizeAnafStatus
  <1>3. M \cap (ResponseRejections \cup ResponseValidations) = {} <=>
            M \cap ResponseRejections = {} /\ M \cap ResponseValidations = {}
    OBVIOUS
  <1>4. /\ NormalizeFromText(M) = "rejected" <=> M \cap ResponseRejections # {}
        /\ NormalizeFromText(M) = "validated" <=>
               M \cap ResponseRejections = {} /\ M \cap ResponseValidations # {}
        /\ NormalizeFromText(M) = "pending" <=>
               /\ M \cap (ResponseRejections \cup ResponseValidations) = {}
               /\ M \cap ResponseWaits # {}
    BY <1>3 DEF NormalizeFromText
  <1>5. QED
    BY <1>2, <1>4

LEMMA StatedIsSaid ==
    ASSUME answer \in Seq(Element), StatesStatus
    PROVE  \E n \in DOMAIN answer : SaysStatus(answer[n])
  <1>1. PICK n \in DOMAIN answer : /\ answer[n].tag \in {"stare", "@stare"}
                                  /\ Markers(answer[n].text) # {}
    BY DEF StatesStatus
  <1>2. answer[n] \in Element
    BY ElementsOf
  <1>3. answer[n].text # {}
    BY <1>1, <1>2, ElementFields
  <1>4. QED
    BY <1>1, <1>3 DEF SaysStatus

\* If all that has markers means one thing to both readers, so does the whole.
LEMMA WholeMeans ==
    ASSUME answer \in Seq(Element), StatesStatus,
           NEW verdict \in ReadStatuses, Unanimous(verdict)
    PROVE  LET raw == RawMarkers(answer) IN
           /\ NormalizeAnafStatus({}, raw) = verdict
           /\ NormalizeFromText(raw) = verdict
  <1> DEFINE raw == RawMarkers(answer)
             Alike(M) == /\ M \subseteq raw /\ M # {}
                         /\ NormalizeAnafStatus(M, {}) = verdict
                         /\ NormalizeFromText(M) = verdict
             Means == /\ NormalizeAnafStatus({}, raw) = verdict
                      /\ NormalizeFromText(raw) = verdict
  <1>1. \E M : Alike(M)
    <2>1. PICK n \in DOMAIN answer : Markers(answer[n].text) # {}
      BY DEF StatesStatus
    <2>2. Alike(Markers(answer[n].text))
      BY <2>1, RawIsWhole DEF Unanimous
    <2>3. QED
      BY <2>2
  <1>2. ASSUME NEW m \in raw PROVE \E M : Alike(M) /\ m \in M
    <2>1. PICK n \in DOMAIN answer : \/ m \in Markers(answer[n].text)
                                     \/ m \in TagMarkers(answer[n].tag)
      BY RawIsWhole
    <2>2. CASE m \in Markers(answer[n].text)
      <3>1. Alike(Markers(answer[n].text))
        BY <2>2, RawIsWhole DEF Unanimous
      <3>2. QED
        BY <2>2, <3>1
    <2>3. CASE m \in TagMarkers(answer[n].tag)
      <3>1. Alike(TagMarkers(answer[n].tag))
        BY <2>3, RawIsWhole DEF Unanimous
      <3>2. QED
        BY <2>3, <3>1
    <2>4. QED
      BY <2>1, <2>2, <2>3
  <1> HIDE DEF raw
  <1>3. PICK M : Alike(M)
    BY <1>1
  <1>4. ASSUME verdict = "rejected" PROVE Means
    <2>1. /\ M \cap StatusRejections # {} /\ M \cap ResponseRejections # {}
          /\ M \subseteq raw
      BY <1>3, <1>4, MarkersSay
    <2>2. QED
      BY <1>4, <2>1, MarkersSay
  <1>5. ASSUME verdict = "validated" PROVE Means
    <2>1. raw \cap StatusRejections = {} /\ raw \cap ResponseRejections = {}
      <3>1. ASSUME NEW m \in raw
            PROVE  m \notin StatusRejections /\ m \notin ResponseRejections
        <4>1. PICK L : Alike(L) /\ m \in L
          BY <1>2
        <4>2. L \cap StatusRejections = {} /\ L \cap ResponseRejections = {}
          BY <1>5, <4>1, MarkersSay
        <4>3. QED
          BY <4>1, <4>2
      <3>2. QED
        BY <3>1
    <2>2. /\ M \cap StatusValidations # {} /\ M \cap ResponseValidations # {}
          /\ M \subseteq raw
      BY <1>3, <1>5, MarkersSay
    <2>3. QED
      BY <1>5, <2>1, <2>2, MarkersSay
  <1>6. ASSUME verdict = "pending" PROVE Means
    <2>1. /\ raw \cap StatusRejections = {} /\ raw \cap StatusValidations = {}
          /\ raw \cap (ResponseRejections \cup ResponseValidations) = {}
      <3>1. ASSUME NEW m \in raw
            PROVE  /\ m \notin StatusRejections /\ m \notin StatusValidations
                   /\ m \notin ResponseRejections \cup ResponseValidations
        <4>1. PICK L : Alike(L) /\ m \in L
          BY <1>2
        <4>2. /\ L \cap StatusRejections = {} /\ L \cap StatusValidations = {}
              /\ L \cap (ResponseRejections \cup ResponseValidations) = {}
          BY <1>6, <4>1, MarkersSay
        <4>3. QED
          BY <4>1, <4>2
      <3>2. QED
        BY <3>1
    <2>2. M \cap ResponseWaits # {} /\ M \subseteq raw
      BY <1>3, <1>6, MarkersSay
    <2>3. QED
      BY <1>6, <2>1, <2>2, MarkersSay
  <1>7. Means
    <2> HIDE DEF Means
    <2>1. QED
      BY <1>4, <1>5, <1>6 DEF ReadStatuses
  <1>8. QED
    BY <1>7 DEF raw

\* The answers read grow by elements and by what files are read as.
THEOREM AnswersInvariance == AnswersSpec => []AnswersTypeOK
  <1>1. AnswersInit => AnswersTypeOK
    BY DEF AnswersInit, AnswersTypeOK
  <1>2. AnswersTypeOK /\ [AnswersNext]_answersVars => AnswersTypeOK'
    <2> SUFFICES ASSUME AnswersTypeOK, [AnswersNext]_answersVars
                 PROVE  AnswersTypeOK'
      OBVIOUS
    <2>1. CASE FileEnds
      BY <2>1, ResponseType DEF FileEnds, AnswersTypeOK
    <2>2. ASSUME NEW e \in Element, AnotherElement(e)
          PROVE  AnswersTypeOK'
      <3>1. answer' = Append(answer, e) /\ archive' = archive
        BY <2>2 DEF AnotherElement
      <3> HIDE DEF Element
      <3>2. QED
        BY <3>1 DEF AnswersTypeOK
    <2>3. ASSUME NEW status \in Statuses, AnotherFile(status)
          PROVE  AnswersTypeOK'
      BY <2>3 DEF AnotherFile, AnswersTypeOK
    <2>4. CASE UNCHANGED answersVars
      BY <2>4 DEF answersVars, AnswersTypeOK
    <2>5. QED
      BY <2>1, <2>2, <2>3, <2>4 DEF AnswersNext
  <1>3. QED
    BY <1>1, <1>2, PTL DEF AnswersSpec

\* An answer that states a status, of any length and in any order, is read as
\* a refusal exactly if a word of refusal is in it, and as a validation
\* exactly if there is none and a word of success is
\* (parse_anaf_status_response).
THEOREM OrderMattersNot == AnswersSpec => []OrderDoesNotMatter
  <1>1. AnswersTypeOK => OrderDoesNotMatter
    <2> SUFFICES ASSUME AnswersTypeOK, StatesStatus
                 PROVE  OrderDoesNotMatter
      BY DEF OrderDoesNotMatter
    <2>1. answer \in Seq(Element)
      BY DEF AnswersTypeOK
    <2>2. \E n \in DOMAIN answer : SaysStatus(answer[n])
      BY <2>1, StatedIsSaid
    <2>3. ParseStatus(answer) = NormalizeAnafStatus({}, RawMarkers(answer))
      BY <2>1, <2>2, StatusOfAnswer
    <2> DEFINE raw == RawMarkers(answer)
    <2> HIDE DEF raw
    <2>4. /\ ParseStatus(answer) = "rejected" <=> raw \cap StatusRejections # {}
          /\ ParseStatus(answer) = "validated" <=>
                 raw \cap StatusRejections = {} /\ raw \cap StatusValidations # {}
      BY <2>3, MarkersSay DEF raw
    <2>5. QED
      BY <2>4 DEF OrderDoesNotMatter, raw
  <1>2. QED
    BY <1>1, AnswersInvariance, PTL

\* The two readers (parse_anaf_status_response and parse_xml_content) agree on
\* any answer that states a status and means the same to both throughout.
THEOREM ReadersInAgreement == AnswersSpec => []ReadersAgree
  <1>1. AnswersTypeOK => ReadersAgree
    <2> SUFFICES ASSUME AnswersTypeOK,
                        NEW verdict \in {"rejected", "validated", "pending"},
                        StatesStatus, Unanimous(verdict)
                 PROVE  /\ ParseStatus(answer) = verdict
                        /\ ParseResponse(answer) = verdict
      BY DEF ReadersAgree
    <2>1. answer \in Seq(Element) /\ verdict \in ReadStatuses
      BY DEF AnswersTypeOK, ReadStatuses
    <2>2. /\ NormalizeAnafStatus({}, RawMarkers(answer)) = verdict
          /\ NormalizeFromText(RawMarkers(answer)) = verdict
      BY <2>1, WholeMeans
    <2>3. \E n \in DOMAIN answer : SaysStatus(answer[n])
      BY <2>1, StatedIsSaid
    <2>4. ParseStatus(answer) = verdict
      BY <2>1, <2>2, <2>3, StatusOfAnswer
    <2>5. ASSUME NEW n \in DOMAIN answer
          PROVE  NormalizeFromText(Markers(answer[n].text)) \in {verdict, "none"}
      BY FromTextType DEF Unanimous
    <2>6. ParseResponse(answer) \in {verdict}
      <3>1. {verdict} \in SUBSET Statuses
        BY DEF Statuses
      <3>2. QED
        BY <2>1, <2>2, <2>5, <3>1, ResponseOfAnswer
    <2>7. QED
      BY <2>4, <2>6
  <1>2. QED
    BY <1>1, AnswersInvariance, PTL

\* A file of an archive that refuses makes the summary a refusal, and no file
\* after it takes that back (parse_anaf_response_zip).
THEOREM RefusalKept == AnswersSpec => RefusalStays
  <1>1. \A files : Summary(files) = "rejected" <=>
                       \E n \in DOMAIN files : files[n] = "rejected"
    BY DEF Summary
  <1>2. AnswersTypeOK /\ [AnswersNext]_answersVars =>
            [Summary(archive) = "rejected" => Summary(archive') = "rejected"]_archive
    <2> SUFFICES ASSUME AnswersTypeOK, [AnswersNext]_answersVars,
                        Summary(archive) = "rejected", archive' # archive
                 PROVE  Summary(archive') = "rejected"
      OBVIOUS
    <2>1. PICK n \in DOMAIN archive : archive[n] = "rejected"
      BY <1>1
    <2>2. archive \in Seq(Statuses) /\ archive # <<>>
      BY <2>1 DEF AnswersTypeOK
    <2>3. PICK status \in Statuses : archive' = Append(archive, status)
      BY <2>2 DEF AnswersNext, FileEnds, AnotherElement, AnotherFile, answersVars
    <2>4. n \in DOMAIN archive' /\ archive'[n] = "rejected"
      BY <2>1, <2>2, <2>3
    <2>5. QED
      BY <1>1, <2>4
  <1>3. QED
    BY <1>2, AnswersInvariance, PTL DEF AnswersSpec, RefusalStays
=============================================================================
