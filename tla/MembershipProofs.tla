-------------------------- MODULE MembershipProofs --------------------------
(***************************************************************************)
(* Membership for every number of users, rows and threads: the inductive   *)
(* invariant, and the properties it implies.                               *)
(***************************************************************************)
EXTENDS Membership, Counting

-----------------------------------------------------------------------------
(* Rows and sessions.                                                      *)

MemberRows == MemberRow \cup {NoRow}
InvitationRows == InvitationRow \cup {NoInvitation}

LEMMA NoneIsNoUser ==
    /\ NoRow \notin MemberRow /\ NoRow.user \notin Users
    /\ NoInvitation \notin InvitationRow /\ NoInvitation.email \notin Users
    /\ NoInvitation.status = "none"
  BY PeopleAssumption DEF NoRow, MemberRow, NoInvitation, InvitationRow

LEMMA RowFields ==
    /\ \A r \in MemberRow : r.user \in Users /\ r.role \in Roles
    /\ \A r \in InvitationRow : /\ r.email \in Users /\ r.role \in Roles
                                /\ r.status \in {"pending", "accepted"}
  BY DEF MemberRow, InvitationRow

LEMMA EmptyTables ==
    /\ NoMembers \in [Members -> MemberRows]
    /\ NoInvitations \in [Invitations -> InvitationRows]
    /\ \A m \in Members : NoMembers[m] = NoRow
    /\ \A i \in Invitations : NoInvitations[i] = NoInvitation
  BY DEF NoMembers, NoInvitations, MemberRows, InvitationRows

LEMMA Typed ==
    ASSUME TypeOK
    PROVE  /\ accounts \subseteq Users
           /\ member \in [Members -> MemberRows]
           /\ invitation \in [Invitations -> InvitationRows]
           /\ \A w \in Threads : job[w] \in Job
  BY DEF TypeOK, MemberRows, InvitationRows

LEMMA JobFields ==
    ASSUME NEW j \in Job
    PROVE  /\ j.memSeen \in [Members -> MemberRows]
           /\ j.memImage \in [Members -> MemberRows]
           /\ j.invSeen \in [Invitations -> InvitationRows]
           /\ j.invImage \in [Invitations -> InvitationRows]
           /\ j.busy \in BOOLEAN /\ j.signs \in SUBSET Users
           /\ j.grants \in SUBSET (Users \X Roles)
  BY DEF Job, MemberRows, InvitationRows

LEMMA IdleFields ==
    /\ Idle \in Job /\ Idle.busy = FALSE
    /\ Idle.memSeen = NoMembers /\ Idle.memImage = NoMembers
    /\ Idle.invSeen = NoInvitations /\ Idle.invImage = NoInvitations
    /\ Idle.signs = {} /\ Idle.grants = {}
  BY EmptyTables DEF Idle, Job, MemberRows, InvitationRows

LEMMA OwnerRole == "accountant_owner" \in Roles /\ Owner \in Users
  BY PeopleAssumption DEF OwnerRoles

\* The sessions that add a membership of a user.
Adders(u) ==
    {w \in Threads : \E m \in AddedMembers(job[w]) : job[w].memImage[m].user = u}

LEMMA CountsAreFinite ==
    ASSUME NEW u \in Users
    PROVE  /\ IsFiniteSet(RowsOf(u)) /\ Cardinality(RowsOf(u)) \in Nat
           /\ IsFiniteSet(Adders(u)) /\ Cardinality(Adders(u)) \in Nat
           /\ Cardinality(Adders(u)) <= Cardinality(Threads)
           /\ Cardinality(Threads) \in Nat
  <1>1. RowsOf(u) \in SUBSET Members /\ Adders(u) \in SUBSET Threads
    BY DEF RowsOf, Adders
  <1>2. QED
    BY <1>1, TablesAssumption, PartIsSmaller, FS_CardinalityType

LEMMA FewByAdders ==
    MembershipsAreFew <=>
        \A u \in Users :
            Cardinality(RowsOf(u)) + Cardinality(Adders(u)) <= Cardinality(Threads)
  BY DEF MembershipsAreFew, Adders

-----------------------------------------------------------------------------
(* What the requests ask for.                                              *)

\* The copies of a session j that gives a role in the row m, over those of base.
Gives(j, base, m, u, role) ==
    /\ j.memSeen = [base.memSeen EXCEPT ![m] = member[m]]
    /\ j.memImage = [base.memImage EXCEPT ![m] = [user |-> u, role |-> role]]

LEMMA WithRoleType ==
    ASSUME TypeOK, NEW base \in Job, NEW m \in Members, NEW u \in Users,
           NEW role \in Roles
    PROVE  /\ WithRole(base, m, u, role) \in Job
           /\ WithRole(base, m, u, role).busy = TRUE
           /\ Gives(WithRole(base, m, u, role), base, m, u, role)
           /\ WithRole(base, m, u, role).invSeen = base.invSeen
           /\ WithRole(base, m, u, role).invImage = base.invImage
           /\ WithRole(base, m, u, role).signs = base.signs
           /\ WithRole(base, m, u, role).grants = base.grants
  <1> DEFINE seen == [base.memSeen EXCEPT ![m] = member[m]]
             image == [base.memImage EXCEPT ![m] = [user |-> u, role |-> role]]
  <1>1. [user |-> u, role |-> role] \in MemberRows /\ member[m] \in MemberRows
    BY Typed DEF MemberRows, MemberRow
  <1>2. seen \in [Members -> MemberRows] /\ image \in [Members -> MemberRows]
    BY <1>1, JobFields
  <1>3. WithRole(base, m, u, role) =
            [base EXCEPT !.busy = TRUE, !.memSeen = seen, !.memImage = image]
    BY DEF WithRole, Job
  <1>4. /\ WithRole(base, m, u, role).memSeen = seen
        /\ WithRole(base, m, u, role).memImage = image
    <2> HIDE DEF seen, image
    <2>1. QED
      BY <1>3 DEF Job
  <1>5. Gives(WithRole(base, m, u, role), base, m, u, role)
    BY <1>4 DEF Gives
  <1> HIDE DEF seen, image
  <1>6. QED
    BY <1>2, <1>3, <1>5 DEF Job, MemberRows

\* The owner of an organisation adds a user.
Adding(j, m, u, role) == [WithRole(j, m, u, role) EXCEPT !.grants = {<<u, role>>}]

LEMMA AddingType ==
    ASSUME TypeOK, NEW base \in Job, NEW m \in Members, NEW u \in Users,
           NEW role \in Roles
    PROVE  /\ Adding(base, m, u, role) \in Job
           /\ Gives(Adding(base, m, u, role), base, m, u, role)
           /\ Adding(base, m, u, role).invSeen = base.invSeen
           /\ Adding(base, m, u, role).invImage = base.invImage
           /\ Adding(base, m, u, role).signs = base.signs
           /\ Adding(base, m, u, role).grants = {<<u, role>>}
  <1>1. PICK q \in Job : q = WithRole(base, m, u, role)
    BY WithRoleType
  <1>2. /\ Gives(q, base, m, u, role) /\ q.invSeen = base.invSeen
        /\ q.invImage = base.invImage /\ q.signs = base.signs
    BY <1>1, WithRoleType
  <1>3. Adding(base, m, u, role) = [q EXCEPT !.grants = {<<u, role>>}]
    BY <1>1 DEF Adding
  <1>4. QED
    BY <1>2, <1>3 DEF Job, Gives

\* The copies of a session j that loads the invitation i as y and makes it x.
Changes(j, i, y, x) ==
    /\ j.invSeen = [NoInvitations EXCEPT ![i] = y]
    /\ j.invImage = [NoInvitations EXCEPT ![i] = x]

\* The copies of a session j that adds the invitation x.
Offers(j, i, x) ==
    /\ j.invSeen = NoInvitations
    /\ j.invImage = [NoInvitations EXCEPT ![i] = x]

\* The session of an owner who invites.
Asking(j, u, role) == [j EXCEPT !.busy = TRUE, !.grants = {<<u, role>>}]

LEMMA AskingType ==
    ASSUME NEW base \in Job, NEW u \in Users, NEW role \in Roles
    PROVE  /\ Asking(base, u, role) \in Job
           /\ Asking(base, u, role).memSeen = base.memSeen
           /\ Asking(base, u, role).memImage = base.memImage
           /\ Asking(base, u, role).invSeen = base.invSeen
           /\ Asking(base, u, role).invImage = base.invImage
           /\ Asking(base, u, role).signs = base.signs
           /\ Asking(base, u, role).grants = {<<u, role>>}
  <1>1. {<<u, role>>} \in SUBSET (Users \X Roles)
    OBVIOUS
  <1>2. PICK g : g = {<<u, role>>}
    OBVIOUS
  <1>3. Asking(base, u, role) = [base EXCEPT !.busy = TRUE, !.grants = g]
    BY <1>2 DEF Asking
  <1>4. QED
    BY <1>1, <1>2, <1>3 DEF Job

\* The owner renews an invitation, or makes one.
Renewed(i, role) == [invitation[i] EXCEPT !.role = role, !.expired = FALSE]
Renewing(j, i, u, role) ==
    [Asking(j, u, role) EXCEPT
        !.invSeen[i] = Outdated(i), !.invImage[i] = Renewed(i, role)]

Offered(u, role) ==
    [email |-> u, role |-> role, status |-> "pending", expired |-> FALSE]
Inviting(j, i, u, role) ==
    [Asking(j, u, role) EXCEPT
        !.invImage[i] = Offered(u, role)]

LEMMA RenewingType ==
    ASSUME TypeOK, NEW base \in Job, NEW i \in Invitations, NEW u \in Users,
           NEW role \in Roles, invitation[i] # NoInvitation,
           base.invSeen = NoInvitations, base.invImage = NoInvitations
    PROVE  /\ Renewed(i, role) \in InvitationRow
           /\ Renewed(i, role).email = invitation[i].email
           /\ Renewed(i, role).role = role
           /\ Renewed(i, role).status = invitation[i].status
           /\ Outdated(i) \in InvitationRow
           /\ Outdated(i).email = invitation[i].email
           /\ Outdated(i).status = invitation[i].status
           /\ Renewing(base, i, u, role) \in Job
           /\ Renewing(base, i, u, role).memSeen = base.memSeen
           /\ Renewing(base, i, u, role).memImage = base.memImage
           /\ Changes(Renewing(base, i, u, role), i, Outdated(i), Renewed(i, role))
           /\ Renewing(base, i, u, role).signs = base.signs
           /\ Renewing(base, i, u, role).grants = {<<u, role>>}
  <1>1. PICK x, y : x = Renewed(i, role) /\ y = Outdated(i)
    OBVIOUS
  <1>2. invitation[i] \in InvitationRow
    BY Typed DEF InvitationRows
  <1>3. /\ x \in InvitationRow /\ x.email = invitation[i].email
        /\ x.role = role /\ x.status = invitation[i].status
        /\ y \in InvitationRow /\ y.email = invitation[i].email
        /\ y.status = invitation[i].status
    BY <1>1, <1>2 DEF Renewed, Outdated, InvitationRow
  <1> DEFINE seen == [NoInvitations EXCEPT ![i] = y]
             image == [NoInvitations EXCEPT ![i] = x]
  <1>4. /\ seen \in [Invitations -> InvitationRows]
        /\ image \in [Invitations -> InvitationRows]
    BY <1>2, <1>3, EmptyTables DEF InvitationRows
  <1>5. PICK q \in Job : q = Asking(base, u, role)
    BY AskingType
  <1>6. /\ q.memSeen = base.memSeen /\ q.memImage = base.memImage
        /\ q.invSeen = NoInvitations /\ q.invImage = NoInvitations
        /\ q.signs = base.signs /\ q.grants = {<<u, role>>}
    BY <1>5, AskingType
  <1>7. Renewing(base, i, u, role) = [q EXCEPT !.invSeen = seen, !.invImage = image]
    BY <1>1, <1>5, <1>6 DEF Renewing, Job
  <1>8. /\ Renewing(base, i, u, role).invSeen = seen
        /\ Renewing(base, i, u, role).invImage = image
    <2> HIDE DEF seen, image
    <2>1. QED
      BY <1>7 DEF Job
  <1>9. Changes(Renewing(base, i, u, role), i, Outdated(i), Renewed(i, role))
    BY <1>1, <1>8 DEF Changes
  <1> HIDE DEF seen, image
  <1>10. /\ Renewing(base, i, u, role) \in Job
         /\ Renewing(base, i, u, role).memSeen = base.memSeen
         /\ Renewing(base, i, u, role).memImage = base.memImage
         /\ Renewing(base, i, u, role).signs = base.signs
         /\ Renewing(base, i, u, role).grants = {<<u, role>>}
    BY <1>4, <1>6, <1>7 DEF Job, InvitationRows
  <1>11. QED
    BY <1>1, <1>3, <1>9, <1>10

LEMMA InvitingType ==
    ASSUME NEW base \in Job, NEW i \in Invitations, NEW u \in Users,
           NEW role \in Roles,
           base.invSeen = NoInvitations, base.invImage = NoInvitations
    PROVE  /\ Offered(u, role) \in InvitationRow
           /\ Offered(u, role).email = u /\ Offered(u, role).role = role
           /\ Inviting(base, i, u, role) \in Job
           /\ Inviting(base, i, u, role).memSeen = base.memSeen
           /\ Inviting(base, i, u, role).memImage = base.memImage
           /\ Offers(Inviting(base, i, u, role), i, Offered(u, role))
           /\ Inviting(base, i, u, role).signs = base.signs
           /\ Inviting(base, i, u, role).grants = {<<u, role>>}
  <1>1. PICK x : x = Offered(u, role)
    OBVIOUS
  <1>2. x \in InvitationRow /\ x.email = u /\ x.role = role
    BY <1>1 DEF Offered, InvitationRow
  <1> DEFINE image == [NoInvitations EXCEPT ![i] = x]
  <1>3. image \in [Invitations -> InvitationRows]
    BY <1>2, EmptyTables DEF InvitationRows
  <1>4. PICK q \in Job : q = Asking(base, u, role)
    BY AskingType
  <1>5. /\ q.memSeen = base.memSeen /\ q.memImage = base.memImage
        /\ q.invSeen = NoInvitations /\ q.invImage = NoInvitations
        /\ q.signs = base.signs /\ q.grants = {<<u, role>>}
    BY <1>4, AskingType
  <1>6. Inviting(base, i, u, role) = [q EXCEPT !.invImage = image]
    BY <1>1, <1>4, <1>5 DEF Inviting, Job
  <1>7. Inviting(base, i, u, role).invImage = image
    <2> HIDE DEF image
    <2>1. QED
      BY <1>6 DEF Job
  <1> HIDE DEF image
  <1>8. /\ Inviting(base, i, u, role) \in Job
        /\ Inviting(base, i, u, role).memSeen = base.memSeen
        /\ Inviting(base, i, u, role).memImage = base.memImage
        /\ Inviting(base, i, u, role).invSeen = NoInvitations
        /\ Inviting(base, i, u, role).signs = base.signs
        /\ Inviting(base, i, u, role).grants = {<<u, role>>}
    BY <1>3, <1>5, <1>6 DEF Job, InvitationRows
  <1>9. QED
    BY <1>1, <1>2, <1>7, <1>8 DEF Offers, image

\* An invitation is accepted.
AsAccepted(i) == [invitation[i] EXCEPT !.status = "accepted"]

LEMMA AcceptedType ==
    ASSUME TypeOK, NEW i \in Invitations, NEW m \in Members, NEW u \in Users,
           invitation[i] # NoInvitation
    PROVE  /\ AsAccepted(i) \in InvitationRow
           /\ AsAccepted(i).email = invitation[i].email
           /\ AsAccepted(i).role = invitation[i].role
           /\ AsAccepted(i).status = "accepted"
           /\ Accepted(i, m, u) \in Job
           /\ Gives(Accepted(i, m, u), Idle, m, u, invitation[i].role)
           /\ Changes(Accepted(i, m, u), i, invitation[i], AsAccepted(i))
           /\ Accepted(i, m, u).signs = {} /\ Accepted(i, m, u).grants = {}
  <1>1. PICK x : x = AsAccepted(i)
    OBVIOUS
  <1>2. invitation[i] \in InvitationRow /\ invitation[i].role \in Roles
    BY Typed, RowFields DEF InvitationRows
  <1>3. /\ x \in InvitationRow /\ x.email = invitation[i].email
        /\ x.role = invitation[i].role /\ x.status = "accepted"
    BY <1>1, <1>2 DEF AsAccepted, InvitationRow
  <1> DEFINE seen == [NoInvitations EXCEPT ![i] = invitation[i]]
             image == [NoInvitations EXCEPT ![i] = x]
  <1>4. /\ seen \in [Invitations -> InvitationRows]
        /\ image \in [Invitations -> InvitationRows]
    BY <1>2, <1>3, EmptyTables DEF InvitationRows
  <1>5. PICK q \in Job : q = WithRole(Idle, m, u, invitation[i].role)
    BY <1>2, IdleFields, WithRoleType
  <1>6. /\ Gives(q, Idle, m, u, invitation[i].role)
        /\ q.invSeen = NoInvitations /\ q.invImage = NoInvitations
        /\ q.signs = {} /\ q.grants = {}
    <2>1. PICK role \in Roles : role = invitation[i].role
      BY <1>2
    <2>2. /\ Gives(WithRole(Idle, m, u, role), Idle, m, u, role)
          /\ WithRole(Idle, m, u, role).invSeen = Idle.invSeen
          /\ WithRole(Idle, m, u, role).invImage = Idle.invImage
          /\ WithRole(Idle, m, u, role).signs = Idle.signs
          /\ WithRole(Idle, m, u, role).grants = Idle.grants
      <3>1. Idle \in Job
        BY IdleFields
      <3>2. QED
        BY <3>1, WithRoleType, Zenon
    <2>3. q = WithRole(Idle, m, u, role)
      BY <1>5, <2>1
    <2>4. Gives(q, Idle, m, u, role)
      BY <2>2, <2>3
    <2>5. QED
      BY <2>1, <2>2, <2>3, <2>4, IdleFields
  <1>7. Accepted(i, m, u) = [q EXCEPT !.invSeen = seen, !.invImage = image]
    <2>1. Accepted(i, m, u) =
              [q EXCEPT !.invSeen[i] = invitation[i], !.invImage[i] = x]
      BY <1>1, <1>5 DEF Accepted, AsAccepted
    <2>2. QED
      BY <1>6, <2>1 DEF Job
  <1>8. Accepted(i, m, u).invSeen = seen /\ Accepted(i, m, u).invImage = image
    <2> HIDE DEF seen, image
    <2>1. QED
      BY <1>7 DEF Job
  <1>9. Changes(Accepted(i, m, u), i, invitation[i], AsAccepted(i))
    BY <1>1, <1>8 DEF Changes
  <1> HIDE DEF seen, image
  <1>10. /\ Accepted(i, m, u) \in Job
         /\ Accepted(i, m, u).memSeen = q.memSeen
         /\ Accepted(i, m, u).memImage = q.memImage
         /\ Accepted(i, m, u).signs = {} /\ Accepted(i, m, u).grants = {}
    BY <1>4, <1>6, <1>7 DEF Job, InvitationRows
  <1>11. Gives(Accepted(i, m, u), Idle, m, u, invitation[i].role)
    BY <1>6, <1>10 DEF Gives
  <1>12. QED
    BY <1>1, <1>3, <1>9, <1>10, <1>11

\* An invitation is accepted by a user who signs up for it.
SigningUp(i, m, u) == [Accepted(i, m, u) EXCEPT !.signs = {u}]

LEMMA SigningUpType ==
    ASSUME TypeOK, NEW i \in Invitations, NEW m \in Members, NEW u \in Users,
           invitation[i] # NoInvitation
    PROVE  /\ SigningUp(i, m, u) \in Job
           /\ Gives(SigningUp(i, m, u), Idle, m, u, invitation[i].role)
           /\ Changes(SigningUp(i, m, u), i, invitation[i], AsAccepted(i))
           /\ SigningUp(i, m, u).signs = {u} /\ SigningUp(i, m, u).grants = {}
  <1>1. PICK q \in Job : q = Accepted(i, m, u)
    BY AcceptedType
  <1>2. /\ Gives(q, Idle, m, u, invitation[i].role)
        /\ Changes(q, i, invitation[i], AsAccepted(i)) /\ q.grants = {}
    BY <1>1, AcceptedType
  <1>3. SigningUp(i, m, u) = [q EXCEPT !.signs = {u}]
    BY <1>1 DEF SigningUp
  <1>4. QED
    BY <1>2, <1>3 DEF Job, Gives, Changes

-----------------------------------------------------------------------------
(* What a step must keep.                                                  *)

\* No account and no grant is taken back, a membership stays that of its user,
\* an invitation that of its address.
Remembers ==
    /\ accounts \subseteq accounts' /\ granted \subseteq granted'
    /\ \A m \in Members : member[m] # NoRow =>
           member'[m] # NoRow /\ member'[m].user = member[m].user
    /\ \A i \in Invitations : invitation[i] # NoInvitation =>
           invitation'[i] # NoInvitation /\ invitation'[i].email = invitation[i].email

LEMMA OtherSessions ==
    ASSUME Remembers, NEW v \in Threads, job'[v] = job[v],
           MembersFit(job[v]), InvitationsFit(job[v]),
           \A m \in AddedMembers(job[v]) : member'[m] = NoRow,
           \A i \in AddedInvitations(job[v]) : invitation'[i] = NoInvitation
    PROVE  MembersFit(job[v])' /\ InvitationsFit(job[v])'
  <1>1. PICK j : j = job[v]
    OBVIOUS
  <1>2. /\ job'[v] = j /\ MembersFit(j) /\ InvitationsFit(j)
        /\ \A m \in AddedMembers(j) : member'[m] = NoRow
        /\ \A i \in AddedInvitations(j) : invitation'[i] = NoInvitation
    BY <1>1
  <1>3. MembersFit(j)'
    BY <1>2 DEF MembersFit, Remembers
  <1>4. InvitationsFit(j)'
    BY <1>2 DEF InvitationsFit, Remembers
  <1>5. QED
    BY <1>2, <1>3, <1>4 DEF MembersFit, InvitationsFit, AddedMembers, AddedInvitations

\* The rows that a session adds as it begins are new ones, of users without any.
Newcomers(j) ==
    /\ \A m \in AddedMembers(j) :
           m \in FreeMembers /\ RowsOf(j.memImage[m].user) = {}
    /\ \A i \in AddedInvitations(j) : i \in FreeInvitations

LEMMA IdleFits ==
    /\ AddedMembers(Idle) = {} /\ AddedInvitations(Idle) = {}
    /\ MembersFit(Idle) /\ InvitationsFit(Idle) /\ Newcomers(Idle)
  <1>1. AddedMembers(Idle) = {} /\ AddedInvitations(Idle) = {}
    BY IdleFields, EmptyTables DEF AddedMembers, AddedInvitations
  <1>2. QED
    BY <1>1, IdleFields, EmptyTables DEF MembersFit, InvitationsFit, Newcomers

LEMMA BeginStep ==
    ASSUME IInv, NEW w \in Threads, NEW j \in Job, Begin(w, j),
           MembersFit(j), InvitationsFit(j), Newcomers(j)
    PROVE  IInv'
  <1>1. /\ TypeOK /\ job[w] = Idle /\ job' = [job EXCEPT ![w] = j]
        /\ accounts' = accounts /\ member' = member
        /\ invitation' = invitation /\ granted' = granted
        /\ \A v \in Threads : MembersFit(job[v]) /\ InvitationsFit(job[v])
    BY DEF IInv, Begin
  <1>2. /\ job'[w] = j /\ job' \in [Threads -> Job]
        /\ \A v \in Threads : v # w => job'[v] = job[v]
    BY <1>1 DEF TypeOK
  <1>3. TypeOK' /\ RowsFit'
    BY <1>1, <1>2 DEF IInv, TypeOK, RowsFit
  <1>4. Remembers
    BY <1>1 DEF Remembers
  <1>5. ASSUME NEW v \in Threads PROVE MembersFit(job[v])' /\ InvitationsFit(job[v])'
    <2>1. CASE v = w
      <3>1. MembersFit(j)' /\ InvitationsFit(j)'
        BY <1>1 DEF MembersFit, InvitationsFit
      <3>2. QED
        BY <1>2, <2>1, <3>1
        DEF MembersFit, InvitationsFit, AddedMembers, AddedInvitations
    <2>2. CASE v # w
      <3>1. /\ \A m \in AddedMembers(job[v]) : member'[m] = NoRow
            /\ \A i \in AddedInvitations(job[v]) : invitation'[i] = NoInvitation
        BY <1>1 DEF MembersFit, InvitationsFit, AddedMembers, AddedInvitations
      <3>2. QED
        BY <1>1, <1>2, <1>4, <2>2, <3>1, OtherSessions
    <2>3. QED
      BY <2>1, <2>2
  <1>6. /\ AddedMembers(job[w])' = AddedMembers(j)
        /\ AddedInvitations(job[w])' = AddedInvitations(j)
        /\ \A t \in Threads : t # w =>
               /\ AddedMembers(job[t])' = AddedMembers(job[t])
               /\ AddedInvitations(job[t])' = AddedInvitations(job[t])
    BY <1>2 DEF AddedMembers, AddedInvitations
  <1>7. AddApart'
    <2>1. \A t \in Threads : /\ AddedMembers(j) \cap AddedMembers(job[t]) = {}
                             /\ AddedInvitations(j) \cap AddedInvitations(job[t]) = {}
      BY DEF Newcomers, FreeMembers, FreeInvitations
    <2>2. QED
      BY <1>6, <2>1 DEF IInv, AddApart
  <1>8. MembershipsAreFew'
    <2>1. ASSUME NEW u \in Users
          PROVE  Cardinality(RowsOf(u)') + Cardinality(Adders(u)')
                     <= Cardinality(Threads)
      <3>1. RowsOf(u)' = RowsOf(u)
        BY <1>1 DEF RowsOf
      <3>2. CASE \E m \in AddedMembers(j) : j.memImage[m].user = u
        <4>1. Cardinality(RowsOf(u)) = 0
          BY <3>2, FS_EmptySet DEF Newcomers
        <4>2. Adders(u)' \in SUBSET Threads
          BY DEF Adders
        <4>3. /\ Cardinality(Adders(u)') \in Nat /\ Cardinality(Threads) \in Nat
              /\ Cardinality(Adders(u)') <= Cardinality(Threads)
          BY <4>2, TablesAssumption, PartIsSmaller
        <4>4. QED
          BY <3>1, <4>1, <4>3
      <3>3. CASE ~ \E m \in AddedMembers(j) : j.memImage[m].user = u
        <4>1. \A m \in Members : m \notin AddedMembers(job[w])
          BY <1>1, IdleFits
        <4>2. Adders(u)' = Adders(u)
          BY <1>2, <1>6, <3>3, <4>1 DEF Adders, AddedMembers
        <4>3. QED
          BY <3>1, <4>2, FewByAdders DEF IInv
      <3>4. QED
        BY <3>2, <3>3
    <2>2. QED
      BY <2>1 DEF MembershipsAreFew, Adders
  <1>9. QED
    BY <1>3, <1>5, <1>7, <1>8 DEF IInv

-----------------------------------------------------------------------------
(* Requests.                                                               *)

\* What is asked of the members of a session as it begins.
MembersBegin(j) ==
    /\ MembersFit(j)
    /\ \A m \in AddedMembers(j) :
           m \in FreeMembers /\ RowsOf(j.memImage[m].user) = {}

\* What is asked of its invitations.
InvitationsBegin(j) ==
    /\ InvitationsFit(j)
    /\ \A i \in AddedInvitations(j) : i \in FreeInvitations

\* A role that is given in the row of a user, or in a new one.
LEMMA GivenRole ==
    ASSUME IInv, NEW base \in Job, MembersBegin(base),
           NEW u \in Users, NEW role \in Roles, NEW m \in RowFor(u, role, base),
           m \in Members,
           NEW j \in Job, Gives(j, base, m, u, role),
           base.signs \subseteq j.signs, base.grants \subseteq j.grants,
           u \in accounts \cup j.signs, <<u, role>> \in granted \cup j.grants
    PROVE  MembersBegin(j)
  <1>1. /\ member \in [Members -> MemberRows]
        /\ base.memSeen \in [Members -> MemberRows]
        /\ base.memImage \in [Members -> MemberRows]
        /\ MembersFit(base)
    BY Typed, JobFields DEF IInv, MembersBegin
  <1>2. PICK new : new = [user |-> u, role |-> role]
    OBVIOUS
  <1>3. new.user = u /\ new.role = role /\ new # NoRow
    BY <1>2, NoneIsNoUser DEF NoRow
  <1>4. /\ j.memSeen[m] = member[m] /\ j.memImage[m] = new
        /\ \A n \in Members : n # m =>
               j.memSeen[n] = base.memSeen[n] /\ j.memImage[n] = base.memImage[n]
    BY <1>1, <1>2 DEF Gives
  <1>5. \A n \in Members : n # m => (n \in AddedMembers(j) <=> n \in AddedMembers(base))
    BY <1>4 DEF AddedMembers
  <1>6. ASSUME NEW n \in Members
        PROVE  /\ j.memSeen[n] # NoRow =>
                      /\ j.memImage[n] # NoRow /\ member[n] # NoRow
                      /\ j.memImage[n].user = j.memSeen[n].user
                      /\ member[n].user = j.memSeen[n].user
               /\ n \in AddedMembers(j) => member[n] = NoRow
               /\ j.memImage[n] # NoRow =>
                      /\ j.memImage[n].user \in accounts \cup j.signs
                      /\ <<j.memImage[n].user, j.memImage[n].role>>
                             \in granted \cup j.grants
    <2>1. CASE n # m
      BY <1>1, <1>4, <1>5, <2>1 DEF MembersFit
    <2>2. CASE n = m
      <3>1. member[m] # NoRow => member[m].user = u
        BY <1>1 DEF RowFor, RowsOf, FreeMembers, MembersFit, AddedMembers
      <3>2. QED
        BY <1>3, <1>4, <2>2, <3>1 DEF AddedMembers
    <2>3. QED
      BY <2>1, <2>2
  <1>7. ASSUME m \in AddedMembers(j) PROVE m \in FreeMembers /\ RowsOf(u) = {}
    <2>1. member[m] = NoRow
      BY <1>4, <1>7 DEF AddedMembers
    <2>2. m \notin RowsOf(u)
      BY <2>1, NoneIsNoUser DEF RowsOf
    <2>3. CASE m \in AddedMembers(base) /\ base.memImage[m].user = u
      BY <2>3 DEF MembersBegin
    <2>4. CASE ~ (m \in AddedMembers(base) /\ base.memImage[m].user = u)
      BY <2>2, <2>4 DEF RowFor
    <2>5. QED
      BY <2>3, <2>4
  <1>8. ASSUME NEW n \in AddedMembers(j), NEW k \in AddedMembers(j),
               j.memImage[n].user = j.memImage[k].user
        PROVE  n = k
    <2>1. ASSUME m \in AddedMembers(j), NEW x \in AddedMembers(base), x # m
          PROVE  base.memImage[x].user # u
      <3>1. x \in Members /\ member[m] = NoRow
        BY <1>4, <2>1 DEF AddedMembers
      <3>2. m \notin RowsOf(u)
        BY <3>1, NoneIsNoUser DEF RowsOf
      <3>3. CASE m \in AddedMembers(base) /\ base.memImage[m].user = u
        BY <1>1, <2>1, <3>3 DEF MembersFit
      <3>4. CASE ~ (m \in AddedMembers(base) /\ base.memImage[m].user = u)
        BY <3>1, <3>2, <3>4 DEF RowFor
      <3>5. QED
        BY <3>3, <3>4
    <2>2. n \in Members /\ k \in Members
      BY DEF AddedMembers
    <2>3. CASE n # m /\ k # m
      BY <1>1, <1>4, <1>5, <1>8, <2>2, <2>3 DEF MembersFit
    <2>4. CASE n = m /\ k # m
      BY <1>3, <1>4, <1>5, <1>8, <2>1, <2>2, <2>4
    <2>5. CASE n # m /\ k = m
      BY <1>3, <1>4, <1>5, <1>8, <2>1, <2>2, <2>5
    <2>6. QED
      BY <2>3, <2>4, <2>5
  <1>9. MembersFit(j)
    BY <1>6, <1>8 DEF MembersFit
  <1>10. ASSUME NEW n \in AddedMembers(j)
         PROVE  n \in FreeMembers /\ RowsOf(j.memImage[n].user) = {}
    <2>1. n \in Members
      BY DEF AddedMembers
    <2>2. CASE n = m
      BY <1>3, <1>4, <1>7, <2>2
    <2>3. CASE n # m
      BY <1>4, <1>5, <2>1, <2>3 DEF MembersBegin
    <2>4. QED
      BY <2>2, <2>3
  <1>11. QED
    BY <1>9, <1>10 DEF MembersBegin

\* An invitation that is renewed or accepted.
LEMMA ChangedInvitation ==
    ASSUME IInv, NEW j \in Job, NEW i \in Invitations, NEW x \in InvitationRow,
           NEW y \in InvitationRow, Changes(j, i, y, x),
           invitation[i] # NoInvitation,
           y.email = invitation[i].email, y.status = invitation[i].status,
           x.email = invitation[i].email,
           x.status \in {invitation[i].status, "accepted"},
           <<x.email, x.role>> \in granted \cup j.grants
    PROVE  InvitationsBegin(j)
  <1>1. /\ j.invSeen[i] = y /\ j.invImage[i] = x
        /\ \A k \in Invitations : k # i =>
               j.invSeen[k] = NoInvitation /\ j.invImage[k] = NoInvitation
    BY EmptyTables DEF Changes
  <1>2. x # NoInvitation /\ y # NoInvitation
    BY NoneIsNoUser
  <1>3. AddedInvitations(j) = {}
    BY <1>1, <1>2 DEF AddedInvitations
  <1>4. QED
    BY <1>1, <1>2, <1>3 DEF InvitationsBegin, InvitationsFit

\* An invitation that is made.
LEMMA OfferedInvitation ==
    ASSUME IInv, NEW j \in Job, NEW i \in FreeInvitations, i \in Invitations,
           NEW x \in InvitationRow, Offers(j, i, x),
           <<x.email, x.role>> \in granted \cup j.grants
    PROVE  InvitationsBegin(j)
  <1>1. /\ j.invSeen[i] = NoInvitation /\ j.invImage[i] = x
        /\ \A k \in Invitations : k # i =>
               j.invSeen[k] = NoInvitation /\ j.invImage[k] = NoInvitation
    BY EmptyTables DEF Offers
  <1>2. \A k \in AddedInvitations(j) : k = i
    BY <1>1 DEF AddedInvitations
  <1>3. invitation[i] = NoInvitation
    BY DEF FreeInvitations
  <1>4. QED
    BY <1>1, <1>2, <1>3 DEF InvitationsBegin, InvitationsFit

LEMMA NoInvitationBegins ==
    ASSUME NEW j \in Job, j.invSeen = NoInvitations, j.invImage = NoInvitations
    PROVE  InvitationsBegin(j)
  BY EmptyTables DEF InvitationsBegin, InvitationsFit, AddedInvitations

\* The sessions in which an owner may go on.
LEMMA AllowedType ==
    ASSUME IInv, NEW by \in accounts, NEW j \in Allowed(by)
    PROVE  /\ j \in Job /\ MembersBegin(j)
           /\ j.invSeen = NoInvitations /\ j.invImage = NoInvitations
           /\ j.signs = {} /\ j.grants = {}
  <1>1. TypeOK /\ Idle \in Job /\ MembersBegin(Idle)
    BY IdleFields, IdleFits DEF IInv, MembersBegin
  <1>2. CASE j = Idle
    BY <1>1, <1>2, IdleFields
  <1>3. CASE j # Idle
    <2>1. PICK m \in FreeMembers :
              /\ by = Owner /\ RowsOf(by) = {}
              /\ j = WithRole(Idle, m, by, "accountant_owner")
      BY <1>3 DEF Allowed
    <2>2. m \in Members /\ by \in Users /\ "accountant_owner" \in Roles
      BY <2>1, OwnerRole DEF FreeMembers
    <2>3. /\ j \in Job /\ Gives(j, Idle, m, by, "accountant_owner")
          /\ j.invSeen = NoInvitations /\ j.invImage = NoInvitations
          /\ j.signs = {} /\ j.grants = {}
      <3>1. PICK role \in Roles, u \in Users : role = "accountant_owner" /\ u = by
        BY <2>2
      <3>2. /\ WithRole(Idle, m, u, role) \in Job
            /\ Gives(WithRole(Idle, m, u, role), Idle, m, u, role)
            /\ WithRole(Idle, m, u, role).invSeen = Idle.invSeen
            /\ WithRole(Idle, m, u, role).invImage = Idle.invImage
            /\ WithRole(Idle, m, u, role).signs = Idle.signs
            /\ WithRole(Idle, m, u, role).grants = Idle.grants
        BY <1>1, <2>2, WithRoleType, Zenon
      <3>3. j = WithRole(Idle, m, u, role)
        BY <2>1, <3>1
      <3>4. Gives(j, Idle, m, u, role)
        BY <3>2, <3>3
      <3>5. QED
        BY <3>1, <3>2, <3>3, <3>4, IdleFields
    <2>4. m \in RowFor(by, "accountant_owner", Idle)
      BY <2>1, IdleFits DEF RowFor
    <2>5. by \in accounts /\ <<by, "accountant_owner">> \in granted
      BY <2>1 DEF IInv, RowsFit
    <2>6. MembersBegin(j)
      BY <1>1, <2>2, <2>3, <2>4, <2>5, IdleFields, GivenRole
    <2>7. QED
      BY <2>3, <2>6
  <1>4. QED
    BY <1>2, <1>3

LEMMA BothBegin ==
    ASSUME IInv, NEW w \in Threads, NEW j \in Job, Begin(w, j),
           MembersBegin(j), InvitationsBegin(j)
    PROVE  IInv'
  BY BeginStep DEF MembersBegin, InvitationsBegin, Newcomers

-----------------------------------------------------------------------------
(* One lemma per action.                                                   *)

LEMMA InviteStep ==
    ASSUME IInv, NEW w \in Threads, NEW by \in accounts, NEW u \in Users,
           NEW role \in Roles, Invite(w, by, u, role)
    PROVE  IInv'
  <1>1. PICK base \in Allowed(by) :
            \/ \E i \in Invitations :
                  /\ invitation[i].email = u /\ invitation[i].status = "pending"
                  /\ Begin(w, Renewing(base, i, u, role))
            \/ \E i \in FreeInvitations : Begin(w, Inviting(base, i, u, role))
    BY Zenon DEF Invite, Renewing, Renewed, Inviting, Offered, Asking
  <1>2. /\ TypeOK /\ base \in Job /\ MembersBegin(base)
        /\ base.invSeen = NoInvitations /\ base.invImage = NoInvitations
        /\ base.signs = {} /\ base.grants = {}
    BY AllowedType DEF IInv
  <1>3. ASSUME NEW j \in Job, j.memSeen = base.memSeen,
               j.memImage = base.memImage, j.signs = base.signs
        PROVE  MembersBegin(j)
    BY <1>2, <1>3 DEF MembersBegin, MembersFit, AddedMembers
  <1>4. ASSUME NEW i \in Invitations, invitation[i].email = u,
               invitation[i].status = "pending",
               Begin(w, Renewing(base, i, u, role))
        PROVE  IInv'
    <2>1. invitation[i] # NoInvitation
      BY <1>4, NoneIsNoUser
    <2>2. PICK j \in Job : j = Renewing(base, i, u, role)
      BY <1>2, <2>1, RenewingType
    <2>3. PICK x \in InvitationRow : x = Renewed(i, role)
      BY <1>2, <2>1, RenewingType
    <2>4. /\ x.email = u /\ x.role = role /\ x.status = invitation[i].status
          /\ j.memSeen = base.memSeen /\ j.memImage = base.memImage
          /\ j.signs = base.signs /\ j.grants = {<<u, role>>}
      BY <1>2, <1>4, <2>1, <2>2, <2>3, RenewingType
    <2>5. PICK y \in InvitationRow :
              /\ Changes(j, i, y, x)
              /\ y.email = invitation[i].email /\ y.status = invitation[i].status
      BY <1>2, <2>1, <2>2, <2>3, RenewingType
    <2>6. InvitationsBegin(j)
      BY <1>4, <2>1, <2>4, <2>5, ChangedInvitation
    <2>7. QED
      BY <1>3, <1>4, <2>2, <2>4, <2>6, BothBegin
  <1>5. ASSUME NEW i \in FreeInvitations, Begin(w, Inviting(base, i, u, role))
        PROVE  IInv'
    <2>1. i \in Invitations
      BY DEF FreeInvitations
    <2>2. PICK j \in Job : j = Inviting(base, i, u, role)
      BY <1>2, <2>1, InvitingType
    <2>3. PICK x \in InvitationRow : x = Offered(u, role)
      BY <1>2, <2>1, InvitingType
    <2>4. /\ x.email = u /\ x.role = role
          /\ j.memSeen = base.memSeen /\ j.memImage = base.memImage
          /\ j.signs = base.signs /\ j.grants = {<<u, role>>}
      BY <1>2, <2>1, <2>2, <2>3, InvitingType
    <2>5. Offers(j, i, x)
      BY <1>2, <2>1, <2>2, <2>3, InvitingType
    <2>6. InvitationsBegin(j)
      BY <2>1, <2>4, <2>5, OfferedInvitation
    <2>7. QED
      BY <1>3, <1>5, <2>2, <2>4, <2>6, BothBegin
  <1>6. QED
    BY <1>1, <1>4, <1>5

\* An invitation that is pending offers a role that an owner gave.
LEMMA PendingOffers ==
    ASSUME IInv, NEW u \in Users, NEW i \in Invitations, MayAccept(u, i)
    PROVE  /\ invitation[i] # NoInvitation /\ invitation[i].email = u
           /\ invitation[i].role \in Roles
           /\ <<u, invitation[i].role>> \in granted
  <1>1. invitation[i] # NoInvitation /\ invitation[i].email = u
    BY NoneIsNoUser DEF MayAccept
  <1>2. invitation[i] \in InvitationRow
    BY <1>1, Typed DEF IInv, InvitationRows
  <1>3. QED
    BY <1>1, <1>2, RowFields DEF IInv, RowsFit

LEMMA AcceptStep ==
    ASSUME IInv, NEW w \in Threads, NEW u \in Users, NEW i \in Invitations,
           Accept(w, u, i)
    PROVE  IInv'
  <1>1. /\ TypeOK /\ u \in accounts
        /\ invitation[i] # NoInvitation /\ invitation[i].email = u
        /\ invitation[i].role \in Roles /\ <<u, invitation[i].role>> \in granted
    BY PendingOffers DEF Accept, IInv
  <1>2. PICK m \in RowFor(u, invitation[i].role, Idle) : Begin(w, Accepted(i, m, u))
    BY DEF Accept
  <1>3. m \in Members
    BY <1>2 DEF RowFor, RowsOf, FreeMembers, AddedMembers
  <1>4. PICK j \in Job : j = Accepted(i, m, u)
    BY <1>1, <1>3, AcceptedType
  <1>5. PICK x \in InvitationRow : x = AsAccepted(i)
    BY <1>1, <1>3, AcceptedType
  <1>6. PICK role \in Roles : role = invitation[i].role
    BY <1>1
  <1>7. /\ x.email = u /\ x.role = role /\ x.status = "accepted"
        /\ j.signs = {} /\ j.grants = {}
    BY <1>1, <1>3, <1>4, <1>5, <1>6, AcceptedType
  <1>8. Gives(j, Idle, m, u, role) /\ Changes(j, i, invitation[i], x)
    BY <1>1, <1>3, <1>4, <1>5, <1>6, AcceptedType
  <1>9. InvitationsBegin(j)
    <2>1. invitation[i] \in InvitationRow
      BY <1>1, Typed DEF InvitationRows
    <2>2. PICK y \in InvitationRow : y = invitation[i]
      BY <2>1
    <2>3. QED
      BY <1>1, <1>6, <1>7, <1>8, <2>2, ChangedInvitation
  <1>10. m \in RowFor(u, role, Idle)
    BY <1>2, <1>6
  <1>11. MembersBegin(Idle) /\ Idle \in Job /\ Idle.signs = {} /\ Idle.grants = {}
    BY IdleFields, IdleFits DEF MembersBegin
  <1>12. MembersBegin(j)
    BY <1>1, <1>3, <1>6, <1>7, <1>8, <1>10, <1>11, GivenRole
  <1>13. QED
    BY <1>2, <1>4, <1>9, <1>12, BothBegin

\* Who has no account has no membership.
LEMMA NoAccountNoRow ==
    ASSUME IInv, NEW u \in Users, u \notin accounts
    PROVE  RowsOf(u) = {}
  BY NoneIsNoUser DEF IInv, RowsFit, RowsOf

LEMMA AcceptWithAccountStep ==
    ASSUME IInv, NEW w \in Threads, NEW u \in Users, NEW i \in Invitations,
           AcceptWithAccount(w, u, i)
    PROVE  IInv'
  <1>1. /\ TypeOK /\ u \notin accounts
        /\ invitation[i] # NoInvitation /\ invitation[i].email = u
        /\ invitation[i].role \in Roles /\ <<u, invitation[i].role>> \in granted
    BY PendingOffers DEF AcceptWithAccount, IInv
  <1>2. PICK m \in FreeMembers : Begin(w, SigningUp(i, m, u))
    BY DEF AcceptWithAccount, SigningUp
  <1>3. m \in Members
    BY DEF FreeMembers
  <1>4. PICK j \in Job : j = SigningUp(i, m, u)
    BY <1>1, <1>3, SigningUpType
  <1>5. PICK x \in InvitationRow : x = AsAccepted(i)
    BY <1>1, <1>3, AcceptedType
  <1>6. PICK role \in Roles : role = invitation[i].role
    BY <1>1
  <1>7. /\ x.email = u /\ x.role = role /\ x.status = "accepted"
        /\ j.signs = {u} /\ j.grants = {}
    BY <1>1, <1>3, <1>4, <1>5, <1>6, AcceptedType, SigningUpType
  <1>8. Gives(j, Idle, m, u, role) /\ Changes(j, i, invitation[i], x)
    BY <1>1, <1>3, <1>4, <1>5, <1>6, SigningUpType
  <1>9. InvitationsBegin(j)
    <2>1. invitation[i] \in InvitationRow
      BY <1>1, Typed DEF InvitationRows
    <2>2. PICK y \in InvitationRow : y = invitation[i]
      BY <2>1
    <2>3. QED
      BY <1>1, <1>6, <1>7, <1>8, <2>2, ChangedInvitation
  <1>10. m \in RowFor(u, role, Idle)
    BY <1>1, <1>2, NoAccountNoRow, IdleFits DEF RowFor
  <1>11. MembersBegin(Idle) /\ Idle \in Job /\ Idle.signs = {} /\ Idle.grants = {}
    BY IdleFields, IdleFits DEF MembersBegin
  <1>12. MembersBegin(j)
    BY <1>1, <1>3, <1>6, <1>7, <1>8, <1>10, <1>11, GivenRole
  <1>13. QED
    BY <1>2, <1>4, <1>9, <1>12, BothBegin

LEMMA AddMemberStep ==
    ASSUME IInv, NEW w \in Threads, NEW by \in accounts, NEW u \in Users,
           NEW role \in Roles, AddMember(w, by, u, role)
    PROVE  IInv'
  <1>1. TypeOK /\ u \in accounts
    BY DEF AddMember, IInv
  <1>2. PICK base \in Allowed(by), m \in Members :
            m \in RowFor(u, role, base) /\ Begin(w, Adding(base, m, u, role))
    BY DEF AddMember, Adding, RowFor, RowsOf, FreeMembers, AddedMembers
  <1>3. /\ base \in Job /\ MembersBegin(base)
        /\ base.invSeen = NoInvitations /\ base.invImage = NoInvitations
        /\ base.signs = {} /\ base.grants = {}
    BY AllowedType
  <1>4. PICK j \in Job : j = Adding(base, m, u, role)
    BY <1>1, <1>3, AddingType
  <1>5. /\ Gives(j, base, m, u, role)
        /\ j.invSeen = base.invSeen /\ j.invImage = base.invImage
        /\ j.signs = base.signs /\ j.grants = {<<u, role>>}
    BY <1>1, <1>3, <1>4, AddingType
  <1>6. InvitationsBegin(j)
    BY <1>3, <1>5, NoInvitationBegins
  <1>7. MembersBegin(j)
    BY <1>1, <1>2, <1>3, <1>5, GivenRole
  <1>8. QED
    BY <1>2, <1>4, <1>6, <1>7, BothBegin

\* What a commit leaves of the memberships.
LEMMA MembersLeft ==
    ASSUME IInv, NEW old \in Job, MembersFit(old), NEW m \in Members,
           NEW r, r = Merged(member, old.memSeen, old.memImage, NoRow)[m]
    PROVE  /\ r \in MemberRows
           /\ m \in AddedMembers(old) => r = old.memImage[m] /\ r # NoRow
           /\ m \notin AddedMembers(old) /\ member[m] = NoRow => r = NoRow
           /\ member[m] # NoRow => r # NoRow /\ r.user = member[m].user
           /\ r # NoRow => r.user \in accounts \cup old.signs
           /\ r # NoRow => <<r.user, r.role>> \in granted \cup old.grants
  <1>1. /\ member \in [Members -> MemberRows]
        /\ old.memSeen[m] \in MemberRows /\ old.memImage[m] \in MemberRows
        /\ member[m] # NoRow => member[m].user \in accounts
        /\ member[m] # NoRow => <<member[m].user, member[m].role>> \in granted
    BY Typed, JobFields DEF IInv, RowsFit
  <1>2. PICK seen : seen = old.memSeen[m]
    OBVIOUS
  <1>3. PICK new : new = old.memImage[m]
    OBVIOUS
  <1>4. CASE new = NoRow
    <2>1. r = member[m] /\ seen = NoRow /\ m \notin AddedMembers(old)
      BY <1>1, <1>2, <1>3, <1>4 DEF Merged, MembersFit, AddedMembers
    <2>2. QED
      BY <1>1, <2>1
  <1>5. CASE new # NoRow /\ seen = NoRow
    <2>1. r = new /\ m \in AddedMembers(old) /\ member[m] = NoRow
      BY <1>1, <1>2, <1>3, <1>5 DEF Merged, MembersFit, AddedMembers
    <2>2. /\ new.user \in accounts \cup old.signs
          /\ <<new.user, new.role>> \in granted \cup old.grants
      BY <1>3, <1>5 DEF MembersFit
    <2>3. QED
      BY <1>1, <1>3, <1>5, <2>1, <2>2
  <1>6. CASE new # NoRow /\ seen # NoRow
    <2>1. /\ member[m] \in MemberRow /\ new \in MemberRow /\ seen \in MemberRow
          /\ new.user = seen.user /\ member[m].user = seen.user
          /\ m \notin AddedMembers(old)
          /\ <<new.user, new.role>> \in granted \cup old.grants
      BY <1>1, <1>2, <1>3, <1>6 DEF MembersFit, AddedMembers, MemberRows
    <2>2. r = [column \in DOMAIN new |->
                  Written(member[m][column], seen[column], new[column])]
      BY <1>1, <1>2, <1>3, <1>6 DEF Merged
    <2>3. /\ r \in MemberRow /\ r.user = member[m].user
          /\ r.role \in {member[m].role, new.role}
      BY <2>1, <2>2 DEF MemberRow, Written
    <2>4. r # NoRow /\ member[m] # NoRow
      BY <2>1, <2>3, NoneIsNoUser
    <2>5. <<r.user, r.role>> \in granted \cup old.grants
      <3>1. CASE r.role = member[m].role
        BY <1>1, <2>3, <2>4, <3>1
      <3>2. CASE r.role = new.role
        BY <2>1, <2>3, <3>2
      <3>3. QED
        BY <2>3, <3>1, <3>2
    <2>6. QED
      BY <1>1, <2>1, <2>3, <2>4, <2>5 DEF MemberRows
  <1>7. QED
    BY <1>4, <1>5, <1>6

\* What a commit leaves of the invitations.
LEMMA InvitationsLeft ==
    ASSUME IInv, NEW old \in Job, InvitationsFit(old), NEW i \in Invitations,
           NEW r, r = Merged(invitation, old.invSeen, old.invImage, NoInvitation)[i]
    PROVE  /\ r \in InvitationRows
           /\ i \notin AddedInvitations(old) /\ invitation[i] = NoInvitation =>
                  r = NoInvitation
           /\ invitation[i] # NoInvitation =>
                  r # NoInvitation /\ r.email = invitation[i].email
           /\ invitation[i].status = "accepted" => r.status = "accepted"
           /\ r # NoInvitation => <<r.email, r.role>> \in granted \cup old.grants
  <1>1. /\ invitation \in [Invitations -> InvitationRows]
        /\ old.invSeen[i] \in InvitationRows /\ old.invImage[i] \in InvitationRows
        /\ invitation[i] # NoInvitation =>
               <<invitation[i].email, invitation[i].role>> \in granted
    BY Typed, JobFields DEF IInv, RowsFit
  <1>2. PICK seen : seen = old.invSeen[i]
    OBVIOUS
  <1>3. PICK new : new = old.invImage[i]
    OBVIOUS
  <1>4. CASE new = NoInvitation
    <2>1. r = invitation[i]
      BY <1>1, <1>2, <1>3, <1>4 DEF Merged
    <2>2. QED
      BY <1>1, <2>1
  <1>5. CASE new # NoInvitation /\ seen = NoInvitation
    <2>1. r = new /\ i \in AddedInvitations(old) /\ invitation[i] = NoInvitation
      BY <1>1, <1>2, <1>3, <1>5 DEF Merged, InvitationsFit, AddedInvitations
    <2>2. <<new.email, new.role>> \in granted \cup old.grants
      BY <1>3, <1>5 DEF InvitationsFit
    <2>3. invitation[i].status # "accepted"
      BY <2>1, NoneIsNoUser
    <2>4. QED
      BY <1>1, <1>3, <1>5, <2>1, <2>2, <2>3
  <1>6. CASE new # NoInvitation /\ seen # NoInvitation
    <2>1. /\ invitation[i] \in InvitationRow /\ new \in InvitationRow
          /\ seen \in InvitationRow
          /\ new.email = seen.email /\ invitation[i].email = seen.email
          /\ new.status \in {seen.status, "accepted"}
          /\ i \notin AddedInvitations(old)
          /\ <<new.email, new.role>> \in granted \cup old.grants
      BY <1>1, <1>2, <1>3, <1>6 DEF InvitationsFit, AddedInvitations, InvitationRows
    <2>2. r = [column \in DOMAIN new |->
                  Written(invitation[i][column], seen[column], new[column])]
      BY <1>1, <1>2, <1>3, <1>6 DEF Merged
    <2>3. /\ r \in InvitationRow /\ r.email = invitation[i].email
          /\ r.role \in {invitation[i].role, new.role}
          /\ invitation[i].status = "accepted" => r.status = "accepted"
      BY <2>1, <2>2 DEF InvitationRow, Written
    <2>4. r # NoInvitation /\ invitation[i] # NoInvitation
      BY <2>1, <2>3, NoneIsNoUser
    <2>5. <<r.email, r.role>> \in granted \cup old.grants
      <3>1. CASE r.role = invitation[i].role
        BY <1>1, <2>3, <2>4, <3>1
      <3>2. CASE r.role = new.role
        BY <2>1, <2>3, <3>2
      <3>3. QED
        BY <2>3, <3>1, <3>2
    <2>6. QED
      BY <1>1, <2>1, <2>3, <2>4, <2>5 DEF InvitationRows
  <1>7. QED
    BY <1>4, <1>5, <1>6

LEMMA CommitStep ==
    ASSUME IInv, NEW w \in Threads, Commit(w)
    PROVE  IInv'
  <1>1. PICK old \in Job : old = job[w]
    BY Typed DEF IInv
  <1>2. /\ TypeOK /\ MembersFit(old) /\ InvitationsFit(old)
        /\ \A v \in Threads : MembersFit(job[v]) /\ InvitationsFit(job[v])
        /\ old.signs \in SUBSET Users /\ old.grants \in SUBSET (Users \X Roles)
    BY <1>1, JobFields DEF IInv
  <1>3. /\ accounts' = accounts \cup old.signs
        /\ member' = Merged(member, old.memSeen, old.memImage, NoRow)
        /\ invitation' = Merged(invitation, old.invSeen, old.invImage, NoInvitation)
        /\ granted' = granted \cup old.grants /\ job' = [job EXCEPT ![w] = Idle]
    BY <1>1 DEF Commit
  <1>4. /\ job'[w] = Idle /\ job' \in [Threads -> Job]
        /\ \A v \in Threads : v # w => job'[v] = job[v]
    BY <1>2, <1>3, IdleFields DEF TypeOK
  <1>5. ASSUME NEW m \in Members
        PROVE  /\ member'[m] \in MemberRows
               /\ m \in AddedMembers(old) =>
                      member'[m] = old.memImage[m] /\ member'[m] # NoRow
               /\ m \notin AddedMembers(old) /\ member[m] = NoRow =>
                      member'[m] = NoRow
               /\ member[m] # NoRow =>
                      member'[m] # NoRow /\ member'[m].user = member[m].user
               /\ member'[m] # NoRow => member'[m].user \in accounts'
               /\ member'[m] # NoRow => <<member'[m].user, member'[m].role>> \in granted'
    BY <1>2, <1>3, MembersLeft
  <1>6. ASSUME NEW i \in Invitations
        PROVE  /\ invitation'[i] \in InvitationRows
               /\ i \notin AddedInvitations(old) /\ invitation[i] = NoInvitation =>
                      invitation'[i] = NoInvitation
               /\ invitation[i] # NoInvitation =>
                      /\ invitation'[i] # NoInvitation
                      /\ invitation'[i].email = invitation[i].email
               /\ invitation'[i] # NoInvitation =>
                      <<invitation'[i].email, invitation'[i].role>> \in granted'
    BY <1>2, <1>3, InvitationsLeft
  <1>7. TypeOK'
    <2>1. DOMAIN member = Members /\ DOMAIN invitation = Invitations
      BY <1>2 DEF TypeOK
    <2>2. member' \in [Members -> MemberRow \cup {NoRow}]
      BY <1>3, <1>5, <2>1 DEF Merged, MemberRows
    <2>3. invitation' \in [Invitations -> InvitationRow \cup {NoInvitation}]
      BY <1>3, <1>6, <2>1 DEF Merged, InvitationRows
    <2>4. QED
      BY <1>2, <1>3, <1>4, <2>2, <2>3 DEF TypeOK
  <1>8. RowsFit'
    BY <1>3, <1>5, <1>6 DEF IInv, RowsFit
  <1>9. Remembers
    BY <1>3, <1>5, <1>6 DEF Remembers
  <1>10. \A v \in Threads : v # w =>
             /\ AddedMembers(job[v]) \cap AddedMembers(old) = {}
             /\ AddedInvitations(job[v]) \cap AddedInvitations(old) = {}
    BY <1>1 DEF IInv, AddApart
  <1>11. ASSUME NEW v \in Threads PROVE MembersFit(job[v])' /\ InvitationsFit(job[v])'
    <2>1. CASE v = w
      <3>1. MembersFit(Idle)' /\ InvitationsFit(Idle)'
        BY IdleFits, IdleFields, EmptyTables DEF MembersFit, InvitationsFit
      <3>2. QED
        BY <1>4, <2>1, <3>1
        DEF MembersFit, InvitationsFit, AddedMembers, AddedInvitations
    <2>2. CASE v # w
      <3>1. ASSUME NEW m \in AddedMembers(job[v]) PROVE member'[m] = NoRow
        <4>1. m \in Members /\ member[m] = NoRow /\ m \notin AddedMembers(old)
          BY <1>2, <1>10, <2>2, <3>1 DEF MembersFit, AddedMembers
        <4>2. QED
          BY <1>5, <4>1
      <3>2. ASSUME NEW i \in AddedInvitations(job[v]) PROVE invitation'[i] = NoInvitation
        <4>1. /\ i \in Invitations /\ invitation[i] = NoInvitation
              /\ i \notin AddedInvitations(old)
          BY <1>2, <1>10, <2>2, <3>2 DEF InvitationsFit, AddedInvitations
        <4>2. QED
          BY <1>6, <4>1
      <3>3. QED
        BY <1>2, <1>4, <1>9, <2>2, <3>1, <3>2, OtherSessions
    <2>3. QED
      BY <2>1, <2>2
  <1>12. /\ AddedMembers(job[w])' = {} /\ AddedInvitations(job[w])' = {}
         /\ \A t \in Threads : t # w =>
                /\ AddedMembers(job[t])' = AddedMembers(job[t])
                /\ AddedInvitations(job[t])' = AddedInvitations(job[t])
    BY <1>4, IdleFits DEF AddedMembers, AddedInvitations
  <1>13. AddApart'
    BY <1>12 DEF IInv, AddApart
  <1>14. MembershipsAreFew'
    <2>1. ASSUME NEW u \in Users
          PROVE  Cardinality(RowsOf(u)') + Cardinality(Adders(u)')
                     <= Cardinality(Threads)
      <3>1. Cardinality(RowsOf(u)) + Cardinality(Adders(u)) <= Cardinality(Threads)
        BY FewByAdders DEF IInv
      <3>2. /\ Adders(u) \in SUBSET Threads /\ Adders(u)' \in SUBSET Threads
            /\ w \notin Adders(u)'
            /\ \A v \in Threads : v # w => (v \in Adders(u)' <=> v \in Adders(u))
        BY <1>4, <1>12 DEF Adders
      <3>3. IsFiniteSet(Threads)
        BY TablesAssumption
      <3>4. /\ Cardinality(Adders(u)) \in Nat /\ Cardinality(Adders(u)') \in Nat
            /\ w \in Adders(u) => Cardinality(Adders(u)') = Cardinality(Adders(u)) - 1
            /\ Cardinality(Adders(u)') <= Cardinality(Adders(u))
        BY <3>2, <3>3, OneMoves
      <3>5. \A m \in Members : m \in RowsOf(u)' <=>
                m \in RowsOf(u) \/ (m \in AddedMembers(old) /\ old.memImage[m].user = u)
        <4>1. ASSUME NEW m \in Members
              PROVE  member'[m].user = u <=>
                         member[m].user = u \/ (m \in AddedMembers(old)
                                                /\ old.memImage[m].user = u)
          <5>1. CASE m \in AddedMembers(old)
            <6>1. member[m] = NoRow /\ member'[m] = old.memImage[m]
              BY <1>2, <1>5, <5>1 DEF MembersFit
            <6>2. QED
              BY <5>1, <6>1, NoneIsNoUser
          <5>2. CASE m \notin AddedMembers(old)
            BY <1>5, <5>2
          <5>3. QED
            BY <5>1, <5>2
        <4>2. QED
          BY <4>1 DEF RowsOf
      <3>6. CASE \E m \in AddedMembers(old) : old.memImage[m].user = u
        <4>1. PICK m \in AddedMembers(old) : old.memImage[m].user = u
          BY <3>6
        <4>2. w \in Adders(u) /\ m \in Members
          BY <1>1, <4>1 DEF Adders, AddedMembers
        <4>3. m \notin RowsOf(u)
          BY <1>2, <4>1, NoneIsNoUser DEF RowsOf, MembersFit
        <4>4. \A n \in AddedMembers(old) : old.memImage[n].user = u => n = m
          BY <1>2, <4>1 DEF MembersFit
        <4>5. RowsOf(u)' = RowsOf(u) \cup {m}
          BY <3>5, <4>1, <4>2, <4>4 DEF RowsOf
        <4>6. Cardinality(RowsOf(u)') = Cardinality(RowsOf(u)) + 1
          BY <4>3, <4>5, CountsAreFinite, FS_AddElement
        <4>7. QED
          BY <3>1, <3>4, <4>2, <4>6, CountsAreFinite
      <3>7. CASE ~ \E m \in AddedMembers(old) : old.memImage[m].user = u
        <4>1. RowsOf(u)' = RowsOf(u)
          BY <3>5, <3>7 DEF RowsOf
        <4>2. QED
          BY <3>1, <3>4, <4>1, CountsAreFinite
      <3>8. QED
        BY <3>6, <3>7
    <2>2. QED
      BY <2>1 DEF MembershipsAreFew, Adders
  <1>15. QED
    BY <1>7, <1>8, <1>11, <1>13, <1>14 DEF IInv

\* A session that ends with nothing done.
LEMMA AbortStep ==
    ASSUME IInv, NEW w \in Threads, Abort(w)
    PROVE  IInv'
  <1>1. /\ TypeOK /\ job' = [job EXCEPT ![w] = Idle]
        /\ accounts' = accounts /\ member' = member
        /\ invitation' = invitation /\ granted' = granted
        /\ \A v \in Threads : MembersFit(job[v]) /\ InvitationsFit(job[v])
    BY DEF IInv, Abort
  <1>2. /\ job'[w] = Idle /\ job' \in [Threads -> Job]
        /\ \A v \in Threads : v # w => job'[v] = job[v]
    BY <1>1, IdleFields DEF TypeOK
  <1>3. TypeOK' /\ RowsFit'
    BY <1>1, <1>2 DEF IInv, TypeOK, RowsFit
  <1>4. Remembers
    BY <1>1 DEF Remembers
  <1>5. ASSUME NEW v \in Threads PROVE MembersFit(job[v])' /\ InvitationsFit(job[v])'
    <2>1. CASE v = w
      <3>1. MembersFit(Idle)' /\ InvitationsFit(Idle)'
        BY IdleFits, IdleFields, EmptyTables DEF MembersFit, InvitationsFit
      <3>2. QED
        BY <1>2, <2>1, <3>1
        DEF MembersFit, InvitationsFit, AddedMembers, AddedInvitations
    <2>2. CASE v # w
      <3>1. /\ \A m \in AddedMembers(job[v]) : member'[m] = NoRow
            /\ \A i \in AddedInvitations(job[v]) : invitation'[i] = NoInvitation
        BY <1>1 DEF MembersFit, InvitationsFit, AddedMembers, AddedInvitations
      <3>2. QED
        BY <1>1, <1>2, <1>4, <2>2, <3>1, OtherSessions
    <2>3. QED
      BY <2>1, <2>2
  <1>6. /\ AddedMembers(job[w])' = {} /\ AddedInvitations(job[w])' = {}
        /\ \A t \in Threads : t # w =>
               /\ AddedMembers(job[t])' = AddedMembers(job[t])
               /\ AddedInvitations(job[t])' = AddedInvitations(job[t])
    BY <1>2, IdleFits DEF AddedMembers, AddedInvitations
  <1>7. AddApart'
    BY <1>6 DEF IInv, AddApart
  <1>8. MembershipsAreFew'
    <2>1. ASSUME NEW u \in Users
          PROVE  Cardinality(RowsOf(u)') + Cardinality(Adders(u)')
                     <= Cardinality(Threads)
      <3>1. Cardinality(RowsOf(u)) + Cardinality(Adders(u)) <= Cardinality(Threads)
        BY FewByAdders DEF IInv
      <3>2. RowsOf(u)' = RowsOf(u)
        BY <1>1 DEF RowsOf
      <3>3. /\ Adders(u) \in SUBSET Threads /\ Adders(u)' \in SUBSET Threads
            /\ w \notin Adders(u)'
            /\ \A v \in Threads : v # w => (v \in Adders(u)' <=> v \in Adders(u))
        BY <1>2, <1>6 DEF Adders
      <3>4. /\ Cardinality(Adders(u)) \in Nat /\ Cardinality(Adders(u)') \in Nat
            /\ Cardinality(Adders(u)') <= Cardinality(Adders(u))
        BY <3>3, TablesAssumption, OneMoves
      <3>5. QED
        BY <3>1, <3>2, <3>4, CountsAreFinite
    <2>2. QED
      BY <2>1 DEF MembershipsAreFew, Adders
  <1>9. QED
    BY <1>3, <1>5, <1>7, <1>8 DEF IInv

\* Time and other sign-ups disturb no session.
LEMMA RowsStayStep ==
    ASSUME IInv, TypeOK', Remembers, member' = member, granted' = granted,
           job' = job,
           \A i \in Invitations :
               /\ invitation[i] = NoInvitation => invitation'[i] = NoInvitation
               /\ invitation'[i].role = invitation[i].role
    PROVE  IInv'
  <1>1. \A v \in Threads : MembersFit(job[v]) /\ InvitationsFit(job[v])
    BY DEF IInv
  <1>2. RowsFit'
    <2>1. /\ Owner \in accounts' /\ <<Owner, "accountant_owner">> \in granted'
          /\ \A m \in Members : member'[m] # NoRow =>
                 /\ member'[m].user \in accounts'
                 /\ <<member'[m].user, member'[m].role>> \in granted'
      BY DEF IInv, RowsFit, Remembers
    <2>2. ASSUME NEW i \in Invitations, invitation'[i] # NoInvitation
          PROVE  <<invitation'[i].email, invitation'[i].role>> \in granted'
      <3>1. /\ invitation[i] # NoInvitation
            /\ invitation'[i].email = invitation[i].email
            /\ invitation'[i].role = invitation[i].role
        BY <2>2 DEF Remembers
      <3>2. QED
        BY <3>1 DEF IInv, RowsFit
    <2>3. QED
      BY <2>1, <2>2 DEF RowsFit
  <1>3. ASSUME NEW v \in Threads PROVE MembersFit(job[v])' /\ InvitationsFit(job[v])'
    <2>1. /\ \A m \in AddedMembers(job[v]) : member'[m] = NoRow
          /\ \A i \in AddedInvitations(job[v]) : invitation'[i] = NoInvitation
      BY <1>1 DEF MembersFit, InvitationsFit, AddedMembers, AddedInvitations
    <2>2. QED
      BY <1>1, <2>1, OtherSessions
  <1>4. AddApart' /\ MembershipsAreFew'
    BY DEF IInv, AddApart, MembershipsAreFew, AddedMembers, AddedInvitations, RowsOf
  <1>5. QED
    BY <1>2, <1>3, <1>4 DEF IInv

LEMMA ExpireStep ==
    ASSUME IInv, NEW i \in Invitations, Expire(i)
    PROVE  IInv'
  <1>1. PICK row : row = [invitation[i] EXCEPT !.expired = TRUE]
    OBVIOUS
  <1>2. /\ TypeOK /\ invitation' = [invitation EXCEPT ![i] = row]
        /\ invitation[i].status = "pending"
        /\ accounts' = accounts /\ member' = member
        /\ granted' = granted /\ job' = job
    BY <1>1 DEF IInv, Expire
  <1>3. invitation[i] \in InvitationRow
    BY <1>2, Typed, NoneIsNoUser DEF InvitationRows
  <1>4. /\ row \in InvitationRow /\ row.email = invitation[i].email
        /\ row.role = invitation[i].role
    BY <1>1, <1>3 DEF InvitationRow
  <1>5. row # NoInvitation /\ invitation[i] # NoInvitation
    BY <1>3, <1>4, NoneIsNoUser
  <1>6. /\ invitation'[i] = row
        /\ \A k \in Invitations : k # i => invitation'[k] = invitation[k]
    BY <1>2 DEF TypeOK
  <1>7. TypeOK'
    BY <1>2, <1>4 DEF TypeOK
  <1>8. Remembers
    BY <1>2, <1>4, <1>5, <1>6 DEF Remembers
  <1>9. \A k \in Invitations :
            /\ invitation[k] = NoInvitation => invitation'[k] = NoInvitation
            /\ invitation'[k].role = invitation[k].role
    BY <1>4, <1>5, <1>6
  <1>10. QED
    BY <1>2, <1>7, <1>8, <1>9, RowsStayStep

LEMMA RegisterStep ==
    ASSUME IInv, NEW u \in Users, Register(u)
    PROVE  IInv'
  <1>1. TypeOK' /\ Remembers
    BY DEF IInv, Register, TypeOK, Remembers
  <1>2. QED
    BY <1>1, RowsStayStep DEF Register

LEMMA StutterStep ==
    ASSUME IInv, UNCHANGED vars
    PROVE  IInv'
  <1>1. TypeOK' /\ Remembers
    BY DEF IInv, vars, TypeOK, Remembers
  <1>2. QED
    BY <1>1, RowsStayStep DEF vars

LEMMA NextIInv ==
    ASSUME IInv, [Next]_vars
    PROVE  IInv'
  BY InviteStep, AcceptStep, AcceptWithAccountStep, AddMemberStep, CommitStep,
     AbortStep, ExpireStep, RegisterStep, StutterStep
  DEF Next

LEMMA InitIInv ==
    ASSUME Init
    PROVE  IInv
  <1> DEFINE first == [user |-> Owner, role |-> "accountant_owner"]
  <1>1. first \in MemberRow /\ first.user = Owner /\ first.role = "accountant_owner"
    BY OwnerRole DEF MemberRow
  <1> HIDE DEF first
  <1>2. /\ member \in [Members -> MemberRows]
        /\ \A m \in Members : member[m] \in {NoRow, first}
        /\ \A m, n \in Members : member[m] # NoRow /\ member[n] # NoRow => m = n
    <2>1. CASE member = NoMembers
      BY <2>1, EmptyTables
    <2>2. CASE member # NoMembers
      <3>1. PICK m \in Members : member = [NoMembers EXCEPT ![m] = first]
        BY <2>2 DEF Init, first
      <3>2. QED
        BY <1>1, <3>1, EmptyTables DEF MemberRows
    <2>3. QED
      BY <2>1, <2>2
  <1>3. /\ accounts = {Owner} /\ granted = {<<Owner, "accountant_owner">>}
        /\ invitation = NoInvitations
        /\ job \in [Threads -> Job] /\ \A w \in Threads : job[w] = Idle
    BY IdleFields DEF Init
  <1>4. TypeOK
    <2>1. /\ member \in [Members -> MemberRow \cup {NoRow}]
          /\ invitation \in [Invitations -> InvitationRow \cup {NoInvitation}]
      BY <1>2, <1>3, EmptyTables DEF MemberRows, InvitationRows
    <2>2. accounts \subseteq Users /\ granted \subseteq Users \X Roles
      BY <1>3, OwnerRole
    <2>3. QED
      BY <1>3, <2>1, <2>2 DEF TypeOK
  <1>5. RowsFit
    BY <1>1, <1>2, <1>3, EmptyTables DEF RowsFit
  <1>6. \A w \in Threads : /\ AddedMembers(job[w]) = {}
                           /\ AddedInvitations(job[w]) = {}
                           /\ MembersFit(job[w]) /\ InvitationsFit(job[w])
    BY <1>3, IdleFits
  <1>7. AddApart
    BY <1>6 DEF AddApart
  <1>8. MembershipsAreFew
    <2>1. ASSUME NEW u \in Users
          PROVE  Cardinality(RowsOf(u)) + Cardinality(Adders(u)) <= Cardinality(Threads)
      <3>1. Adders(u) = {}
        BY <1>6 DEF Adders
      <3>2. Cardinality(Adders(u)) = 0
        BY <3>1, FS_EmptySet
      <3>3. Cardinality(RowsOf(u)) \in Nat /\ Cardinality(RowsOf(u)) <= 1
        <4>1. \A m, n \in RowsOf(u) : m = n
          BY <1>2, NoneIsNoUser DEF RowsOf
        <4>2. CASE RowsOf(u) = {}
          BY <4>2, FS_EmptySet
        <4>3. CASE RowsOf(u) # {}
          <5>1. PICK m \in RowsOf(u) : TRUE
            BY <4>3
          <5>2. RowsOf(u) = {m}
            BY <4>1, <5>1
          <5>3. Cardinality({m}) = 1
            BY FS_Singleton
          <5>4. QED
            BY <5>2, <5>3
        <4>4. QED
          BY <4>2, <4>3
      <3>4. Cardinality(Threads) \in Nat /\ Cardinality(Threads) # 0
        BY TablesAssumption, FS_CardinalityType, FS_EmptySet
      <3>5. QED
        BY <3>2, <3>3, <3>4
    <2>2. QED
      BY <2>1, FewByAdders
  <1>9. QED
    BY <1>4, <1>5, <1>6, <1>7, <1>8 DEF IInv

-----------------------------------------------------------------------------
(* Theorems.                                                               *)

\* The inductive invariant holds in every state.
THEOREM Invariance == Spec => []IInv
  <1>1. Init => IInv
    BY InitIInv
  <1>2. IInv /\ [Next]_vars => IInv'
    BY NextIInv
  <1>3. QED
    BY <1>1, <1>2, PTL DEF Spec

\* The columns hold what the code may write into them, whatever the users, the
\* roles, the rows and the threads.
THEOREM TypeCorrect == Spec => []TypeOK
  <1>1. IInv => TypeOK
    BY DEF IInv
  <1>2. QED
    BY <1>1, Invariance, PTL

\* Every member has a role that an owner gave to that user, whoever invites,
\* renews, accepts or is added at the same time.
THEOREM RolesGranted == Spec => []RolesAreGranted
  <1>1. IInv => RolesAreGranted
    BY DEF IInv, RowsFit, RolesAreGranted
  <1>2. QED
    BY <1>1, Invariance, PTL

\* A user has no more memberships than there are sessions at a time.
THEOREM MembershipsFew == Spec => []MembershipsAreFew
  <1>1. IInv => MembershipsAreFew
    BY DEF IInv
  <1>2. QED
    BY <1>1, Invariance, PTL

\* What a step does to an invitation that is accepted.
LEMMA AcceptedStays ==
    ASSUME IInv, [Next]_vars, NEW i \in Invitations,
           invitation[i].status = "accepted"
    PROVE  invitation'[i].status = "accepted"
  <1>1. CASE invitation' = invitation
    BY <1>1
  <1>2. CASE \E w \in Threads : Commit(w)
    <2>1. PICK w \in Threads : Commit(w)
      BY <1>2
    <2>2. PICK old \in Job : old = job[w]
      BY Typed DEF IInv
    <2>3. /\ InvitationsFit(old)
          /\ invitation' =
                 Merged(invitation, old.invSeen, old.invImage, NoInvitation)
      BY <2>1, <2>2 DEF IInv, Commit
    <2>4. PICK r : r = invitation'[i]
      OBVIOUS
    <2>5. r = Merged(invitation, old.invSeen, old.invImage, NoInvitation)[i]
      BY <2>3, <2>4
    <2>6. r.status = "accepted"
      BY <2>3, <2>5, InvitationsLeft
    <2>7. QED
      BY <2>4, <2>6
  <1>3. CASE \E k \in Invitations : Expire(k)
    BY <1>3 DEF Expire, IInv, TypeOK
  <1>4. \A w, request : Begin(w, request) => invitation' = invitation
    BY DEF Begin
  <1>5. ASSUME NEW w \in Threads, NEW by, NEW u, NEW role, NEW k,
               \/ Invite(w, by, u, role) \/ AddMember(w, by, u, role)
               \/ Accept(w, u, k) \/ AcceptWithAccount(w, u, k)
        PROVE  invitation' = invitation
    BY <1>4, <1>5, Zenon DEF Invite, AddMember, Accept, AcceptWithAccount
  <1>6. \A u, w : Register(u) \/ Abort(w) => invitation' = invitation
    BY DEF Register, Abort
  <1>7. UNCHANGED vars => invitation' = invitation
    BY DEF vars
  <1>8. QED
    BY <1>1, <1>2, <1>3, <1>5, <1>6, <1>7, Zenon DEF Next

\* An invitation that was accepted stays accepted, though an owner may renew it
\* at the same time.
THEOREM AcceptanceKept == Spec => AcceptanceSticks
  <1>1. IInv /\ [Next]_vars =>
            [\A i \in Invitations : invitation[i].status = "accepted" =>
                 invitation'[i].status = "accepted"]_vars
    BY AcceptedStays
  <1>2. QED
    BY <1>1, Invariance, PTL DEF Spec, AcceptanceSticks
=============================================================================
