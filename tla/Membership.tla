----------------------------- MODULE Membership -----------------------------
(***************************************************************************)
(* Who belongs to an organisation, and in which role:                      *)
(* backend/app/invitation_service.py, access.py and their handlers in      *)
(* main.py.                                                                *)
(*                                                                         *)
(* Neither the memberships of a user nor the pending invitations of an     *)
(* address are unique in the database: sessions look for a row, and add    *)
(* one if they see none.  An address stands for its user.                  *)
(***************************************************************************)
EXTENDS UnitOfWork, Naturals, FiniteSets

CONSTANTS
    Users,         \* users, who may or may not have an account
    Owner,         \* organization.owner_user_id
    Roles,         \* roles that may be given
    Members,       \* ids that rows of organization_members may get
    Invitations,   \* ids that rows of organization_invitations may get
    Threads        \* threads of the pool that runs the handlers

VARIABLES
    accounts,      \* users with an account (unique by email)
    member,        \* memberships, by id
    invitation,    \* invitations, by id
    granted,       \* roles that an owner gave, and to whom
    job            \* per thread, the session of the request it is serving

vars == <<accounts, member, invitation, granted, job>>

-----------------------------------------------------------------------------
(* Rows and sessions.                                                      *)

OwnerRoles == {"accountant_owner"}
MemberRow == [user: Users, role: Roles]

\* expired: expires_at has passed; the status "expired" is written only by
\* sessions that raise an exception and are rolled back.
InvitationRow == [email: Users, role: Roles, status: {"pending", "accepted"},
                  expired: BOOLEAN]
NoRow == [user |-> "none", role |-> "none"]
NoInvitation == [email |-> "none", role |-> "none", status |-> "none",
                 expired |-> FALSE]

ASSUME PeopleAssumption ==
    /\ IsFiniteSet(Users) /\ Owner \in Users /\ "none" \notin Users
    /\ OwnerRoles \subseteq Roles
    /\ Roles \subseteq {"accountant_owner", "client_operator", "client_viewer"}
ASSUME TablesAssumption ==
    IsFiniteSet(Members) /\ IsFiniteSet(Threads) /\ Threads # {}

\* invSeen, memSeen and invImage, memImage: the rows that a session loaded or
\* adds, and its copies; signs: the account it adds; grants: what an owner
\* gives by it.
NoMembers == [m \in Members |-> NoRow]
NoInvitations == [i \in Invitations |-> NoInvitation]
Idle == [busy |-> FALSE, memSeen |-> NoMembers, memImage |-> NoMembers,
         invSeen |-> NoInvitations, invImage |-> NoInvitations,
         signs |-> {}, grants |-> {}]
Job == [busy: BOOLEAN,
        memSeen: [Members -> MemberRow \cup {NoRow}],
        memImage: [Members -> MemberRow \cup {NoRow}],
        invSeen: [Invitations -> InvitationRow \cup {NoInvitation}],
        invImage: [Invitations -> InvitationRow \cup {NoInvitation}],
        signs: SUBSET Users, grants: SUBSET (Users \X Roles)]

AddedMembers(j) == {m \in Members : j.memSeen[m] # j.memImage[m]
                                    /\ j.memSeen[m] = NoRow}
AddedInvitations(j) == {i \in Invitations : j.invSeen[i] # j.invImage[i]
                                            /\ j.invSeen[i] = NoInvitation}
RowsOf(u) == {m \in Members : member[m].user = u}
FreeMembers == {m \in Members : member[m] = NoRow
                                /\ \A w \in Threads : m \notin AddedMembers(job[w])}
FreeInvitations ==
    {i \in Invitations : invitation[i] = NoInvitation
                         /\ \A w \in Threads : i \notin AddedInvitations(job[w])}

Begin(w, request) ==
    /\ job[w] = Idle
    /\ job' = [job EXCEPT ![w] = request]
    /\ UNCHANGED <<accounts, member, invitation, granted>>

\* An organisation has the membership of its owner from create_organization;
\* an older one may have none.
Init ==
    /\ accounts = {Owner}
    /\ member \in {NoMembers}
          \cup {[NoMembers EXCEPT ![m] =
                    [user |-> Owner, role |-> "accountant_owner"]] : m \in Members}
    /\ invitation = NoInvitations
    /\ granted = {<<Owner, "accountant_owner">>}
    /\ job = [w \in Threads |-> Idle]

-----------------------------------------------------------------------------
(* Access.                                                                 *)

\* The session j gives user u the role, in the row m.
WithRole(j, m, u, role) ==
    [j EXCEPT !.busy = TRUE, !.memSeen[m] = member[m],
              !.memImage[m] = [user |-> u, role |-> role]]

\* get_accessible_organization(require_owner): the sessions in which by may go
\* on.  Any of its rows decides, and the owner without one gets one.
Allowed(by) ==
    IF \E m \in RowsOf(by) : member[m].role \in OwnerRoles
    THEN {Idle}
    ELSE IF by = Owner /\ RowsOf(by) = {}
    THEN {WithRole(Idle, m, by, "accountant_owner") : m \in FreeMembers}
    ELSE {}

\* A defect: the row of a user is looked for by user and role.
BadRowFor(u, role, j) ==
    LET rows == {m \in RowsOf(u) : member[m].role = role} IN
    IF rows # {} THEN rows ELSE FreeMembers \ AddedMembers(j)

\* The row of a user that a session changes: any that it sees, its own
\* included, or a new one.
RowFor(u, role, j) ==
    LET rows == RowsOf(u) \cup {m \in AddedMembers(j) : j.memImage[m].user = u}
    IN IF rows # {} THEN rows ELSE FreeMembers \ AddedMembers(j)

-----------------------------------------------------------------------------
(* Invitations.                                                            *)

\* The copy of an invitation that is about to be renewed.  expires_at gets a
\* time it never had, so that the commit writes it whatever was loaded; a copy
\* that counts as expired makes the new value differ from it always.
Outdated(i) == [invitation[i] EXCEPT !.expired = TRUE]

\* create_invitation: a pending invitation of the address, expired or not, is
\* renewed under the role that is asked for now.
Invite(w, by, u, role) ==
    \E j \in Allowed(by) :
        LET pending == {i \in Invitations : /\ invitation[i].email = u
                                            /\ invitation[i].status = "pending"}
            asked == [j EXCEPT !.busy = TRUE, !.grants = {<<u, role>>}] IN
        \/ \E i \in pending :
              Begin(w, [asked EXCEPT
                  !.invSeen[i] = Outdated(i),
                  !.invImage[i] = [invitation[i] EXCEPT !.role = role,
                                                        !.expired = FALSE]])
        \/ /\ pending = {}
           /\ \E i \in FreeInvitations :
                 Begin(w, [asked EXCEPT
                     !.invImage[i] = [email |-> u, role |-> role,
                                      status |-> "pending", expired |-> FALSE]])

\* A defect: whoever holds the link may accept.
BadMayAccept(u, i) ==
    invitation[i].status = "pending" /\ ~invitation[i].expired

\* accept_invitation: pending, in time, and addressed to the user.
MayAccept(u, i) ==
    /\ invitation[i].status = "pending" /\ ~invitation[i].expired
    /\ invitation[i].email = u

\* What a session that accepts an invitation does.
Accepted(i, m, u) ==
    [WithRole(Idle, m, u, invitation[i].role) EXCEPT
        !.invSeen[i] = invitation[i],
        !.invImage[i] = [invitation[i] EXCEPT !.status = "accepted"]]

\* accept_organization_invitation, by a user with an account.
Accept(w, u, i) ==
    /\ u \in accounts
    /\ MayAccept(u, i)
    /\ \E m \in RowFor(u, invitation[i].role, Idle) : Begin(w, Accepted(i, m, u))

\* accept_invitation_with_account: the address has no account yet.
AcceptWithAccount(w, u, i) ==
    /\ u \notin accounts /\ invitation[i].email = u
    /\ MayAccept(u, i)
    /\ \E m \in FreeMembers :
          Begin(w, [Accepted(i, m, u) EXCEPT !.signs = {u}])

\* Seven days pass.
Expire(i) ==
    /\ invitation[i].status = "pending" /\ ~invitation[i].expired
    /\ invitation' = [invitation EXCEPT ![i].expired = TRUE]
    /\ UNCHANGED <<accounts, member, granted, job>>

\* add_organization_member: a user with an account.
AddMember(w, by, u, role) ==
    /\ u \in accounts
    /\ \E j \in Allowed(by) : \E m \in RowFor(u, role, j) :
          Begin(w, [WithRole(j, m, u, role) EXCEPT !.grants = {<<u, role>>}])

\* register.
Register(u) ==
    /\ u \notin accounts
    /\ accounts' = accounts \cup {u}
    /\ UNCHANGED <<member, invitation, granted, job>>

-----------------------------------------------------------------------------

\* What the commit of a session leaves in the rows of a table: those it did
\* not load stay, those it adds are there now.
Merged(rows, seen, new, none) ==
    [r \in DOMAIN rows |->
        CASE new[r] = none -> rows[r]
          [] seen[r] = none /\ new[r] # none -> new[r]
          [] OTHER -> [column \in DOMAIN new[r] |->
                Written(rows[r][column], seen[r][column], new[r][column])]]

\* The commit; the second account of an address fails (users.email is unique).
Commit(w) ==
    LET j == job[w] IN
    /\ j.busy /\ j.signs \cap accounts = {}
    /\ accounts' = accounts \cup j.signs
    /\ member' = Merged(member, j.memSeen, j.memImage, NoRow)
    /\ invitation' = Merged(invitation, j.invSeen, j.invImage, NoInvitation)
    /\ granted' = granted \cup j.grants
    /\ job' = [job EXCEPT ![w] = Idle]

\* An exception, a restart: the session is rolled back.
Abort(w) ==
    /\ job[w].busy
    /\ job' = [job EXCEPT ![w] = Idle]
    /\ UNCHANGED <<accounts, member, invitation, granted>>

Next ==
    \/ \E i \in Invitations : Expire(i)
    \/ \E u \in Users : Register(u)
    \/ \E w \in Threads :
          \/ \E by \in accounts, u \in Users, role \in Roles :
                Invite(w, by, u, role) \/ AddMember(w, by, u, role)
          \/ \E u \in Users, i \in Invitations :
                Accept(w, u, i) \/ AcceptWithAccount(w, u, i)
          \/ Commit(w) \/ Abort(w)

Spec == Init /\ [][Next]_vars

-----------------------------------------------------------------------------
(* Properties.                                                             *)

\* The columns hold what the code may write into them.
TypeOK ==
    /\ accounts \subseteq Users
    /\ member \in [Members -> MemberRow \cup {NoRow}]
    /\ invitation \in [Invitations -> InvitationRow \cup {NoInvitation}]
    /\ granted \subseteq Users \X Roles
    /\ job \in [Threads -> Job]

\* The role of every member is one that an owner gave to that user, though an
\* invitation may be renewed under another role while it is being accepted
\* (create_invitation, accept_invitation).
RolesAreGranted ==
    \A m \in Members : member[m] # NoRow =>
        <<member[m].user, member[m].role>> \in granted

\* An invitation is accepted once and for all: an owner who renews it at the
\* same time writes its role and its time, not its status (create_invitation).
AcceptanceSticks ==
    [][\A i \in Invitations :
          invitation[i].status = "accepted" => invitation'[i].status = "accepted"]_vars

\* A user has at most as many memberships as there are sessions at a time:
\* each adds one only if it sees none (accept_invitation,
\* add_organization_member, get_accessible_organization).
MembershipsAreFew ==
    \A u \in Users :
        Cardinality(RowsOf(u))
            + Cardinality({w \in Threads : \E m \in AddedMembers(job[w]) :
                                               job[w].memImage[m].user = u})
            <= Cardinality(Threads)

-----------------------------------------------------------------------------
(* The inductive invariant of the proofs.                                  *)

\* The rows of the tables: each membership is that of an account, in a role
\* that an owner gave, and each invitation offers such a role.
RowsFit ==
    /\ Owner \in accounts /\ <<Owner, "accountant_owner">> \in granted
    /\ \A m \in Members : member[m] # NoRow =>
           /\ member[m].user \in accounts
           /\ <<member[m].user, member[m].role>> \in granted
    /\ \A i \in Invitations : invitation[i] # NoInvitation =>
           <<invitation[i].email, invitation[i].role>> \in granted

\* The memberships of a session: one that it loaded is still there, of the same
\* user; one that it adds is not there yet; it adds one of a user; and it
\* writes what an owner gave or gives by it.
MembersFit(j) ==
    /\ \A m \in Members :
           /\ j.memSeen[m] # NoRow =>
                  /\ j.memImage[m] # NoRow /\ member[m] # NoRow
                  /\ j.memImage[m].user = j.memSeen[m].user
                  /\ member[m].user = j.memSeen[m].user
           /\ m \in AddedMembers(j) => member[m] = NoRow
           /\ j.memImage[m] # NoRow =>
                  /\ j.memImage[m].user \in accounts \cup j.signs
                  /\ <<j.memImage[m].user, j.memImage[m].role>>
                         \in granted \cup j.grants
    /\ \A m, n \in AddedMembers(j) :
           j.memImage[m].user = j.memImage[n].user => m = n

\* The invitations of a session, which never takes an acceptance back.
InvitationsFit(j) ==
    \A i \in Invitations :
        /\ j.invSeen[i] # NoInvitation =>
               /\ j.invImage[i] # NoInvitation /\ invitation[i] # NoInvitation
               /\ j.invImage[i].email = j.invSeen[i].email
               /\ invitation[i].email = j.invSeen[i].email
               /\ j.invImage[i].status \in {j.invSeen[i].status, "accepted"}
        /\ i \in AddedInvitations(j) => invitation[i] = NoInvitation
        /\ j.invImage[i] # NoInvitation =>
               <<j.invImage[i].email, j.invImage[i].role>>
                   \in granted \cup j.grants

\* No two sessions add a row under one id.
AddApart ==
    \A v, w \in Threads : v # w =>
        /\ AddedMembers(job[v]) \cap AddedMembers(job[w]) = {}
        /\ AddedInvitations(job[v]) \cap AddedInvitations(job[w]) = {}

IInv ==
    /\ TypeOK /\ RowsFit /\ AddApart /\ MembershipsAreFew
    /\ \A w \in Threads : MembersFit(job[w]) /\ InvitationsFit(job[w])
=============================================================================
