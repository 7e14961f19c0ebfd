------------------------------ MODULE Membership ------------------------------
(***************************************************************************)
(* Who belongs to a family: invitations (routers/invitations.py), sign-in  *)
(* through an identity provider (services/auth_provisioning.py), and the   *)
(* provisioning of users and groups by SCIM (routers/scim.py), which all   *)
(* write the same users and memberships.                                   *)
(*                                                                         *)
(* A request of a person reads in one action and commits in another; one   *)
(* of the provisioner is one action.  A commit writes the columns it has   *)
(* changed, and fails if a constraint breaks or if a row it updates is     *)
(* gone.  Passwords, names and the students of viewers are left out.       *)
(***************************************************************************)
EXTENDS Naturals

CONSTANTS
    Families,
    Default,         \* the family of AUTH_DEFAULT_FAMILY_NAME
    Roles,
    Emails,
    Externals,       \* ids of an identity provider
    ScimIds,         \* externalIds of the provisioner
    Clients,
    MaxUsers,        \* bound: ids of users
    MaxInvitations,  \* bound: ids of invitations
    MaxAsks          \* bound: requests begun

Owner  == "parent"
Viewer == "student_viewer"   \* DEFAULT_SCIM_ROLE

\* What the constants must satisfy; assumed by the modules that give them values.
MembershipAssumption ==
    /\ Default \in Families /\ {Owner, Viewer} \subseteq Roles
    /\ {MaxUsers, MaxInvitations, MaxAsks} \subseteq Nat

VARIABLES
    user,        \* id -> [email, active, provider, external, scim]
    member,      \* <<user, family>> -> [role, owner, via], via the invitation or 0
    invitation,  \* id -> [family, email, role, expired, state]
    groups,      \* the roles that have a SCIM group, in the default family
    client,      \* the requests in flight
    renamed,     \* history: users whose email changed under a request that had read it
    asks         \* the number of requests begun

membershipVars == <<user, member, invitation, groups, client, renamed, asks>>

NoId == "none"
Idle == [doing |-> "nothing", user |-> 0]

Put(table, key, row) == [k \in DOMAIN table \cup {key} |-> IF k = key THEN row ELSE table[k]]

Fresh(id, table, bound) == id \in 1..bound /\ id \notin DOMAIN table /\ \A i \in 1..id - 1 : i \in DOMAIN table

NewUser(email, active, provider, external, scim) ==
    [email |-> email, active |-> active, provider |-> provider, external |-> external, scim |-> scim]

\* register: the first person owns a family, the default one or another.
MembershipInit ==
    \E e \in Emails, f \in Families :
        /\ user = [u \in {1} |-> NewUser(e, TRUE, "local", NoId, NoId)]
        /\ member = [k \in {<<1, f>>} |-> [role |-> Owner, owner |-> TRUE, via |-> 0]]
        /\ invitation = << >> /\ groups = {}
        /\ client = [t \in Clients |-> Idle]
        /\ renamed = {} /\ asks = 0

\* Mutant: emails are compared as they were typed.
UniqueIds(table) ==
    \A u, v \in DOMAIN table : u # v =>
        /\ table[u].external # NoId => <<table[u].provider, table[u].external>> # <<table[v].provider, table[v].external>>
        /\ table[u].scim # NoId => table[u].scim # table[v].scim

\* The unique columns of users.
Unique(table) ==
    \A u, v \in DOMAIN table : u # v =>
        /\ table[u].email # table[v].email
        /\ table[u].external # NoId => <<table[u].provider, table[u].external>> # <<table[v].provider, table[v].external>>
        /\ table[u].scim # NoId => table[u].scim # table[v].scim

With(email) == {u \in DOMAIN user : user[u].email = email}
The(some)   == IF some = {} THEN 0 ELSE CHOOSE u \in some : TRUE

FamiliesOf(u) == {f \in Families : <<u, f>> \in DOMAIN member}

\* The users whose email a step changes under some requests that have read it, in
\* the user's row or in an invitation.
Renamed(table, among) ==
    renamed \cup {u \in DOMAIN user :
        /\ user[u].email # table[u].email
        /\ \E t \in among :
              \/ client[t].user = u
              \/ client[t].doing \in {"accepting", "signing in"} /\ client[t].email = user[u].email}

Count == asks < MaxAsks /\ asks' = asks + 1

Ask(t, request) == Count /\ client[t] = Idle /\ client' = [client EXCEPT ![t] = request]
Answer(t)       == client' = [client EXCEPT ![t] = Idle]

-----------------------------------------------------------------------------
(* Invitations. *)

Pending(i) == invitation[i].state = "open"

\* Capability.manage_invitations.
ManagesInvitations(u, family) == <<u, family>> \in DOMAIN member /\ member[<<u, family>>].role = Owner

BeginInvite(t, family, email, role) ==
    /\ \E u \in DOMAIN user : user[u].active /\ ManagesInvitations(u, family)
    /\ \A i \in DOMAIN invitation : ~(Pending(i) /\ invitation[i].family = family /\ invitation[i].email = email)
    /\ Ask(t, [doing |-> "inviting", user |-> 0,
               row |-> [family |-> family, email |-> email, role |-> role, expired |-> FALSE, state |-> "open"]])
    /\ UNCHANGED <<user, member, invitation, groups, renamed>>

CommitInvite(t, i) ==
    /\ client[t].doing = "inviting" /\ Fresh(i, invitation, MaxInvitations)
    /\ invitation' = Put(invitation, i, client[t].row) /\ Answer(t)
    /\ UNCHANGED <<user, member, groups, renamed, asks>>

Expire(i) ==
    /\ i \in DOMAIN invitation /\ Pending(i) /\ ~invitation[i].expired
    /\ invitation' = [invitation EXCEPT ![i].expired = TRUE]
    /\ UNCHANGED <<user, member, groups, client, renamed, asks>>

MayAccept(i) == Pending(i) /\ ~invitation[i].expired

\* The invited person has an account, or makes one.
BeginAccept(t, i) ==
    LET u == The(With(invitation[i].email)) IN
    /\ i \in DOMAIN invitation /\ MayAccept(i)
    /\ u # 0 => user[u].active /\ <<u, invitation[i].family>> \notin DOMAIN member
    /\ Ask(t, [doing |-> "accepting", user |-> u, of |-> i, email |-> invitation[i].email])
    /\ UNCHANGED <<user, member, invitation, groups, renamed>>

BeginRevoke(t, i) ==
    /\ i \in DOMAIN invitation /\ Pending(i)
    /\ Ask(t, [doing |-> "revoking", user |-> 0, of |-> i])
    /\ UNCHANGED <<user, member, invitation, groups, renamed>>

\* The row is deleted, whatever has become of it.
CommitRevoke(t) ==
    /\ client[t].doing = "revoking" /\ Answer(t)
    /\ invitation' = [invitation EXCEPT ![client[t].of].state = "revoked"]
    /\ UNCHANGED <<user, member, groups, renamed, asks>>

\* Mutant: the invitation is not written with the membership, or not looked at.
JoinUnseen(u, family, role, i) ==
    /\ <<u, family>> \notin DOMAIN member
    /\ member' = Put(member, <<u, family>>, [role |-> role, owner |-> FALSE, via |-> i])
    /\ invitation' = IF i # 0 /\ Pending(i) THEN [invitation EXCEPT ![i].state = "accepted"] ELSE invitation

\* A membership, and the invitation marked as accepted: its row must be there.
Join(u, family, role, i) ==
    /\ <<u, family>> \notin DOMAIN member
    /\ i # 0 => invitation[i].state # "revoked"
    /\ member' = Put(member, <<u, family>>, [role |-> role, owner |-> FALSE, via |-> i])
    /\ invitation' = IF i # 0 THEN [invitation EXCEPT ![i].state = "accepted"] ELSE invitation

CommitAccept(t, u) ==
    LET asked == client[t]
        i     == asked.of
    IN  /\ asked.doing = "accepting" /\ Answer(t)
        /\ IF asked.user = 0 THEN Fresh(u, user, MaxUsers) ELSE u = asked.user
        /\ user' = IF asked.user = 0 THEN Put(user, u, NewUser(asked.email, TRUE, "local", NoId, NoId)) ELSE user
        /\ Unique(user')
        /\ Join(u, invitation[i].family, invitation[i].role, i)
        /\ UNCHANGED <<groups, renamed, asks>>

\* A constraint, a row that is gone, or a client that has left.
Abort(t) ==
    /\ client[t] # Idle /\ Answer(t)
    /\ UNCHANGED <<user, member, invitation, groups, renamed, asks>>

-----------------------------------------------------------------------------
(* Sign-in through the identity provider: provision_external_identity. *)

\* The account linked to the identity, or the one with its email; 0 for a new one.
BeginSignIn(t, external, email) ==
    LET linked == {u \in DOMAIN user : user[u].provider = "sso" /\ user[u].external = external}
        named  == With(email)
        u      == The(IF linked = {} THEN named ELSE linked)
        open   == {i \in DOMAIN invitation : invitation[i].email = email /\ MayAccept(i)}
        newest == The({i \in open : \A j \in open : j <= i})
    IN  /\ linked = {} \/ named \subseteq linked
        /\ u # 0 => user[u].active
        /\ Ask(t, [doing |-> "signing in", user |-> u, external |-> external, email |-> email,
                   row |-> IF u = 0 THEN NewUser(email, TRUE, "sso", external, NoId) ELSE user[u],
                   joins |-> u = 0 \/ FamiliesOf(u) = {}, of |-> newest])
        /\ UNCHANGED <<user, member, invitation, groups, renamed>>

Changed(old, read, new) == IF new = read THEN old ELSE new

\* role is that of the identity's app roles, for who has no invitation.
CommitSignIn(t, u, role) ==
    LET asked == client[t]
        row   == IF asked.user = 0 THEN asked.row ELSE user[u]
        i     == asked.of
    IN  /\ asked.doing = "signing in" /\ Answer(t)
        /\ IF asked.user = 0 THEN Fresh(u, user, MaxUsers) ELSE u = asked.user
        /\ user' = Put(user, u, [row EXCEPT
                        !.email    = Changed(@, asked.row.email, asked.email),
                        !.provider = Changed(@, asked.row.provider, "sso"),
                        !.external = Changed(@, asked.row.external, asked.external)])
        /\ Unique(user') /\ renamed' = Renamed(user', Clients \ {t})
        /\ IF ~asked.joins THEN UNCHANGED <<member, invitation>>
           ELSE IF i = 0 THEN Join(u, Default, role, 0)
           ELSE Join(u, invitation[i].family, invitation[i].role, i)
        /\ UNCHANGED <<groups, asks>>

-----------------------------------------------------------------------------
(* SCIM. *)

Managed(u) == user[u].scim # NoId \/ user[u].provider = "scim"

\* _group_member_rows, and what a group shows of them.
Members(role) ==
    {u \in DOMAIN user : Managed(u) /\ <<u, Default>> \in DOMAIN member /\ member[<<u, Default>>].role = role}

\* Memberships of the default family after some users got a role; an owner's is refused.
MaySet(some, role) ==
    \A u \in some : <<u, Default>> \in DOMAIN member =>
        ~member[<<u, Default>>].owner \/ member[<<u, Default>>].role = role

Set(some, role) ==
    [k \in DOMAIN member \cup (some \X {Default}) |->
        IF k \notin some \X {Default} THEN member[k]
        ELSE IF k \in DOMAIN member THEN [member[k] EXCEPT !.role = role]
        ELSE [role |-> role, owner |-> FALSE, via |-> 0]]

\* _ensure_default_membership without a role.
Ensured(u) ==
    IF <<u, Default>> \in DOMAIN member THEN member ELSE Set({u}, Viewer)

CreateUser(u, email, scim, active) ==
    /\ Count /\ Fresh(u, user, MaxUsers)
    /\ user' = Put(user, u, NewUser(email, active, "scim", NoId, scim)) /\ Unique(user')
    /\ member' = Ensured(u)
    /\ UNCHANGED <<invitation, groups, client, renamed>>

\* _apply_user_update_fields.
Patch(u, email, scim, active) ==
    /\ user' = [user EXCEPT ![u].email = email, ![u].scim = scim, ![u].active = active] /\ Unique(user')
    /\ renamed' = Renamed(user', Clients)

PatchUser(u, email, scim, active) ==
    /\ Count /\ u \in DOMAIN user /\ Patch(u, email, scim, active)
    /\ member' = IF scim # NoId \/ user[u].provider = "scim" THEN Ensured(u) ELSE member
    /\ UNCHANGED <<invitation, groups, client>>

DeleteUser(u) ==
    /\ Count /\ u \in DOMAIN user /\ user' = [user EXCEPT ![u].active = FALSE]
    /\ UNCHANGED <<member, invitation, groups, client, renamed>>

\* The name of a group is a role.
CreateGroup(role, some) ==
    /\ Count /\ role \notin groups /\ MaySet(some, role)
    /\ groups' = groups \cup {role} /\ member' = Set(some, role)
    /\ UNCHANGED <<user, invitation, client, renamed>>

RenameGroup(role, new) ==
    /\ Count /\ role \in groups /\ new \notin groups /\ MaySet(Members(role), new)
    /\ groups' = (groups \ {role}) \cup {new} /\ member' = Set(Members(role), new)
    /\ UNCHANGED <<user, invitation, client, renamed>>

\* Who has the role of a group, managed or not, in the default family.
Having(some, role) == {u \in some : <<u, Default>> \in DOMAIN member /\ member[<<u, Default>>].role = role}

AddMembers(role, some) ==
    /\ Count /\ role \in groups /\ MaySet(some, role) /\ member' = Set(some, role)
    /\ UNCHANGED <<user, invitation, groups, client, renamed>>

\* Those removed become viewers, and stay members of the viewers' group.
RemoveMembers(role, some) ==
    /\ Count /\ role \in groups
    /\ \A u \in Having(some, role) : ~member[<<u, Default>>].owner
    /\ member' = Set(Having(some, role), Viewer)
    /\ UNCHANGED <<user, invitation, groups, client, renamed>>

ReplaceMembers(role, some) ==
    LET added == some \ Members(role)
        gone  == Members(role) \ some
    IN  /\ Count /\ role \in groups /\ MaySet(added, role)
        /\ \A u \in gone : ~member[<<u, Default>>].owner
        /\ member' = [k \in DOMAIN member \cup (added \X {Default}) |->
                         IF k \in gone \X {Default} THEN [member[k] EXCEPT !.role = Viewer]
                         ELSE Set(added, role)[k]]
        /\ UNCHANGED <<user, invitation, groups, client, renamed>>

DeleteGroup(role) ==
    /\ Count /\ role \in groups /\ \A u \in Members(role) : ~member[<<u, Default>>].owner
    /\ groups' = groups \ {role} /\ member' = Set(Members(role), Viewer)
    /\ UNCHANGED <<user, invitation, client, renamed>>

-----------------------------------------------------------------------------

MembershipNext ==
    \/ \E t \in Clients, f \in Families, e \in Emails, r \in Roles : BeginInvite(t, f, e, r)
    \/ \E t \in Clients, i \in 1..MaxInvitations :
        CommitInvite(t, i) \/ BeginAccept(t, i) \/ BeginRevoke(t, i)
    \/ \E t \in Clients, u \in 1..MaxUsers : CommitAccept(t, u)
    \/ \E t \in Clients, u \in 1..MaxUsers, r \in Roles : CommitSignIn(t, u, r)
    \/ \E t \in Clients : CommitRevoke(t) \/ Abort(t)
    \/ \E t \in Clients, x \in Externals, e \in Emails : BeginSignIn(t, x, e)
    \/ \E i \in 1..MaxInvitations : Expire(i)
    \/ \E u \in 1..MaxUsers, e \in Emails, s \in ScimIds \cup {NoId}, active \in BOOLEAN :
        CreateUser(u, e, s, active) \/ PatchUser(u, e, s, active)
    \/ \E u \in 1..MaxUsers : DeleteUser(u)
    \/ \E r, new \in Roles : RenameGroup(r, new)
    \/ \E r \in Roles : DeleteGroup(r)
    \/ \E r \in Roles, some \in SUBSET DOMAIN user :
        CreateGroup(r, some) \/ AddMembers(r, some) \/ RemoveMembers(r, some) \/ ReplaceMembers(r, some)

MembershipSpec == MembershipInit /\ [][MembershipNext]_membershipVars

-----------------------------------------------------------------------------

\* An invitation lets one person in, through a form or by signing in, unless that
\* person's email changed under a request that had read it.
InvitationUsedOnce ==
    \A k, l \in DOMAIN member :
        member[k].via # 0 /\ member[k].via = member[l].via /\ {k[1], l[1]} \cap renamed = {} => k = l

\* Who is managed by the provisioner is a member of the default family, however
\* they came to be managed.
ManagedHasMembership == \A u \in DOMAIN user : Managed(u) => <<u, Default>> \in DOMAIN member

\* Whoever writes them, the memberships are those that somebody is entitled to.
MembershipIsSound == InvitationUsedOnce /\ ManagedHasMembership

DoorIsKept ==
    /\ \A k \in DOMAIN member' \ DOMAIN member :
           member'[k].via # 0 => invitation[member'[k].via].state # "revoked"
    /\ \A k \in DOMAIN member : member[k].owner => k \in DOMAIN member' /\ member'[k] = member[k]

\* Nobody joins by an invitation that has been revoked, not even with a request
\* that had read it before; and no request takes a family from its owner.
KeepsTheDoor == [][DoorIsKept]_membershipVars
===============================================================================
