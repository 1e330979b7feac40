--------------------------- MODULE Administration ----------------------------
(***************************************************************************)
(* Accounts, organizations, gminas and invites: the routes under           *)
(* api/admin and the invite page, while several requests are served at     *)
(* once.  A handler reads what it checks (Begin), the two that place a     *)
(* user in an organization read the organization again in their            *)
(* transaction (Recheck), and the write lands later (Write): any other     *)
(* request may commit in between.  A key is an e-mail address, so there is *)
(* at most one account per key.                                            *)
(***************************************************************************)
EXTENDS Integers

CONSTANTS
    Users,          \* e-mail addresses
    Gminas, Orgs, Invites,
    Requests,       \* slots for requests served at the same time
    Changes,        \* bodies of PATCH /api/admin/users/[id] that are sent
    Null,           \* no gmina, no organization
    Keep,           \* a field the body of a request leaves out
    MaxRequests     \* bound: requests in a behaviour

VARIABLES
    user,           \* User rows
    notice,         \* pendingScopeChangeNotice: the assignment it names
    organization,   \* Organization rows: the gmina
    gmina,          \* Gmina rows
    invite,         \* InviteToken rows
    request,        \* request[q]: what it asks for and what it has read
    begun,          \* bounded: requests so far
    outdated,       \* history: u's row was written from data that no longer held
    raced,          \* history: a removal of an administrator overlapped another
    accounts        \* history: accounts made from an invite, saturating

rows == <<user, notice, organization, gmina, invite, outdated, raced, accounts>>
vars == <<rows, request, begun>>

-----------------------------------------------------------------------------
Roles == {"ADMIN", "COORDINATOR", "VOLUNTEER"}
Assignment == [gmina : Gminas \cup {Null}, org : Orgs \cup {Null}]
User == [exists : BOOLEAN, active : BOOLEAN, role : Roles,
         gmina : Gminas \cup {Null}, org : Orgs \cup {Null}]
Change == [active : BOOLEAN \cup {Keep}, role : Roles \cup {Keep},
           gmina : Gminas \cup {Null, Keep}, org : Orgs \cup {Null, Keep}]
Invite == [made : BOOLEAN, used : BOOLEAN, lapsed : BOOLEAN, user : Users, role : Roles,
           gmina : Gminas \cup {Null}, org : Orgs \cup {Null},
           creator : Users, byGlobal : BOOLEAN]
Ops == {"idle", "create", "patch", "delete", "setActive", "createOrg", "moveOrg", "deleteOrg",
        "createGmina", "deleteGmina", "invite", "revoke", "reactivate", "accept"}
Request == [op : Ops, checked : BOOLEAN, target : Users, seen : User, change : Change,
            admins : SUBSET Users, byGlobal : BOOLEAN, actor : Users,
            org : Orgs, gmina : Gminas, saw : Gminas \cup {Null, "NEW", "GONE"}, invite : Invites]

ASSUME KeysExist == Users # {} /\ Gminas # {} /\ Orgs # {} /\ Invites # {}
ASSUME ChangesAreChanges == Changes \subseteq Change
ASSUME NullIsNoKey == Null \notin Gminas \cup Orgs \cup {Keep}
ASSUME KeepIsNoValue == Keep \notin Gminas \cup Orgs /\ Keep \notin BOOLEAN /\ Keep \notin Roles
ASSUME KeysAreNoMarks == {"NEW", "GONE"} \cap (Gminas \cup Orgs \cup {Null}) = {}
ASSUME RequestsAreNat == MaxRequests \in Nat

NoUser == [exists |-> FALSE, active |-> FALSE, role |-> "VOLUNTEER", gmina |-> Null, org |-> Null]
NoNotice == [gmina |-> "NEW", org |-> "NEW"]
NoChange == [active |-> Keep, role |-> Keep, gmina |-> Keep, org |-> Keep]
NoInvite == [made |-> FALSE, used |-> FALSE, lapsed |-> FALSE, user |-> CHOOSE u \in Users : TRUE,
             role |-> "VOLUNTEER", gmina |-> Null, org |-> Null,
             creator |-> CHOOSE u \in Users : TRUE, byGlobal |-> FALSE]
Idle == [op |-> "idle", checked |-> FALSE, target |-> CHOOSE u \in Users : TRUE, seen |-> NoUser,
         change |-> NoChange, admins |-> {}, byGlobal |-> FALSE,
         actor |-> CHOOSE u \in Users : TRUE, org |-> CHOOSE o \in Orgs : TRUE,
         gmina |-> CHOOSE g \in Gminas : TRUE, saw |-> Null, invite |-> CHOOSE i \in Invites : TRUE]

TypeOK ==
    /\ user \in [Users -> User]
    /\ notice \in [Users -> Assignment \cup {NoNotice}]
    /\ organization \in [Orgs -> Gminas \cup {"NEW", "GONE"}]
    /\ gmina \in [Gminas -> {"NEW", "LIVE", "GONE"}]
    /\ invite \in [Invites -> Invite]
    /\ request \in [Requests -> Request]
    /\ begun \in 0 .. MaxRequests
    /\ outdated \in [Users -> BOOLEAN]
    /\ raced \in BOOLEAN
    /\ accounts \in [Invites -> 0 .. 2]

-----------------------------------------------------------------------------
(* authz.ts, gmina.ts, organization.ts. *)

IsGlobal(row) == row.role = "ADMIN" /\ row.gmina = Null
IsScoped(row) == row.role = "ADMIN" /\ row.gmina # Null

\* A session is refused once its account is inactive or gone.
SignedIn(u, roles) == user[u].exists /\ user[u].active /\ user[u].role \in roles

\* canManageUser, between two accounts.
CanManage(a, t) ==
    /\ a # t
    /\ \/ IsGlobal(user[a])
       \/ IsScoped(user[a]) /\ user[t].gmina = user[a].gmina
       \/ /\ user[a].role # "ADMIN"
          /\ user[t].role = "VOLUNTEER"
          /\ user[t].org # Null /\ user[t].org = user[a].org

IsActiveAdmin(row) == row.exists /\ row.role = "ADMIN" /\ row.active
ActiveAdmins == {u \in Users : IsActiveAdmin(user[u])}

\* isLastActiveAdmin: the count is read, the caller acts later.
IsLastActiveAdmin(t) == ActiveAdmins = {t}

RequiresGmina(role) == role # "ADMIN"
RequiresOrganization(role) == role # "ADMIN"

\* The organization is there, in the gmina the user ends up in.
Matches(place) == place.org # Null => organization[place.org] = place.gmina

-----------------------------------------------------------------------------
(* Requests. *)

Free(q) == request[q] = Idle /\ begun < MaxRequests

Begin(q, req) ==
    /\ begun' = begun + 1
    /\ request' = [request EXCEPT ![q] = req]
    /\ UNCHANGED rows

Serving(q, op) == request[q].op = op
Done(q) == request' = [request EXCEPT ![q] = Idle] /\ UNCHANGED begun

\* A refused guard, a constraint, a lost connection: nothing is written.
Abort(q) ==
    /\ request[q] # Idle
    /\ Done(q)
    /\ UNCHANGED rows

\* A removal that no longer sees the administrators it counted.
Races(req, row) ==
    /\ req.target \in ActiveAdmins
    /\ ~IsActiveAdmin(row)
    /\ ActiveAdmins # req.admins

Store(t, row) == user' = [user EXCEPT ![t] = row]

\* Foreign keys.
Refers(row) ==
    /\ row.gmina # Null => gmina[row.gmina] = "LIVE"
    /\ row.org # Null => organization[row.org] \in Gminas

-----------------------------------------------------------------------------
(* PATCH /api/admin/users/[id]. *)

Given(field, old) == IF field = Keep THEN old ELSE field
Patched(row, change) ==
    [row EXCEPT !.active = Given(change.active, @), !.role = Given(change.role, @),
                !.gmina = Given(change.gmina, @), !.org = Given(change.org, @)]
Place(row) == [gmina |-> row.gmina, org |-> row.org]

\* Mutant: only isActive counts as losing an administrator.
LosesAdminByDeactivation(row, next) == IsActiveAdmin(row) /\ ~next.active

\* wouldLoseActiveAdminStatus
LosesAdmin(row, next) == IsActiveAdmin(row) /\ ~IsActiveAdmin(next)

\* Mutant: a scoped administrator may clear a user's gmina.
PatchWithinScopeOrNull(a, t, change) ==
    /\ change.role = "ADMIN" => user[t].role = "ADMIN" \/ IsGlobal(user[a])
    /\ IsScoped(user[a]) => change.gmina \in {Keep, user[a].gmina, Null}

\* Only a global administrator promotes, and nobody leaves a scoped one's gmina.
PatchWithinScope(a, t, change) ==
    /\ change.role = "ADMIN" => user[t].role = "ADMIN" \/ IsGlobal(user[a])
    /\ IsScoped(user[a]) => change.gmina \in {Keep, user[a].gmina}

\* What the user ends up with is checked, whichever fields the body has.
PatchAccepts(t, change) ==
    LET next == Patched(user[t], change)
    IN  /\ LosesAdmin(user[t], next) => ~IsLastActiveAdmin(t)
        /\ RequiresGmina(next.role) => next.gmina # Null
        /\ Matches(Place(next))

BeginPatch(q) == \E a, t \in Users, change \in Changes :
    /\ SignedIn(a, {"ADMIN"})
    /\ user[t].exists
    /\ a = t \/ CanManage(a, t)
    /\ ~(a = t /\ change.active = FALSE)
    /\ PatchWithinScope(a, t, change)
    /\ PatchAccepts(t, change)
    /\ Begin(q, [Idle EXCEPT !.op = "patch", !.target = t, !.seen = user[t], !.change = change,
                             !.admins = ActiveAdmins, !.byGlobal = IsGlobal(user[a])])

\* Mutant: the transaction trusts the organization that was read before.
RecheckNothing(q) ==
    /\ request[q].op \in {"patch", "create"} /\ ~request[q].checked
    /\ LET next == Place(Patched(request[q].seen, request[q].change))
       IN  request' = [request EXCEPT ![q].checked = TRUE,
                           ![q].saw = IF next.org = Null THEN Null ELSE organization[next.org]]
    /\ UNCHANGED <<rows, begun>>

\* The transaction's second look at the organization, here and in POST.
Recheck(q) ==
    /\ request[q].op \in {"patch", "create"} /\ ~request[q].checked
    /\ LET next == Place(Patched(request[q].seen, request[q].change))
       IN  /\ Matches(next)
           /\ request' = [request EXCEPT ![q].checked = TRUE,
                           ![q].saw = IF next.org = Null THEN Null ELSE organization[next.org]]
    /\ UNCHANGED <<rows, begun>>

\* The organization moved, or is gone, since it was looked at.
Moved(req, place) == place.org # Null /\ organization[place.org] # req.saw

\* Mutant: the notice is about the gmina alone.
NoticeOnPatchGminaOnly(req, next) ==
    IF next.gmina = req.seen.gmina THEN notice ELSE [notice EXCEPT ![req.target] = next]

\* pendingScopeChangeNotice, when the assignment differs from the one read.
NoticeOnPatch(req, next) ==
    IF next = Place(req.seen) THEN notice ELSE [notice EXCEPT ![req.target] = next]

WritePatch(q) ==
    /\ Serving(q, "patch") /\ request[q].checked
    /\ LET req == request[q]
           t == req.target
           next == Place(Patched(req.seen, req.change))
           row == Patched(user[t], req.change)
       IN  /\ user[t].exists
           /\ Refers(row)
           /\ Store(t, row)
           /\ notice' = NoticeOnPatch(req, next)
           /\ outdated' = [outdated EXCEPT ![t] = user[t] # req.seen \/ Moved(req, next)]
           /\ raced' = (raced \/ Races(req, row))
    /\ Done(q)
    /\ UNCHANGED <<organization, gmina, invite, accounts>>

-----------------------------------------------------------------------------
(* The other routes of an account. *)

\* POST /api/admin/users: the account starts inactive.
BeginCreate(q) == \E a, t \in Users, role \in Roles :
    \E place \in Assignment :
        /\ SignedIn(a, {"ADMIN"})
        /\ role = "ADMIN" => IsGlobal(user[a])
        /\ IsScoped(user[a]) => place.gmina = user[a].gmina
        /\ RequiresGmina(role) => place.gmina # Null
        /\ RequiresOrganization(role) => place.org # Null
        /\ Matches(place)
        /\ ~user[t].exists
        /\ Begin(q, [Idle EXCEPT !.op = "create", !.target = t, !.byGlobal = IsGlobal(user[a]),
                        !.change = [active |-> FALSE, role |-> role,
                                    gmina |-> place.gmina, org |-> place.org]])

WriteCreate(q) ==
    /\ Serving(q, "create") /\ request[q].checked
    /\ LET req == request[q]
           t == req.target
           row == [Patched(NoUser, req.change) EXCEPT !.exists = TRUE]
       IN  /\ ~user[t].exists
           /\ Refers(row)
           /\ Store(t, row)
           /\ outdated' = [outdated EXCEPT ![t] = Moved(req, Place(row))]
    /\ Done(q)
    /\ UNCHANGED <<notice, organization, gmina, invite, raced, accounts>>

\* DELETE /api/admin/users/[id].
BeginDelete(q) == \E a, t \in Users :
    /\ SignedIn(a, {"ADMIN"})
    /\ user[t].exists
    /\ CanManage(a, t)
    /\ ~(IsActiveAdmin(user[t]) /\ IsLastActiveAdmin(t))
    /\ Begin(q, [Idle EXCEPT !.op = "delete", !.target = t, !.admins = ActiveAdmins])

\* An account that sent invites stays: createdById restricts.
WriteDelete(q) ==
    /\ Serving(q, "delete")
    /\ LET t == request[q].target
       IN  /\ user[t].exists
           /\ \A i \in Invites : invite[i].made => invite[i].creator # t
           /\ Store(t, NoUser)
           /\ notice' = [notice EXCEPT ![t] = NoNotice]
           /\ outdated' = [outdated EXCEPT ![t] = FALSE]
           /\ raced' = (raced \/ Races(request[q], NoUser))
    /\ Done(q)
    /\ UNCHANGED <<organization, gmina, invite, accounts>>

\* POST /api/admin/users/[id]/activate and /deactivate.
BeginSetActive(q) == \E a, t \in Users, value \in BOOLEAN :
    /\ SignedIn(a, {"ADMIN", "COORDINATOR"})
    /\ user[t].exists
    /\ CanManage(a, t)
    /\ user[t].active # value
    /\ ~value => ~IsLastActiveAdmin(t)
    /\ Begin(q, [Idle EXCEPT !.op = "setActive", !.target = t, !.admins = ActiveAdmins,
                             !.change = [NoChange EXCEPT !.active = value]])

WriteSetActive(q) ==
    /\ Serving(q, "setActive")
    /\ LET req == request[q]
           row == [user[req.target] EXCEPT !.active = req.change.active]
       IN  /\ user[req.target].exists
           /\ Store(req.target, row)
           /\ raced' = (raced \/ Races(req, row))
    /\ Done(q)
    /\ UNCHANGED <<notice, organization, gmina, invite, outdated, accounts>>

\* DELETE /api/user/scope-change-notice.
Dismiss(u) ==
    /\ notice[u] # NoNotice
    /\ notice' = [notice EXCEPT ![u] = NoNotice]
    /\ UNCHANGED <<user, organization, gmina, invite, outdated, raced, accounts, request, begun>>

-----------------------------------------------------------------------------
(* Organizations and gminas. *)

\* POST /api/admin/organizations.
BeginCreateOrg(q) == \E a \in Users, o \in Orgs, g \in Gminas :
    /\ SignedIn(a, {"ADMIN"})
    /\ IsGlobal(user[a]) \/ user[a].gmina = g
    /\ organization[o] = "NEW"
    /\ gmina[g] = "LIVE"
    /\ Begin(q, [Idle EXCEPT !.op = "createOrg", !.org = o, !.gmina = g])

WriteCreateOrg(q) ==
    /\ Serving(q, "createOrg")
    /\ organization[request[q].org] = "NEW"
    /\ gmina[request[q].gmina] = "LIVE"
    /\ organization' = [organization EXCEPT ![request[q].org] = request[q].gmina]
    /\ Done(q)
    /\ UNCHANGED <<user, notice, gmina, invite, outdated, raced, accounts>>

\* PATCH /api/admin/organizations/[id] with another gmina: a scoped
\* administrator may only name his own, where the organization already is.
BeginMoveOrg(q) == \E a \in Users, o \in Orgs, g \in Gminas :
    /\ SignedIn(a, {"ADMIN"})
    /\ IsGlobal(user[a])
    /\ organization[o] \in Gminas \ {g}
    /\ gmina[g] = "LIVE"
    /\ Begin(q, [Idle EXCEPT !.op = "moveOrg", !.org = o, !.gmina = g])

\* The members move with it, in the same transaction, each with a notice.
WriteMoveOrg(q) ==
    /\ Serving(q, "moveOrg")
    /\ LET o == request[q].org
           g == request[q].gmina
           Member(u) == user[u].exists /\ user[u].org = o
       IN  /\ organization[o] \in Gminas
           /\ gmina[g] = "LIVE"
           /\ organization' = [organization EXCEPT ![o] = g]
           /\ user' = [u \in Users |-> IF Member(u) THEN [user[u] EXCEPT !.gmina = g] ELSE user[u]]
           /\ notice' = [u \in Users |->
                  IF Member(u) THEN [gmina |-> g, org |-> o] ELSE notice[u]]
           /\ outdated' = [u \in Users |-> outdated[u] /\ ~Member(u)]
    /\ Done(q)
    /\ UNCHANGED <<gmina, invite, raced, accounts>>

\* DELETE /api/admin/organizations/[id]: every reference restricts.
BeginDeleteOrg(q) == \E a \in Users, o \in Orgs :
    /\ SignedIn(a, {"ADMIN"})
    /\ organization[o] \in Gminas
    /\ IsGlobal(user[a]) \/ user[a].gmina = organization[o]
    /\ Begin(q, [Idle EXCEPT !.op = "deleteOrg", !.org = o])

WriteDeleteOrg(q) ==
    /\ Serving(q, "deleteOrg")
    /\ LET o == request[q].org
       IN  /\ organization[o] \in Gminas
           /\ \A u \in Users : user[u].org # o
           /\ \A i \in Invites : invite[i].org # o
           /\ organization' = [organization EXCEPT ![o] = "GONE"]
    /\ Done(q)
    /\ UNCHANGED <<user, notice, gmina, invite, outdated, raced, accounts>>

\* POST /api/admin/gminas, and a gmina named in the body of another request.
BeginCreateGmina(q) == \E a \in Users, g \in Gminas :
    /\ SignedIn(a, {"ADMIN"})
    /\ IsGlobal(user[a])
    /\ gmina[g] = "NEW"
    /\ Begin(q, [Idle EXCEPT !.op = "createGmina", !.gmina = g])

WriteCreateGmina(q) ==
    /\ Serving(q, "createGmina")
    /\ gmina[request[q].gmina] = "NEW"
    /\ gmina' = [gmina EXCEPT ![request[q].gmina] = "LIVE"]
    /\ Done(q)
    /\ UNCHANGED <<user, notice, organization, invite, outdated, raced, accounts>>

\* DELETE /api/admin/gminas/[id].
BeginDeleteGmina(q) == \E a \in Users, g \in Gminas :
    /\ SignedIn(a, {"ADMIN"})
    /\ IsGlobal(user[a])
    /\ gmina[g] = "LIVE"
    /\ Begin(q, [Idle EXCEPT !.op = "deleteGmina", !.gmina = g])

WriteDeleteGmina(q) ==
    /\ Serving(q, "deleteGmina")
    /\ LET g == request[q].gmina
       IN  /\ gmina[g] = "LIVE"
           /\ \A u \in Users : user[u].gmina # g
           /\ \A o \in Orgs : organization[o] # g
           /\ \A i \in Invites : invite[i].gmina # g
           /\ gmina' = [gmina EXCEPT ![g] = "GONE"]
    /\ Done(q)
    /\ UNCHANGED <<user, notice, organization, invite, outdated, raced, accounts>>

-----------------------------------------------------------------------------
(* Invites. *)

\* Where the invite leads: a coordinator's own organization; for the others
\* the gmina named, and an organization in it when the role needs one.
InvitePlace(a, role, place) ==
    IF user[a].role = "COORDINATOR"
    THEN place.org = user[a].org /\ place.org # Null
    ELSE /\ IsScoped(user[a]) => place.gmina = user[a].gmina
         /\ RequiresGmina(role) => place.gmina # Null
         /\ place.org # Null <=> RequiresOrganization(role)
         /\ place.gmina # Null => gmina[place.gmina] = "LIVE"

\* POST /api/admin/invites.
BeginInvite(q) == \E a, t \in Users, i \in Invites, role \in Roles :
    \E place \in Assignment :
        /\ SignedIn(a, {"ADMIN", "COORDINATOR"})
        /\ role = "ADMIN" => IsGlobal(user[a])
        /\ role = "COORDINATOR" => user[a].role = "ADMIN"
        /\ InvitePlace(a, role, place)
        /\ Matches(place)
        /\ ~user[t].exists
        /\ ~invite[i].made
        /\ Begin(q, [Idle EXCEPT !.op = "invite", !.invite = i, !.target = t, !.actor = a,
                        !.byGlobal = IsGlobal(user[a]),
                        !.change = [active |-> FALSE, role |-> role,
                                    gmina |-> place.gmina, org |-> place.org]])

WriteInvite(q) ==
    /\ Serving(q, "invite")
    /\ LET req == request[q]
           row == [made |-> TRUE, used |-> FALSE, lapsed |-> FALSE, user |-> req.target,
                   role |-> req.change.role, gmina |-> req.change.gmina, org |-> req.change.org,
                   creator |-> req.actor, byGlobal |-> req.byGlobal]
       IN  /\ ~invite[req.invite].made
           /\ Refers(row)
           /\ user[req.actor].exists
           /\ invite' = [invite EXCEPT ![req.invite] = row]
    /\ Done(q)
    /\ UNCHANGED <<user, notice, organization, gmina, outdated, raced, accounts>>

\* Who may revoke an invite or send it again.
ManagesInvite(a, i) ==
    /\ SignedIn(a, {"ADMIN", "COORDINATOR"})
    /\ \/ IsGlobal(user[a])
       \/ IsScoped(user[a]) /\ invite[i].gmina = user[a].gmina
       \/ user[a].role = "COORDINATOR" /\ invite[i].creator = a

\* POST /api/admin/invites/[id]/revoke.
BeginRevoke(q) == \E a \in Users, i \in Invites :
    /\ ManagesInvite(a, i)
    /\ invite[i].made /\ ~invite[i].used /\ ~invite[i].lapsed
    /\ Begin(q, [Idle EXCEPT !.op = "revoke", !.invite = i])

WriteRevoke(q) ==
    /\ Serving(q, "revoke")
    /\ invite' = [invite EXCEPT ![request[q].invite].lapsed = TRUE]
    /\ Done(q)
    /\ UNCHANGED <<user, notice, organization, gmina, outdated, raced, accounts>>

\* expiresAt passes.
Expire(i) ==
    /\ invite[i].made /\ ~invite[i].used /\ ~invite[i].lapsed
    /\ invite' = [invite EXCEPT ![i].lapsed = TRUE]
    /\ UNCHANGED <<user, notice, organization, gmina, outdated, raced, accounts, request, begun>>

\* POST /api/admin/invites/[id]/reactivate: the row gets a new token.
BeginReactivate(q) == \E a \in Users, i \in Invites :
    /\ ManagesInvite(a, i)
    /\ invite[i].made /\ ~invite[i].used /\ invite[i].lapsed
    /\ ~user[invite[i].user].exists
    /\ Begin(q, [Idle EXCEPT !.op = "reactivate", !.invite = i])

WriteReactivate(q) ==
    /\ Serving(q, "reactivate")
    /\ invite' = [invite EXCEPT ![request[q].invite].lapsed = FALSE]
    /\ Done(q)
    /\ UNCHANGED <<user, notice, organization, gmina, outdated, raced, accounts>>

\* acceptInvite, up to the transaction.
BeginAccept(q) == \E i \in Invites :
    /\ invite[i].made /\ ~invite[i].used /\ ~invite[i].lapsed
    /\ ~user[invite[i].user].exists
    /\ Begin(q, [Idle EXCEPT !.op = "accept", !.invite = i, !.byGlobal = invite[i].byGlobal])

Accounted(i) == [accounts EXCEPT ![i] = IF @ < 2 THEN @ + 1 ELSE @]

\* Mutant: the transaction marks the invite used without asking if it was.
WriteAcceptAnyway(q) ==
    /\ Serving(q, "accept")
    /\ LET i == request[q].invite
           row == [exists |-> TRUE, active |-> FALSE, role |-> invite[i].role,
                   gmina |-> invite[i].gmina, org |-> invite[i].org]
       IN  /\ ~user[invite[i].user].exists
           /\ Store(invite[i].user, row)
           /\ invite' = [invite EXCEPT ![i].used = TRUE]
           /\ outdated' = [outdated EXCEPT ![invite[i].user] = ~Matches(Place(row))]
           /\ accounts' = Accounted(i)
    /\ Done(q)
    /\ UNCHANGED <<notice, organization, gmina, raced>>

\* The transaction asks again only whether the invite is used, and copies the
\* assignment the invite was issued with.
WriteAccept(q) ==
    /\ Serving(q, "accept")
    /\ LET i == request[q].invite
           row == [exists |-> TRUE, active |-> FALSE, role |-> invite[i].role,
                   gmina |-> invite[i].gmina, org |-> invite[i].org]
       IN  /\ ~invite[i].used
           /\ ~user[invite[i].user].exists
           /\ Store(invite[i].user, row)
           /\ invite' = [invite EXCEPT ![i].used = TRUE]
           /\ outdated' = [outdated EXCEPT ![invite[i].user] = ~Matches(Place(row))]
           /\ accounts' = Accounted(i)
    /\ Done(q)
    /\ UNCHANGED <<notice, organization, gmina, raced>>

-----------------------------------------------------------------------------
\* A seeded global administrator, whoever he created next, and the invites
\* that one has sent to his own organization.
Init ==
    /\ gmina \in [Gminas -> {"NEW", "LIVE"}]
    /\ organization \in [Orgs -> {g \in Gminas : gmina[g] = "LIVE"} \cup {"NEW"}]
    /\ \E first, second \in Users, row \in User :
          /\ first # second
          /\ row.exists /\ row.active
          /\ Refers(row) /\ Matches(Place(row))
          /\ RequiresGmina(row.role) => row.gmina # Null
          /\ user = [u \in Users |->
                 IF u = first THEN [NoUser EXCEPT !.exists = TRUE, !.active = TRUE, !.role = "ADMIN"]
                 ELSE IF u = second THEN row ELSE NoUser]
          /\ invite \in [Invites -> {NoInvite} \cup
                 [made : {TRUE}, used : {FALSE}, lapsed : {FALSE},
                  user : Users \ {first, second}, role : {"VOLUNTEER"}, gmina : {row.gmina},
                  org : {row.org} \ {Null}, creator : {second}, byGlobal : {IsGlobal(row)}]]
    /\ notice = [u \in Users |-> NoNotice]
    /\ request = [q \in Requests |-> Idle]
    /\ begun = 0
    /\ outdated = [u \in Users |-> FALSE]
    /\ raced = FALSE
    /\ accounts = [i \in Invites |-> 0]

Start(q) ==
    /\ Free(q)
    /\ \/ BeginPatch(q) \/ BeginCreate(q) \/ BeginDelete(q) \/ BeginSetActive(q)
       \/ BeginCreateOrg(q) \/ BeginMoveOrg(q) \/ BeginDeleteOrg(q)
       \/ BeginCreateGmina(q) \/ BeginDeleteGmina(q)
       \/ BeginInvite(q) \/ BeginRevoke(q) \/ BeginReactivate(q) \/ BeginAccept(q)

Write(q) ==
    \/ WritePatch(q) \/ WriteCreate(q) \/ WriteDelete(q) \/ WriteSetActive(q)
    \/ WriteCreateOrg(q) \/ WriteMoveOrg(q) \/ WriteDeleteOrg(q)
    \/ WriteCreateGmina(q) \/ WriteDeleteGmina(q)
    \/ WriteInvite(q) \/ WriteRevoke(q) \/ WriteReactivate(q) \/ WriteAccept(q)

Next ==
    \/ \E q \in Requests : Start(q) \/ Recheck(q) \/ Write(q) \/ Abort(q)
    \/ \E u \in Users : Dismiss(u)
    \/ \E i \in Invites : Expire(i)

Spec == Init /\ [][Next]_vars

-----------------------------------------------------------------------------
(* Properties. *)

\* The system keeps an active administrator, however requests overlap, unless
\* two removals of administrators did: the race isLastActiveAdmin accepts.
AdminRemains == raced \/ ActiveAdmins # {}

\* A member is in his organization's gmina, whatever moves the organization
\* or him, except an account last written from data that had changed since it
\* was read: between Recheck and Write, or since its invite was issued.
MembersFollow == \A u \in Users : user[u].exists /\ ~outdated[u] => Matches(Place(user[u]))

\* Everyone but an administrator belongs to a gmina, except after two edits
\* of one account overlapped: each checks what it ends up with alone.
NonAdminsHaveGmina ==
    \A u \in Users :
        user[u].exists /\ RequiresGmina(user[u].role) /\ ~outdated[u] => user[u].gmina # Null

\* Whoever has an account is where his role and his organization require it.
AssignmentsHold == MembersFollow /\ NonAdminsHaveGmina

\* One invite makes one account, whatever becomes of that account and however
\* often the link is used.
AcceptedOnce == \A i \in Invites : accounts[i] =< 1

\* An account becomes a global administrator only by a request of one (or an
\* invite one has sent), whatever a scoped administrator's request read.
GlobalAdminsComeFromGlobalAdmins ==
    [][\A u \in Users :
          user'[u].exists /\ IsGlobal(user'[u]) /\ ~(user[u].exists /\ IsGlobal(user[u]))
              => \/ outdated'[u]
                 \/ \E q \in Requests : request[q].byGlobal /\ request'[q] = Idle]_vars

\* Whoever is moved has a notice pending that names where he is now.
MovesAreAnnounced ==
    [][\A u \in Users :
          user[u].exists /\ user'[u].exists /\ Place(user'[u]) # Place(user[u]) /\ ~outdated'[u]
              => notice'[u] = Place(user'[u])]_vars

\* "never a half-moved state where a user's gminaId disagrees with the org it
\* belongs to".
NeverHalfMoved == \A u \in Users : user[u].exists => Matches(Place(user[u]))
=============================================================================
