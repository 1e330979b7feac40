----------------------- MODULE Administration_proofs ------------------------
(***************************************************************************)
(* Proofs about Administration, for every set of accounts, organizations,  *)
(* gminas and invites, any number of requests at once and any number in a  *)
(* behaviour: an administrator remains, everyone is where his role and his *)
(* organization require, an invite makes one account, and only a global    *)
(* administrator makes another.                                            *)
(***************************************************************************)
EXTENDS Administration, TLAPS

USE KeysExist, ChangesAreChanges, NullIsNoKey, KeepIsNoValue, KeysAreNoMarks, RequestsAreNat

\* What a request in progress has made sure of when it began.
Result(r) == Patched(r.seen, r.change)

\* It would take an administrator away ...
Removes(r) == r.op = "delete" \/ r.change.active = FALSE \/ r.change.role \notin {Keep, "ADMIN"}

\* ... but not the last one it counted.
CountedAnother(r) ==
    r.op \in {"patch", "delete", "setActive"} /\ r.target \in r.admins /\ Removes(r)
        => r.admins # {r.target}

\* What PATCH and POST write is allowed, and matches the organization read.
LeadsSomewhere(r) ==
    r.op \in {"patch", "create"} =>
        /\ RequiresGmina(Result(r).role) => Result(r).gmina # Null
        /\ IsGlobal(Result(r)) => IsGlobal(r.seen) \/ r.byGlobal
        /\ r.checked /\ Result(r).org # Null => r.saw = Result(r).gmina

\* An invite, issued or about to be: who may send it, where it leads.
Issuable(role, place, byGlobal) ==
    IF role = "ADMIN" THEN byGlobal ELSE place # Null

BodyFits(r) ==
    /\ r.op = "create" => r.seen = NoUser
    /\ r.op = "setActive" => r.change.active \in BOOLEAN /\ r.change.role = Keep
    /\ r.op = "invite" => /\ r.change.role \in Roles /\ r.change.gmina \in Gminas \cup {Null}
                          /\ r.change.org \in Orgs \cup {Null}
                          /\ Issuable(r.change.role, r.change.gmina, r.byGlobal)

Sound(r) == CountedAnother(r) /\ LeadsSomewhere(r) /\ BodyFits(r)

RequestsSound == \A q \in Requests : Sound(request[q])

\* An invite keeps what it was issued with; whoever accepts it has seen it.
InvitesSound ==
    /\ \A i \in Invites :
          /\ invite[i].made => Issuable(invite[i].role, invite[i].gmina, invite[i].byGlobal)
          /\ accounts[i] # 0 => accounts[i] = 1 /\ invite[i].made /\ invite[i].used
    /\ \A q \in Requests : Serving(q, "accept") =>
          /\ invite[request[q].invite].made
          /\ request[q].byGlobal = invite[request[q].invite].byGlobal

AdminInv == TypeOK /\ RequestsSound /\ InvitesSound /\ AdminRemains /\ AssignmentsHold

-----------------------------------------------------------------------------
(* Types of the pieces. *)

LEMMA NoUserType == NoUser \in User /\ NoChange \in Change
BY DEF NoUser, User, Roles, NoChange, Change

LEMMA IdleType ==
    /\ Idle \in Request /\ Idle.op = "idle" /\ Idle.checked = FALSE
    /\ Idle.seen = NoUser /\ Idle.change = NoChange
<1>1. /\ (CHOOSE u \in Users : TRUE) \in Users /\ (CHOOSE o \in Orgs : TRUE) \in Orgs
      /\ (CHOOSE g \in Gminas : TRUE) \in Gminas /\ (CHOOSE i \in Invites : TRUE) \in Invites
    OBVIOUS
<1> QED BY <1>1, NoUserType DEF Idle, Request, Ops

LEMMA NoInviteType == NoInvite \in Invite /\ NoInvite.made = FALSE
<1>1. (CHOOSE u \in Users : TRUE) \in Users OBVIOUS
<1> QED BY <1>1 DEF NoInvite, Invite, Roles

LEMMA PatchedType ==
    ASSUME NEW row \in User, NEW change \in Change
    PROVE  /\ Patched(row, change) \in User
           /\ Patched(row, change).exists = row.exists
           /\ Patched(row, change).active = Given(change.active, row.active)
           /\ Patched(row, change).role = Given(change.role, row.role)
           /\ Patched(row, change).gmina = Given(change.gmina, row.gmina)
           /\ Patched(row, change).org = Given(change.org, row.org)
<1>1. /\ Given(change.active, row.active) \in BOOLEAN
      /\ Given(change.role, row.role) \in Roles
      /\ Given(change.gmina, row.gmina) \in Gminas \cup {Null}
      /\ Given(change.org, row.org) \in Orgs \cup {Null}
    BY DEF Given, User, Change
<1> QED BY <1>1 DEF Patched, User

LEMMA IdleSound == Sound(Idle)
BY IdleType DEF Sound, CountedAnother, LeadsSomewhere, BodyFits

\* The rows stay: so does what is said of them.
LEMMA RowsStay ==
    ASSUME AdminInv, UNCHANGED rows
    PROVE  /\ user' \in [Users -> User] /\ notice' \in [Users -> Assignment \cup {NoNotice}]
           /\ organization' \in [Orgs -> Gminas \cup {"NEW", "GONE"}]
           /\ gmina' \in [Gminas -> {"NEW", "LIVE", "GONE"}]
           /\ invite' \in [Invites -> Invite] /\ outdated' \in [Users -> BOOLEAN]
           /\ raced' \in BOOLEAN /\ accounts' \in [Invites -> 0 .. 2]
           /\ AdminRemains' /\ AssignmentsHold'
BY DEF AdminInv, TypeOK, rows, AdminRemains, AssignmentsHold, ActiveAdmins, MembersFollow,
       NonAdminsHaveGmina, Matches

\* A slot takes a request that is sound, or is done with one.
LEMMA SlotKeeps ==
    ASSUME AdminInv, NEW q \in Requests, NEW r \in Request, Sound(r), begun' \in 0 .. MaxRequests,
           request' = [request EXCEPT ![q] = r], UNCHANGED rows,
           r.op = "accept" => invite[r.invite].made /\ r.byGlobal = invite[r.invite].byGlobal
    PROVE AdminInv'
<1>0. request \in [Requests -> Request] BY DEF AdminInv, TypeOK
<1>1. request' \in [Requests -> Request] BY <1>0
<1>2. \A p \in Requests : request'[p] = IF p = q THEN r ELSE request[p] BY <1>0
<1>3. TypeOK' BY <1>1, RowsStay DEF TypeOK
<1>4. RequestsSound' BY <1>2 DEF AdminInv, RequestsSound
<1>5. UNCHANGED <<invite, accounts>> BY DEF rows
<1>6. InvitesSound' BY <1>2, <1>5 DEF AdminInv, InvitesSound, Serving
<1> QED BY <1>3, <1>4, <1>6, RowsStay DEF AdminInv

\* A write that ends the request and leaves the rows in order.
LEMMA WriteKeeps ==
    ASSUME AdminInv, NEW q \in Requests, Done(q),
           user' \in [Users -> User], notice' \in [Users -> Assignment \cup {NoNotice}],
           organization' \in [Orgs -> Gminas \cup {"NEW", "GONE"}],
           gmina' \in [Gminas -> {"NEW", "LIVE", "GONE"}],
           invite' \in [Invites -> Invite], outdated' \in [Users -> BOOLEAN],
           raced' \in BOOLEAN, accounts' \in [Invites -> 0 .. 2],
           \A i \in Invites :
              /\ invite[i].made => invite'[i].made /\ invite'[i].byGlobal = invite[i].byGlobal
              /\ invite'[i].made => Issuable(invite'[i].role, invite'[i].gmina, invite'[i].byGlobal)
              /\ accounts'[i] # 0 => accounts'[i] = 1 /\ invite'[i].made /\ invite'[i].used,
           AdminRemains', AssignmentsHold'
    PROVE AdminInv'
<1>0. request \in [Requests -> Request] BY DEF AdminInv, TypeOK
<1>1. request' \in [Requests -> Request] BY <1>0, IdleType DEF Done
<1>2. \A p \in Requests : request'[p] = IF p = q THEN Idle ELSE request[p] BY <1>0 DEF Done
<1>3. TypeOK' BY <1>1 DEF AdminInv, TypeOK, Done
<1>4. RequestsSound' BY <1>2, IdleSound DEF AdminInv, RequestsSound
<1>5. \A p \in Requests : request[p].invite \in Invites BY <1>0 DEF Request
<1>6. \A p \in Requests : request'[p].op = "accept" =>
          request'[p] = request[p] /\ request[p].op = "accept"
    BY <1>2, IdleType
<1>7. InvitesSound' BY <1>5, <1>6 DEF AdminInv, InvitesSound, Serving
<1> QED BY <1>3, <1>4, <1>7 DEF AdminInv

\* The common case: the invites are left alone.
LEMMA InvitesStay ==
    ASSUME AdminInv, UNCHANGED <<invite, accounts>>
    PROVE  /\ invite' \in [Invites -> Invite] /\ accounts' \in [Invites -> 0 .. 2]
           /\ \A i \in Invites :
              /\ invite[i].made => invite'[i].made /\ invite'[i].byGlobal = invite[i].byGlobal
              /\ invite'[i].made => Issuable(invite'[i].role, invite'[i].gmina, invite'[i].byGlobal)
              /\ accounts'[i] # 0 => accounts'[i] = 1 /\ invite'[i].made /\ invite'[i].used
BY DEF AdminInv, TypeOK, InvitesSound

-----------------------------------------------------------------------------
(* Requests that begin. *)

LEMMA BeginKeeps ==
    ASSUME AdminInv, NEW q \in Requests, Free(q), NEW r \in Request, Sound(r), Begin(q, r),
           r.op = "accept" => invite[r.invite].made /\ r.byGlobal = invite[r.invite].byGlobal
    PROVE AdminInv'
<1>1. begun \in Nat /\ begun < MaxRequests BY DEF Free, AdminInv, TypeOK
<1>2. begun' \in 0 .. MaxRequests BY <1>1 DEF Begin
<1>3. request' = [request EXCEPT ![q] = r] /\ UNCHANGED rows BY DEF Begin
<1> QED BY <1>2, <1>3, SlotKeeps

LEMMA PatchBegins ==
    ASSUME AdminInv, NEW q \in Requests, Free(q), BeginPatch(q) PROVE AdminInv'
<1>1. PICK a \in Users, t \in Users, change \in Changes :
          /\ SignedIn(a, {"ADMIN"})
          /\ PatchWithinScope(a, t, change)
          /\ PatchAccepts(t, change)
          /\ Begin(q, [Idle EXCEPT !.op = "patch", !.target = t, !.seen = user[t],
                                   !.change = change, !.admins = ActiveAdmins,
                                   !.byGlobal = IsGlobal(user[a])])
    BY DEF BeginPatch
<1> DEFINE r == [Idle EXCEPT !.op = "patch", !.target = t, !.seen = user[t], !.change = change,
                             !.admins = ActiveAdmins, !.byGlobal = IsGlobal(user[a])]
           next == Patched(user[t], change)
<1>2. user[t] \in User /\ user[a] \in User /\ change \in Change BY DEF AdminInv, TypeOK
<1>3. ActiveAdmins \subseteq Users /\ IsGlobal(user[a]) \in BOOLEAN BY DEF ActiveAdmins, IsGlobal
<1>4. /\ r \in Request /\ r.op = "patch" /\ r.target = t /\ r.seen = user[t]
      /\ r.change = change /\ r.admins = ActiveAdmins /\ r.byGlobal = IsGlobal(user[a])
      /\ r.checked = FALSE
  <2> DEFINE global == IsGlobal(user[a])
             admins == ActiveAdmins
             seen == user[t]
  <2>1. global \in BOOLEAN /\ admins \in SUBSET Users /\ seen \in User BY <1>2, <1>3
  <2>2. r = [Idle EXCEPT !.op = "patch", !.target = t, !.seen = seen, !.change = change,
                         !.admins = admins, !.byGlobal = global]
      OBVIOUS
  <2> HIDE DEF r, global, admins, seen
  <2>3. "patch" \in Ops BY DEF Ops
  <2>4. /\ r \in Request /\ r.op = "patch" /\ r.target = t /\ r.seen = seen
        /\ r.change = change /\ r.admins = admins /\ r.byGlobal = global /\ r.checked = FALSE
      BY <1>2, <2>1, <2>2, <2>3, IdleType DEF Request
  <2> QED BY <2>4 DEF global, admins, seen
<1>5. Begin(q, r) BY <1>1
<1> HIDE DEF r
<1>6. CountedAnother(r)
  <2> SUFFICES ASSUME t \in ActiveAdmins, Removes(r), ActiveAdmins = {t} PROVE FALSE
      BY <1>4 DEF CountedAnother
  <2>1. IsActiveAdmin(user[t]) BY DEF ActiveAdmins
  <2>2. ~IsActiveAdmin(next)
    <3>1. next.role = Given(change.role, user[t].role)
          /\ next.active = Given(change.active, user[t].active)
        BY <1>2, PatchedType
    <3>2. CASE change.active = FALSE
      <4>1. change.active # Keep BY <3>2
      <4>2. next.active = FALSE BY <3>1, <3>2, <4>1 DEF Given
      <4> QED BY <4>2 DEF IsActiveAdmin
    <3>3. CASE change.role \notin {Keep, "ADMIN"}
      BY <3>1, <3>3 DEF IsActiveAdmin, Given
    <3> QED BY <1>4, <3>2, <3>3 DEF Removes
  <2> QED BY <1>1, <2>1, <2>2 DEF PatchAccepts, LosesAdmin, IsLastActiveAdmin
<1>7. IsGlobal(next) => IsGlobal(user[t]) \/ IsGlobal(user[a])
  <2> SUFFICES ASSUME IsGlobal(next), ~IsGlobal(user[t]), ~IsGlobal(user[a]) PROVE FALSE
      OBVIOUS
  <2>1. next.role = Given(change.role, user[t].role) /\ next.gmina = Given(change.gmina, user[t].gmina)
      BY <1>2, PatchedType
  <2>2. user[t].role = "ADMIN" /\ user[t].gmina # Null
      BY <1>1, <2>1 DEF IsGlobal, PatchWithinScope, Given
  <2>3. change.gmina = Null BY <2>1, <2>2 DEF IsGlobal, Given
  <2>4. IsScoped(user[a]) BY <1>1 DEF SignedIn, IsGlobal, IsScoped
  <2> QED BY <1>1, <2>3, <2>4 DEF PatchWithinScope, IsScoped
<1>8. LeadsSomewhere(r)
    BY <1>1, <1>4, <1>7 DEF LeadsSomewhere, Result, PatchAccepts
<1>9. Sound(r) BY <1>4, <1>6, <1>8 DEF Sound, BodyFits
<1>10. r.op # "accept" BY <1>4
<1> QED BY <1>4, <1>5, <1>9, <1>10, BeginKeeps

LEMMA CreateBegins ==
    ASSUME AdminInv, NEW q \in Requests, Free(q), BeginCreate(q) PROVE AdminInv'
<1>1. PICK a \in Users, t \in Users, role \in Roles, place \in Assignment :
          /\ role = "ADMIN" => IsGlobal(user[a])
          /\ RequiresGmina(role) => place.gmina # Null
          /\ Begin(q, [Idle EXCEPT !.op = "create", !.target = t, !.byGlobal = IsGlobal(user[a]),
                                   !.change = [active |-> FALSE, role |-> role,
                                               gmina |-> place.gmina, org |-> place.org]])
    BY DEF BeginCreate
<1> DEFINE global == IsGlobal(user[a])
           change == [active |-> FALSE, role |-> role, gmina |-> place.gmina, org |-> place.org]
           r == [Idle EXCEPT !.op = "create", !.target = t, !.byGlobal = global, !.change = change]
<1>2. /\ change \in Change /\ change.role = role /\ change.gmina = place.gmina
      /\ global \in BOOLEAN /\ "create" \in Ops
    BY DEF Change, Assignment, IsGlobal, Ops
<1>3. Begin(q, r) /\ (role = "ADMIN" => global) BY <1>1
<1> HIDE DEF global, change
<1>4. /\ r \in Request /\ r.op = "create" /\ r.seen = NoUser /\ r.change = change
      /\ r.byGlobal = global /\ r.checked = FALSE
    BY <1>2, IdleType DEF Request
<1> HIDE DEF r
<1>5. Result(r).role = role /\ Result(r).gmina = place.gmina
  <2>1. role # Keep /\ place.gmina # Keep BY DEF Assignment
  <2> QED BY <1>2, <1>4, <2>1, PatchedType, NoUserType DEF Result, Given
<1>6. Sound(r)
    BY <1>1, <1>3, <1>4, <1>5
    DEF Sound, CountedAnother, LeadsSomewhere, BodyFits, IsGlobal, RequiresGmina
<1>7. r.op # "accept" BY <1>4
<1> QED BY <1>3, <1>4, <1>6, <1>7, BeginKeeps

LEMMA DeleteBegins ==
    ASSUME AdminInv, NEW q \in Requests, Free(q), BeginDelete(q) PROVE AdminInv'
<1>1. PICK t \in Users :
          /\ ~(IsActiveAdmin(user[t]) /\ IsLastActiveAdmin(t))
          /\ Begin(q, [Idle EXCEPT !.op = "delete", !.target = t, !.admins = ActiveAdmins])
    BY DEF BeginDelete
<1> DEFINE r == [Idle EXCEPT !.op = "delete", !.target = t, !.admins = ActiveAdmins]
<1>2. ActiveAdmins \in SUBSET Users /\ "delete" \in Ops BY DEF ActiveAdmins, Ops
<1>3. r \in Request /\ r.op = "delete" /\ r.target = t /\ r.admins = ActiveAdmins
    BY <1>2, IdleType DEF Request
<1>4. Begin(q, r) BY <1>1
<1> HIDE DEF r
<1>5. CountedAnother(r)
    BY <1>1, <1>3 DEF CountedAnother, IsLastActiveAdmin, ActiveAdmins
<1>6. Sound(r) BY <1>3, <1>5 DEF Sound, LeadsSomewhere, BodyFits
<1>7. r.op # "accept" BY <1>3
<1> QED BY <1>3, <1>4, <1>6, <1>7, BeginKeeps

LEMMA SetActiveBegins ==
    ASSUME AdminInv, NEW q \in Requests, Free(q), BeginSetActive(q) PROVE AdminInv'
<1>1. PICK t \in Users, value \in BOOLEAN :
          /\ ~value => ~IsLastActiveAdmin(t)
          /\ Begin(q, [Idle EXCEPT !.op = "setActive", !.target = t, !.admins = ActiveAdmins,
                                   !.change = [NoChange EXCEPT !.active = value]])
    BY DEF BeginSetActive
<1> DEFINE change == [NoChange EXCEPT !.active = value]
           r == [Idle EXCEPT !.op = "setActive", !.target = t, !.admins = ActiveAdmins,
                             !.change = change]
<1>2. ActiveAdmins \in SUBSET Users /\ "setActive" \in Ops BY DEF ActiveAdmins, Ops
<1>3. change \in Change /\ change.active = value /\ change.role = Keep
    BY DEF NoChange, Change
<1>4. Begin(q, r) BY <1>1
<1> HIDE DEF change
<1>5. /\ r \in Request /\ r.op = "setActive" /\ r.target = t /\ r.admins = ActiveAdmins
      /\ r.change = change
    BY <1>2, <1>3, IdleType DEF Request
<1> HIDE DEF r
<1>6. CountedAnother(r)
  <2> SUFFICES ASSUME Removes(r), ActiveAdmins = {t} PROVE FALSE
      BY <1>5 DEF CountedAnother
  <2>1. change.active = FALSE BY <1>3, <1>5 DEF Removes
  <2>2. ~value BY <1>3, <2>1
  <2> QED BY <1>1, <2>2 DEF IsLastActiveAdmin
<1>7. Sound(r) BY <1>3, <1>5, <1>6 DEF Sound, LeadsSomewhere, BodyFits
<1>8. r.op # "accept" BY <1>5
<1> QED BY <1>4, <1>5, <1>7, <1>8, BeginKeeps

\* A request about an organization, a gmina or an invite already issued.
LEMMA PlainSound ==
    ASSUME NEW r, r.op \in {"createOrg", "moveOrg", "deleteOrg", "createGmina", "deleteGmina",
                            "revoke", "reactivate", "accept"}
    PROVE Sound(r)
BY DEF Sound, CountedAnother, LeadsSomewhere, BodyFits

LEMMA OrgBegins ==
    ASSUME AdminInv, NEW q \in Requests, Free(q),
           BeginCreateOrg(q) \/ BeginMoveOrg(q) \/ BeginDeleteOrg(q)
    PROVE AdminInv'
<1>1. PICK op \in {"createOrg", "moveOrg", "deleteOrg"}, o \in Orgs, g \in Gminas :
          Begin(q, [Idle EXCEPT !.op = op, !.org = o, !.gmina = g])
  <2>1. CASE BeginCreateOrg(q) BY <2>1 DEF BeginCreateOrg
  <2>2. CASE BeginMoveOrg(q) BY <2>2 DEF BeginMoveOrg
  <2>3. CASE BeginDeleteOrg(q)
    <3>1. PICK o \in Orgs : Begin(q, [Idle EXCEPT !.op = "deleteOrg", !.org = o])
        BY <2>3 DEF BeginDeleteOrg
    <3>2. [Idle EXCEPT !.op = "deleteOrg", !.org = o]
              = [Idle EXCEPT !.op = "deleteOrg", !.org = o, !.gmina = Idle.gmina]
        BY IdleType DEF Request
    <3>3. Idle.gmina \in Gminas BY IdleType DEF Request
    <3> QED BY <3>1, <3>2, <3>3
  <2> QED BY <2>1, <2>2, <2>3
<1> DEFINE r == [Idle EXCEPT !.op = op, !.org = o, !.gmina = g]
<1>2. op \in Ops BY DEF Ops
<1>3. r \in Request /\ r.op = op BY <1>2, IdleType DEF Request
<1>4. Begin(q, r) BY <1>1
<1> HIDE DEF r
<1> QED BY <1>3, <1>4, PlainSound, BeginKeeps

LEMMA GminaBegins ==
    ASSUME AdminInv, NEW q \in Requests, Free(q), BeginCreateGmina(q) \/ BeginDeleteGmina(q)
    PROVE AdminInv'
<1>1. PICK op \in {"createGmina", "deleteGmina"}, g \in Gminas :
          Begin(q, [Idle EXCEPT !.op = op, !.gmina = g])
    BY DEF BeginCreateGmina, BeginDeleteGmina
<1> DEFINE r == [Idle EXCEPT !.op = op, !.gmina = g]
<1>2. op \in Ops BY DEF Ops
<1>3. r \in Request /\ r.op = op BY <1>2, IdleType DEF Request
<1>4. Begin(q, r) BY <1>1
<1> HIDE DEF r
<1> QED BY <1>3, <1>4, PlainSound, BeginKeeps

LEMMA InviteBegins ==
    ASSUME AdminInv, NEW q \in Requests, Free(q), BeginInvite(q) PROVE AdminInv'
<1>1. PICK a \in Users, t \in Users, i \in Invites, role \in Roles, place \in Assignment :
          /\ role = "ADMIN" => IsGlobal(user[a])
          /\ InvitePlace(a, role, place)
          /\ Matches(place)
          /\ Begin(q, [Idle EXCEPT !.op = "invite", !.invite = i, !.target = t, !.actor = a,
                          !.byGlobal = IsGlobal(user[a]),
                          !.change = [active |-> FALSE, role |-> role,
                                      gmina |-> place.gmina, org |-> place.org]])
    BY DEF BeginInvite
<1> DEFINE global == IsGlobal(user[a])
           change == [active |-> FALSE, role |-> role, gmina |-> place.gmina, org |-> place.org]
           r == [Idle EXCEPT !.op = "invite", !.invite = i, !.target = t, !.actor = a,
                             !.byGlobal = global, !.change = change]
<1>2. /\ change \in Change /\ change.role = role /\ change.gmina = place.gmina
      /\ change.org = place.org /\ global \in BOOLEAN /\ "invite" \in Ops
      /\ place.gmina \in Gminas \cup {Null} /\ place.org \in Orgs \cup {Null}
    BY DEF Change, Assignment, IsGlobal, Ops
<1>3. Begin(q, r) /\ (role = "ADMIN" => global) BY <1>1
<1>4. role # "ADMIN" => place.gmina # Null
  <2> SUFFICES ASSUME role # "ADMIN", place.gmina = Null PROVE FALSE OBVIOUS
  <2>1. place.org # Null /\ organization[place.org] = Null
      BY <1>1 DEF InvitePlace, RequiresGmina, Matches
  <2>2. organization[place.org] \in Gminas \cup {"NEW", "GONE"}
      BY <1>2, <2>1 DEF AdminInv, TypeOK
  <2> QED BY <2>1, <2>2
<1> HIDE DEF global, change
<1>5. /\ r \in Request /\ r.op = "invite" /\ r.change = change /\ r.byGlobal = global
    BY <1>2, IdleType DEF Request
<1> HIDE DEF r
<1>6. Sound(r)
    BY <1>2, <1>3, <1>4, <1>5
    DEF Sound, CountedAnother, LeadsSomewhere, BodyFits, Issuable
<1>7. r.op # "accept" BY <1>5
<1> QED BY <1>3, <1>5, <1>6, <1>7, BeginKeeps

LEMMA ManageBegins ==
    ASSUME AdminInv, NEW q \in Requests, Free(q), BeginRevoke(q) \/ BeginReactivate(q)
    PROVE AdminInv'
<1>1. PICK op \in {"revoke", "reactivate"}, i \in Invites :
          Begin(q, [Idle EXCEPT !.op = op, !.invite = i])
    BY DEF BeginRevoke, BeginReactivate
<1> DEFINE r == [Idle EXCEPT !.op = op, !.invite = i]
<1>2. op \in Ops BY DEF Ops
<1>3. r \in Request /\ r.op = op BY <1>2, IdleType DEF Request
<1>4. Begin(q, r) BY <1>1
<1> HIDE DEF r
<1> QED BY <1>3, <1>4, PlainSound, BeginKeeps

LEMMA AcceptBegins ==
    ASSUME AdminInv, NEW q \in Requests, Free(q), BeginAccept(q) PROVE AdminInv'
<1>1. PICK i \in Invites :
          /\ invite[i].made
          /\ Begin(q, [Idle EXCEPT !.op = "accept", !.invite = i, !.byGlobal = invite[i].byGlobal])
    BY DEF BeginAccept
<1> DEFINE global == invite[i].byGlobal
           r == [Idle EXCEPT !.op = "accept", !.invite = i, !.byGlobal = global]
<1>2. global \in BOOLEAN /\ "accept" \in Ops BY DEF AdminInv, TypeOK, Invite, Ops
<1>3. Begin(q, r) BY <1>1
<1>4. r \in Request /\ r.op = "accept" /\ r.invite = i /\ r.byGlobal = invite[i].byGlobal
    BY <1>2, IdleType DEF Request
<1> HIDE DEF r
<1> QED BY <1>1, <1>3, <1>4, PlainSound, BeginKeeps

LEMMA RecheckKeeps ==
    ASSUME AdminInv, NEW q \in Requests, Recheck(q) PROVE AdminInv'
<1> DEFINE place == Place(Patched(request[q].seen, request[q].change))
           saw == IF place.org = Null THEN Null ELSE organization[place.org]
           r == [request[q] EXCEPT !.checked = TRUE, !.saw = saw]
<1>0. request[q] \in Request /\ request \in [Requests -> Request] BY DEF AdminInv, TypeOK
<1>1. Result(request[q]) \in User BY <1>0, PatchedType DEF Request, Result
<1>2. place.org = Result(request[q]).org /\ place.gmina = Result(request[q]).gmina
    BY DEF Place, Result
<1>3. Matches(place) /\ request' = [request EXCEPT ![q] = r] /\ UNCHANGED rows /\ begun' = begun
    BY DEF Recheck
<1>4. saw \in Gminas \cup {Null, "NEW", "GONE"}
    BY <1>1, <1>2 DEF User, AdminInv, TypeOK
<1>5. place.org # Null => saw = place.gmina BY <1>3 DEF Matches
<1> HIDE DEF place, saw
<1>6. /\ r \in Request /\ r.op = request[q].op /\ r.target = request[q].target
      /\ r.seen = request[q].seen /\ r.change = request[q].change /\ r.admins = request[q].admins
      /\ r.byGlobal = request[q].byGlobal /\ r.saw = saw
    BY <1>0, <1>4 DEF Request
<1> HIDE DEF r
<1>7. Result(r) = Result(request[q]) BY <1>6 DEF Result
<1>8. Sound(request[q]) BY DEF AdminInv, RequestsSound
<1>9. Sound(r)
  <2>1. CountedAnother(r) BY <1>6, <1>8 DEF Sound, CountedAnother, Removes
  <2>2. LeadsSomewhere(r) BY <1>2, <1>5, <1>6, <1>7, <1>8 DEF Sound, LeadsSomewhere
  <2>3. BodyFits(r) BY <1>6, <1>8 DEF Sound, BodyFits
  <2> QED BY <2>1, <2>2, <2>3 DEF Sound
<1>10. r.op # "accept" BY <1>6 DEF Recheck
<1>11. begun' \in 0 .. MaxRequests BY <1>3 DEF AdminInv, TypeOK
<1> QED BY <1>3, <1>6, <1>9, <1>10, <1>11, SlotKeeps

LEMMA AbortKeeps ==
    ASSUME AdminInv, NEW q \in Requests, Abort(q) PROVE AdminInv'
<1>1. begun' \in 0 .. MaxRequests BY DEF Abort, Done, AdminInv, TypeOK
<1> QED BY <1>1, IdleType, IdleSound, SlotKeeps DEF Abort, Done

-----------------------------------------------------------------------------
(* Writes to an account. *)

\* Whoever is removed was not the last administrator counted, or the removal
\* overlapped another.
LEMMA AdminStays ==
    ASSUME AdminInv, NEW q \in Requests, request[q].op \in {"patch", "delete", "setActive"},
           NEW row \in User, Store(request[q].target, row),
           raced' = (raced \/ Races(request[q], row)),
           IsActiveAdmin(user[request[q].target]) /\ ~IsActiveAdmin(row) => Removes(request[q])
    PROVE AdminRemains'
<1> DEFINE t == request[q].target
<1>0. t \in Users /\ user \in [Users -> User] BY DEF AdminInv, TypeOK, Request
<1>1. \A u \in Users : user'[u] = IF u = t THEN row ELSE user[u] BY <1>0 DEF Store
<1>2. SUFFICES ASSUME ~raced' PROVE ActiveAdmins' # {} BY DEF AdminRemains
<1>3. ActiveAdmins # {} BY <1>2 DEF AdminInv, AdminRemains
<1>4. \A u \in Users : u # t /\ u \in ActiveAdmins => u \in ActiveAdmins'
    BY <1>1 DEF ActiveAdmins, IsActiveAdmin
<1>5. IsActiveAdmin(row) => t \in ActiveAdmins' BY <1>0, <1>1 DEF ActiveAdmins, IsActiveAdmin
<1>6. CASE t \in ActiveAdmins /\ ~IsActiveAdmin(row)
  <2>1. ActiveAdmins = request[q].admins BY <1>2, <1>6 DEF Races
  <2>2. Removes(request[q]) BY <1>6 DEF ActiveAdmins
  <2>3. ActiveAdmins # {t}
      BY <1>6, <2>1, <2>2 DEF AdminInv, RequestsSound, Sound, CountedAnother
  <2>4. PICK u \in ActiveAdmins : u # t BY <1>6, <2>3
  <2>5. u \in Users BY DEF ActiveAdmins
  <2> QED BY <1>4, <2>4, <2>5
<1>7. CASE t \notin ActiveAdmins \/ IsActiveAdmin(row)
  <2>1. PICK u \in ActiveAdmins : TRUE BY <1>3
  <2>2. u \in Users BY DEF ActiveAdmins
  <2> QED BY <1>4, <1>5, <1>7, <2>1, <2>2
<1> QED BY <1>6, <1>7

\* A new or another row takes nobody away.
LEMMA NewcomersHarmless ==
    ASSUME AdminInv, NEW t \in Users, NEW row \in User, Store(t, row), ~user[t].exists,
           UNCHANGED raced
    PROVE AdminRemains'
<1>0. user \in [Users -> User] BY DEF AdminInv, TypeOK
<1>1. \A u \in ActiveAdmins : u \in Users /\ u # t BY DEF ActiveAdmins, IsActiveAdmin
<1>2. \A u \in Users : u # t => user'[u] = user[u] BY <1>0 DEF Store
<1>3. ActiveAdmins \subseteq ActiveAdmins' BY <1>1, <1>2 DEF ActiveAdmins
<1> QED BY <1>3 DEF AdminInv, AdminRemains

\* The row written is in order, or known to be written from old data.
LEMMA AssignmentStays ==
    ASSUME AdminInv, NEW t \in Users, NEW row \in User, Store(t, row), UNCHANGED organization,
           NEW stale \in BOOLEAN, outdated' = [outdated EXCEPT ![t] = stale],
           row.exists /\ ~stale =>
               Matches(Place(row)) /\ (RequiresGmina(row.role) => row.gmina # Null)
    PROVE AssignmentsHold'
<1>0. user \in [Users -> User] /\ outdated \in [Users -> BOOLEAN] BY DEF AdminInv, TypeOK
<1>1. \A u \in Users : /\ user'[u] = IF u = t THEN row ELSE user[u]
                       /\ outdated'[u] = IF u = t THEN stale ELSE outdated[u]
    BY <1>0 DEF Store
<1>2. MembersFollow'
  <2> SUFFICES ASSUME NEW u \in Users, user'[u].exists, ~outdated'[u]
               PROVE user'[u].org # Null => organization'[user'[u].org] = user'[u].gmina
      BY DEF MembersFollow, Matches, Place
  <2>1. CASE u = t BY <1>1, <2>1 DEF Matches, Place
  <2>2. CASE u # t BY <1>1, <2>2 DEF AdminInv, AssignmentsHold, MembersFollow, Matches, Place
  <2> QED BY <2>1, <2>2
<1>3. NonAdminsHaveGmina'
    BY <1>1 DEF NonAdminsHaveGmina, AdminInv, AssignmentsHold, RequiresGmina
<1> QED BY <1>2, <1>3 DEF AssignmentsHold

LEMMA PatchWrites ==
    ASSUME AdminInv, NEW q \in Requests, WritePatch(q) PROVE AdminInv'
<1> DEFINE req == request[q]
           t == req.target
           next == Place(Patched(req.seen, req.change))
           row == Patched(user[t], req.change)
           stale == user[t] # req.seen \/ Moved(req, next)
<1>0. /\ req \in Request /\ t \in Users /\ req.change \in Change /\ req.seen \in User
      /\ user \in [Users -> User] /\ outdated \in [Users -> BOOLEAN] /\ raced \in BOOLEAN
      /\ notice \in [Users -> Assignment \cup {NoNotice}]
    BY DEF AdminInv, TypeOK, Request
<1>1. /\ Serving(q, "patch") /\ req.checked /\ user[t].exists
      /\ Store(t, row) /\ notice' = NoticeOnPatch(req, next)
      /\ outdated' = [outdated EXCEPT ![t] = stale] /\ raced' = (raced \/ Races(req, row))
      /\ Done(q) /\ UNCHANGED <<organization, gmina, invite, accounts>>
    BY DEF WritePatch
<1>2. row \in User /\ Patched(req.seen, req.change) \in User BY <1>0, PatchedType
<1>3. next \in Assignment BY <1>2 DEF Place, Assignment, User
<1>4. stale \in BOOLEAN /\ Races(req, row) \in BOOLEAN BY DEF Moved, Races
<1>5. /\ user' \in [Users -> User] /\ notice' \in [Users -> Assignment \cup {NoNotice}]
      /\ outdated' \in [Users -> BOOLEAN] /\ raced' \in BOOLEAN
      /\ organization' \in [Orgs -> Gminas \cup {"NEW", "GONE"}]
      /\ gmina' \in [Gminas -> {"NEW", "LIVE", "GONE"}]
  <2>1. user' \in [Users -> User] BY <1>0, <1>1, <1>2 DEF Store
  <2>2. notice' \in [Users -> Assignment \cup {NoNotice}] BY <1>0, <1>1, <1>3 DEF NoticeOnPatch
  <2>3. outdated' \in [Users -> BOOLEAN] /\ raced' \in BOOLEAN BY <1>0, <1>1, <1>4
  <2> QED BY <1>1, <2>1, <2>2, <2>3 DEF AdminInv, TypeOK
<1>6. IsActiveAdmin(user[t]) /\ ~IsActiveAdmin(row) => Removes(req)
  <2> SUFFICES ASSUME IsActiveAdmin(user[t]), ~Removes(req) PROVE IsActiveAdmin(row) OBVIOUS
  <2>1. req.change.active # FALSE /\ req.change.role \in {Keep, "ADMIN"} BY DEF Removes
  <2>2. req.change.active \in {Keep, TRUE} BY <1>0, <2>1 DEF Change
  <2>3. row.exists = user[t].exists /\ row.active = Given(req.change.active, user[t].active)
        /\ row.role = Given(req.change.role, user[t].role)
      BY <1>0, PatchedType
  <2>4. row.active BY <2>2, <2>3 DEF Given, IsActiveAdmin
  <2>5. row.role = "ADMIN" BY <2>1, <2>3 DEF Given, IsActiveAdmin
  <2> QED BY <2>3, <2>4, <2>5 DEF IsActiveAdmin
<1>7. row.exists /\ ~stale => Matches(Place(row)) /\ (RequiresGmina(row.role) => row.gmina # Null)
  <2> SUFFICES ASSUME ~stale
               PROVE Matches(Place(row)) /\ (RequiresGmina(row.role) => row.gmina # Null)
      OBVIOUS
  <2>1. row = Result(req) /\ ~Moved(req, Place(row)) BY DEF Result
  <2>2. Sound(req) /\ req.op = "patch" BY <1>1 DEF AdminInv, RequestsSound, Serving
  <2> HIDE DEF row, req, next, stale
  <2> QED BY <1>1, <2>1, <2>2 DEF Sound, LeadsSomewhere, Moved, Matches, Place
<1> HIDE DEF row, stale, next
<1>8. AdminRemains' BY <1>1, <1>2, <1>6, AdminStays DEF Serving
<1>9. AssignmentsHold' BY <1>0, <1>1, <1>2, <1>4, <1>7, AssignmentStays
<1> QED BY <1>1, <1>5, <1>8, <1>9, InvitesStay, WriteKeeps

LEMMA CreateWrites ==
    ASSUME AdminInv, NEW q \in Requests, WriteCreate(q) PROVE AdminInv'
<1> DEFINE req == request[q]
           t == req.target
           row == [Patched(NoUser, req.change) EXCEPT !.exists = TRUE]
           stale == Moved(req, Place(row))
<1>0. /\ t \in Users /\ req.change \in Change
      /\ user \in [Users -> User] /\ outdated \in [Users -> BOOLEAN]
    BY DEF AdminInv, TypeOK, Request
<1>1. /\ Serving(q, "create") /\ req.checked /\ ~user[t].exists
      /\ Store(t, row) /\ outdated' = [outdated EXCEPT ![t] = stale]
      /\ Done(q) /\ UNCHANGED <<notice, organization, gmina, invite, raced, accounts>>
    BY DEF WriteCreate
<1>2. Sound(req) /\ req.op = "create" /\ req.seen = NoUser
    BY <1>1 DEF AdminInv, RequestsSound, Serving, Sound, BodyFits
<1>3. /\ Patched(NoUser, req.change) = Result(req) /\ Result(req) \in User
    BY <1>0, <1>2, NoUserType, PatchedType DEF Result
<1>4. /\ row \in User /\ row.org = Result(req).org /\ row.gmina = Result(req).gmina
      /\ row.role = Result(req).role
    BY <1>3 DEF User
<1>5. stale \in BOOLEAN BY DEF Moved
<1>6. ~stale => Matches(Place(row)) /\ (RequiresGmina(row.role) => row.gmina # Null)
  <2> HIDE DEF row, req
  <2> QED BY <1>1, <1>2, <1>4 DEF Sound, LeadsSomewhere, Moved, Matches, Place
<1> HIDE DEF row, stale
<1>7. /\ user' \in [Users -> User] /\ notice' \in [Users -> Assignment \cup {NoNotice}]
      /\ outdated' \in [Users -> BOOLEAN] /\ raced' \in BOOLEAN
      /\ organization' \in [Orgs -> Gminas \cup {"NEW", "GONE"}]
      /\ gmina' \in [Gminas -> {"NEW", "LIVE", "GONE"}]
    BY <1>0, <1>1, <1>4, <1>5 DEF AdminInv, TypeOK, Store
<1>8. AdminRemains' BY <1>0, <1>1, <1>4, NewcomersHarmless
<1>9. AssignmentsHold' BY <1>0, <1>1, <1>4, <1>5, <1>6, AssignmentStays
<1> QED BY <1>1, <1>7, <1>8, <1>9, InvitesStay, WriteKeeps

LEMMA DeleteWrites ==
    ASSUME AdminInv, NEW q \in Requests, WriteDelete(q) PROVE AdminInv'
<1> DEFINE t == request[q].target
<1>0. /\ t \in Users /\ user \in [Users -> User] /\ outdated \in [Users -> BOOLEAN]
      /\ raced \in BOOLEAN /\ notice \in [Users -> Assignment \cup {NoNotice}]
    BY DEF AdminInv, TypeOK, Request
<1>1. /\ request[q].op = "delete" /\ Store(t, NoUser)
      /\ notice' = [notice EXCEPT ![t] = NoNotice] /\ outdated' = [outdated EXCEPT ![t] = FALSE]
      /\ raced' = (raced \/ Races(request[q], NoUser))
      /\ Done(q) /\ UNCHANGED <<organization, gmina, invite, accounts>>
    BY DEF WriteDelete, Serving
<1>2. Races(request[q], NoUser) \in BOOLEAN /\ NoUser.exists = FALSE BY DEF Races, NoUser
<1>3. /\ user' \in [Users -> User] /\ notice' \in [Users -> Assignment \cup {NoNotice}]
      /\ outdated' \in [Users -> BOOLEAN] /\ raced' \in BOOLEAN
      /\ organization' \in [Orgs -> Gminas \cup {"NEW", "GONE"}]
      /\ gmina' \in [Gminas -> {"NEW", "LIVE", "GONE"}]
  <2>1. user' \in [Users -> User] BY <1>0, <1>1, NoUserType DEF Store
  <2>2. notice' \in [Users -> Assignment \cup {NoNotice}] BY <1>0, <1>1
  <2>3. outdated' \in [Users -> BOOLEAN] /\ raced' \in BOOLEAN BY <1>0, <1>1, <1>2
  <2> QED BY <1>1, <2>1, <2>2, <2>3 DEF AdminInv, TypeOK
<1>4. Removes(request[q]) BY <1>1 DEF Removes
<1>5. AdminRemains' BY <1>1, <1>4, NoUserType, AdminStays
<1>6. AssignmentsHold' BY <1>0, <1>1, <1>2, NoUserType, AssignmentStays
<1> QED BY <1>1, <1>3, <1>5, <1>6, InvitesStay, WriteKeeps

LEMMA SetActiveWrites ==
    ASSUME AdminInv, NEW q \in Requests, WriteSetActive(q) PROVE AdminInv'
<1> DEFINE req == request[q]
           t == req.target
           row == [user[t] EXCEPT !.active = req.change.active]
<1>0. /\ t \in Users /\ user \in [Users -> User] /\ user[t] \in User
      /\ outdated \in [Users -> BOOLEAN] /\ raced \in BOOLEAN
    BY DEF AdminInv, TypeOK, Request
<1>1. /\ req.op = "setActive" /\ user[t].exists /\ Store(t, row)
      /\ raced' = (raced \/ Races(req, row))
      /\ Done(q) /\ UNCHANGED <<notice, organization, gmina, invite, outdated, accounts>>
    BY DEF WriteSetActive, Serving
<1>2. req.change.active \in BOOLEAN
    BY <1>1 DEF AdminInv, RequestsSound, Sound, BodyFits
<1>3. /\ row \in User /\ row.exists = user[t].exists /\ row.role = user[t].role
      /\ row.gmina = user[t].gmina /\ row.org = user[t].org /\ row.active = req.change.active
    BY <1>0, <1>2 DEF User
<1>4. IsActiveAdmin(user[t]) /\ ~IsActiveAdmin(row) => Removes(req)
    BY <1>2, <1>3 DEF IsActiveAdmin, Removes
<1> HIDE DEF row
<1>5. Races(req, row) \in BOOLEAN BY DEF Races
<1>6. /\ user' \in [Users -> User] /\ notice' \in [Users -> Assignment \cup {NoNotice}]
      /\ outdated' \in [Users -> BOOLEAN] /\ raced' \in BOOLEAN
      /\ organization' \in [Orgs -> Gminas \cup {"NEW", "GONE"}]
      /\ gmina' \in [Gminas -> {"NEW", "LIVE", "GONE"}]
  <2>1. user' \in [Users -> User] /\ raced' \in BOOLEAN BY <1>0, <1>1, <1>3, <1>5 DEF Store
  <2> QED BY <1>1, <2>1 DEF AdminInv, TypeOK
<1>7. AdminRemains' BY <1>1, <1>3, <1>4, AdminStays
<1>8. AssignmentsHold'
  <2>1. outdated' = [outdated EXCEPT ![t] = outdated[t]] BY <1>0, <1>1
  <2>2. outdated[t] \in BOOLEAN BY <1>0
  <2>3. ~outdated[t] => Matches(Place(row)) /\ (RequiresGmina(row.role) => row.gmina # Null)
      BY <1>0, <1>1, <1>3
      DEF AdminInv, AssignmentsHold, MembersFollow, NonAdminsHaveGmina, Matches, Place
  <2> QED BY <1>0, <1>1, <1>3, <2>1, <2>2, <2>3, AssignmentStays
<1> QED BY <1>1, <1>6, <1>7, <1>8, InvitesStay, WriteKeeps

-----------------------------------------------------------------------------
(* Writes to organizations, gminas and invites. *)

\* The accounts and the organizations stay.
LEMMA AccountsStay ==
    ASSUME AdminInv, UNCHANGED <<user, organization, outdated, raced>>
    PROVE  /\ AdminRemains' /\ AssignmentsHold'
           /\ user' \in [Users -> User] /\ outdated' \in [Users -> BOOLEAN] /\ raced' \in BOOLEAN
           /\ organization' \in [Orgs -> Gminas \cup {"NEW", "GONE"}]
BY DEF AdminInv, TypeOK, AdminRemains, AssignmentsHold, ActiveAdmins, MembersFollow,
       NonAdminsHaveGmina, Matches

\* An organization that is created or deleted has no members to lose.
LEMMA OrgChangeHarmless ==
    ASSUME AdminInv, UNCHANGED <<user, outdated, raced>>, NEW o \in Orgs,
           NEW g \in Gminas \cup {"GONE"}, organization' = [organization EXCEPT ![o] = g],
           organization[o] = "NEW" \/ \A u \in Users : user[u].org # o
    PROVE  /\ AdminRemains' /\ AssignmentsHold'
           /\ user' \in [Users -> User] /\ outdated' \in [Users -> BOOLEAN] /\ raced' \in BOOLEAN
           /\ organization' \in [Orgs -> Gminas \cup {"NEW", "GONE"}]
<1>0. /\ organization \in [Orgs -> Gminas \cup {"NEW", "GONE"}] /\ user \in [Users -> User]
      /\ outdated \in [Users -> BOOLEAN] /\ raced \in BOOLEAN
    BY DEF AdminInv, TypeOK
<1>1. \A p \in Orgs : p # o => organization'[p] = organization[p] BY <1>0
<1>2. AdminRemains' BY DEF AdminInv, AdminRemains, ActiveAdmins
<1>3. NonAdminsHaveGmina' BY DEF AdminInv, AssignmentsHold, NonAdminsHaveGmina
<1>4. MembersFollow'
  <2> SUFFICES ASSUME NEW u \in Users, user[u].exists, ~outdated[u], user[u].org # Null
               PROVE organization'[user[u].org] = user[u].gmina
      BY DEF MembersFollow, Matches, Place
  <2>1. organization[user[u].org] = user[u].gmina
      BY DEF AdminInv, AssignmentsHold, MembersFollow, Matches, Place
  <2>2. user[u].org \in Orgs /\ user[u].gmina \in Gminas \cup {Null} BY <1>0 DEF User
  <2>3. user[u].org # o BY <2>1, <2>2
  <2> QED BY <1>1, <2>1, <2>2, <2>3
<1> QED BY <1>0, <1>2, <1>3, <1>4 DEF AssignmentsHold

LEMMA MoveOrgWrites ==
    ASSUME AdminInv, NEW q \in Requests, WriteMoveOrg(q) PROVE AdminInv'
<1> DEFINE o == request[q].org
           g == request[q].gmina
           Member(u) == user[u].exists /\ user[u].org = o
<1>0. /\ o \in Orgs /\ g \in Gminas /\ user \in [Users -> User]
      /\ notice \in [Users -> Assignment \cup {NoNotice}] /\ outdated \in [Users -> BOOLEAN]
      /\ organization \in [Orgs -> Gminas \cup {"NEW", "GONE"}]
    BY DEF AdminInv, TypeOK, Request
<1>1. /\ organization' = [organization EXCEPT ![o] = g]
      /\ user' = [u \in Users |-> IF Member(u) THEN [user[u] EXCEPT !.gmina = g] ELSE user[u]]
      /\ notice' = [u \in Users |-> IF Member(u) THEN [gmina |-> g, org |-> o] ELSE notice[u]]
      /\ outdated' = [u \in Users |-> outdated[u] /\ ~Member(u)]
      /\ Done(q) /\ UNCHANGED <<gmina, invite, raced, accounts>>
    BY DEF WriteMoveOrg
<1>2. \A u \in Users :
          /\ user'[u] \in User /\ user'[u].exists = user[u].exists
          /\ user'[u].active = user[u].active /\ user'[u].role = user[u].role
          /\ user'[u].org = user[u].org
          /\ user'[u].gmina = IF Member(u) THEN g ELSE user[u].gmina
  <2> SUFFICES ASSUME NEW u \in Users
               PROVE /\ user'[u] \in User /\ user'[u].exists = user[u].exists
                     /\ user'[u].active = user[u].active /\ user'[u].role = user[u].role
                     /\ user'[u].org = user[u].org
                     /\ user'[u].gmina = IF Member(u) THEN g ELSE user[u].gmina
      OBVIOUS
  <2>1. user[u] \in User BY <1>0
  <2>2. CASE Member(u)
    <3>1. user'[u] = [user[u] EXCEPT !.gmina = g] BY <1>1, <2>2
    <3> QED BY <1>0, <2>1, <2>2, <3>1 DEF User
  <2>3. CASE ~Member(u)
    <3>1. user'[u] = user[u] BY <1>1, <2>3
    <3> QED BY <2>1, <2>3, <3>1
  <2> QED BY <2>2, <2>3
<1>3. \A u \in Users : outdated'[u] = (outdated[u] /\ ~Member(u)) BY <1>1
<1>4. /\ user' \in [Users -> User] /\ notice' \in [Users -> Assignment \cup {NoNotice}]
      /\ outdated' \in [Users -> BOOLEAN] /\ raced' \in BOOLEAN
      /\ organization' \in [Orgs -> Gminas \cup {"NEW", "GONE"}]
      /\ gmina' \in [Gminas -> {"NEW", "LIVE", "GONE"}]
  <2>1. user' \in [Users -> User] BY <1>1, <1>2
  <2>2. [gmina |-> g, org |-> o] \in Assignment BY <1>0 DEF Assignment
  <2>3. notice' \in [Users -> Assignment \cup {NoNotice}] BY <1>0, <1>1, <2>2
  <2>4. outdated' \in [Users -> BOOLEAN] BY <1>1
  <2>5. organization' \in [Orgs -> Gminas \cup {"NEW", "GONE"}] BY <1>0, <1>1
  <2> QED BY <1>1, <2>1, <2>3, <2>4, <2>5 DEF AdminInv, TypeOK
<1>5. AdminRemains'
  <2>1. ActiveAdmins' = ActiveAdmins BY <1>2 DEF ActiveAdmins, IsActiveAdmin
  <2> QED BY <1>1, <2>1 DEF AdminInv, AdminRemains
<1>6. MembersFollow'
  <2> SUFFICES ASSUME NEW u \in Users, user[u].exists, ~outdated'[u], user[u].org # Null
               PROVE organization'[user[u].org] = user'[u].gmina
      BY <1>2 DEF MembersFollow, Matches, Place
  <2>1. user[u].org \in Orgs BY <1>0 DEF User
  <2>2. CASE user[u].org = o BY <1>0, <1>1, <1>2, <2>2
  <2>3. CASE user[u].org # o
    <3>1. ~outdated[u] BY <1>3, <2>3
    <3>2. organization[user[u].org] = user[u].gmina
        BY <3>1 DEF AdminInv, AssignmentsHold, MembersFollow, Matches, Place
    <3> QED BY <1>0, <1>1, <1>2, <2>1, <2>3, <3>2
  <2> QED BY <2>2, <2>3
<1>7. NonAdminsHaveGmina'
  <2> SUFFICES ASSUME NEW u \in Users, user[u].exists, RequiresGmina(user[u].role), ~outdated'[u]
               PROVE user'[u].gmina # Null
      BY <1>2 DEF NonAdminsHaveGmina
  <2>1. CASE Member(u) BY <1>0, <1>2, <2>1
  <2>2. CASE ~Member(u)
    BY <1>2, <1>3, <2>2 DEF AdminInv, AssignmentsHold, NonAdminsHaveGmina
  <2> QED BY <2>1, <2>2
<1>8. AssignmentsHold' BY <1>6, <1>7 DEF AssignmentsHold
<1> HIDE DEF Member
<1> QED BY <1>1, <1>4, <1>5, <1>8, InvitesStay, WriteKeeps

LEMMA ScopeWrites ==
    ASSUME AdminInv, NEW q \in Requests,
           WriteCreateOrg(q) \/ WriteDeleteOrg(q) \/ WriteCreateGmina(q) \/ WriteDeleteGmina(q)
    PROVE AdminInv'
<1>0. /\ request[q].org \in Orgs /\ request[q].gmina \in Gminas
      /\ notice \in [Users -> Assignment \cup {NoNotice}]
      /\ gmina \in [Gminas -> {"NEW", "LIVE", "GONE"}]
    BY DEF AdminInv, TypeOK, Request
<1>1. /\ Done(q) /\ UNCHANGED <<user, notice, outdated, raced, invite, accounts>>
      /\ notice' \in [Users -> Assignment \cup {NoNotice}]
    BY <1>0 DEF WriteCreateOrg, WriteDeleteOrg, WriteCreateGmina, WriteDeleteGmina
<1>2. CASE WriteCreateOrg(q) \/ WriteDeleteOrg(q)
  <2>1. gmina' \in [Gminas -> {"NEW", "LIVE", "GONE"}]
      BY <1>0, <1>2 DEF WriteCreateOrg, WriteDeleteOrg
  <2>2. PICK g \in Gminas \cup {"GONE"} :
            /\ organization' = [organization EXCEPT ![request[q].org] = g]
            /\ \/ organization[request[q].org] = "NEW"
               \/ \A u \in Users : user[u].org # request[q].org
      BY <1>0, <1>2 DEF WriteCreateOrg, WriteDeleteOrg
  <2> QED BY <1>0, <1>1, <2>1, <2>2, OrgChangeHarmless, InvitesStay, WriteKeeps
<1>3. CASE WriteCreateGmina(q) \/ WriteDeleteGmina(q)
  <2>1. gmina' \in [Gminas -> {"NEW", "LIVE", "GONE"}] /\ UNCHANGED organization
      BY <1>0, <1>3 DEF WriteCreateGmina, WriteDeleteGmina
  <2> QED BY <1>1, <2>1, AccountsStay, InvitesStay, WriteKeeps
<1> QED BY <1>2, <1>3

\* Only lapsed changes: what was issued, and used, stays.
LEMMA Relapsed ==
    ASSUME AdminInv, NEW i \in Invites, NEW value \in BOOLEAN,
           invite' = [invite EXCEPT ![i].lapsed = value], UNCHANGED accounts
    PROVE  /\ invite' \in [Invites -> Invite] /\ accounts' \in [Invites -> 0 .. 2]
           /\ \A j \in Invites :
              /\ invite'[j].made = invite[j].made /\ invite'[j].byGlobal = invite[j].byGlobal
              /\ invite'[j].made => Issuable(invite'[j].role, invite'[j].gmina, invite'[j].byGlobal)
              /\ accounts'[j] # 0 => accounts'[j] = 1 /\ invite'[j].made /\ invite'[j].used
<1>0. /\ invite \in [Invites -> Invite] /\ invite[i] \in Invite
      /\ accounts \in [Invites -> 0 .. 2]
    BY DEF AdminInv, TypeOK
<1> DEFINE row == [invite[i] EXCEPT !.lapsed = value]
<1>1. /\ row \in Invite /\ row.made = invite[i].made /\ row.used = invite[i].used
      /\ row.role = invite[i].role /\ row.gmina = invite[i].gmina
      /\ row.byGlobal = invite[i].byGlobal
    BY <1>0 DEF Invite
<1>2. invite' = [invite EXCEPT ![i] = row] BY <1>0
<1> HIDE DEF row
<1>3. \A j \in Invites : invite'[j] = IF j = i THEN row ELSE invite[j] BY <1>0, <1>2
<1>4. invite' \in [Invites -> Invite] BY <1>0, <1>1, <1>2
<1> QED BY <1>0, <1>1, <1>3, <1>4 DEF AdminInv, InvitesSound

LEMMA InviteWrites ==
    ASSUME AdminInv, NEW q \in Requests, WriteInvite(q) PROVE AdminInv'
<1> DEFINE req == request[q]
           i == req.invite
           row == [made |-> TRUE, used |-> FALSE, lapsed |-> FALSE, user |-> req.target,
                   role |-> req.change.role, gmina |-> req.change.gmina, org |-> req.change.org,
                   creator |-> req.actor, byGlobal |-> req.byGlobal]
<1>0. /\ i \in Invites /\ req.target \in Users /\ req.actor \in Users /\ req.byGlobal \in BOOLEAN
      /\ invite \in [Invites -> Invite] /\ accounts \in [Invites -> 0 .. 2]
    BY DEF AdminInv, TypeOK, Request
<1>1. /\ req.op = "invite" /\ ~invite[i].made /\ invite' = [invite EXCEPT ![i] = row]
      /\ Done(q) /\ UNCHANGED <<user, notice, organization, gmina, outdated, raced, accounts>>
    BY DEF WriteInvite, Serving
<1>2. /\ req.change.role \in Roles /\ req.change.gmina \in Gminas \cup {Null}
      /\ req.change.org \in Orgs \cup {Null}
      /\ Issuable(req.change.role, req.change.gmina, req.byGlobal)
    BY <1>1 DEF AdminInv, RequestsSound, Sound, BodyFits
<1>3. row \in Invite BY <1>0, <1>2 DEF Invite
<1>4. row.made /\ row.role = req.change.role /\ row.gmina = req.change.gmina
      /\ row.byGlobal = req.byGlobal
    OBVIOUS
<1> HIDE DEF row
<1>5. \A j \in Invites : invite'[j] = IF j = i THEN row ELSE invite[j] BY <1>0, <1>1
<1>6. accounts[i] = 0 BY <1>0, <1>1 DEF AdminInv, InvitesSound
<1>7. \A j \in Invites :
          /\ invite[j].made => invite'[j].made /\ invite'[j].byGlobal = invite[j].byGlobal
          /\ invite'[j].made => Issuable(invite'[j].role, invite'[j].gmina, invite'[j].byGlobal)
          /\ accounts'[j] # 0 => accounts'[j] = 1 /\ invite'[j].made /\ invite'[j].used
    BY <1>1, <1>2, <1>4, <1>5, <1>6 DEF AdminInv, InvitesSound
<1>8. /\ invite' \in [Invites -> Invite] /\ accounts' \in [Invites -> 0 .. 2]
      /\ notice' \in [Users -> Assignment \cup {NoNotice}]
      /\ gmina' \in [Gminas -> {"NEW", "LIVE", "GONE"}]
    BY <1>0, <1>1, <1>3 DEF AdminInv, TypeOK
<1> QED BY <1>1, <1>7, <1>8, AccountsStay, WriteKeeps

LEMMA LapseWrites ==
    ASSUME AdminInv, NEW q \in Requests, WriteRevoke(q) \/ WriteReactivate(q) PROVE AdminInv'
<1>1. request[q].invite \in Invites BY DEF AdminInv, TypeOK, Request
<1>2. PICK value \in BOOLEAN : invite' = [invite EXCEPT ![request[q].invite].lapsed = value]
    BY DEF WriteRevoke, WriteReactivate
<1>3. /\ Done(q) /\ UNCHANGED <<user, notice, organization, gmina, outdated, raced, accounts>>
    BY DEF WriteRevoke, WriteReactivate
<1>4. /\ notice' \in [Users -> Assignment \cup {NoNotice}]
      /\ gmina' \in [Gminas -> {"NEW", "LIVE", "GONE"}]
    BY <1>3 DEF AdminInv, TypeOK
<1> QED BY <1>1, <1>2, <1>3, <1>4, Relapsed, AccountsStay, WriteKeeps

LEMMA AcceptWrites ==
    ASSUME AdminInv, NEW q \in Requests, WriteAccept(q) PROVE AdminInv'
<1> DEFINE i == request[q].invite
           t == invite[i].user
           row == [exists |-> TRUE, active |-> FALSE, role |-> invite[i].role,
                   gmina |-> invite[i].gmina, org |-> invite[i].org]
           used == [invite[i] EXCEPT !.used = TRUE]
           stale == ~Matches(Place(row))
<1>0. /\ i \in Invites /\ invite[i] \in Invite /\ t \in Users
      /\ user \in [Users -> User] /\ outdated \in [Users -> BOOLEAN]
      /\ invite \in [Invites -> Invite] /\ accounts \in [Invites -> 0 .. 2]
    BY DEF AdminInv, TypeOK, Request, Invite
<1>1. /\ request[q].op = "accept" /\ ~invite[i].used /\ ~user[t].exists /\ Store(t, row)
      /\ invite' = [invite EXCEPT ![i].used = TRUE]
      /\ outdated' = [outdated EXCEPT ![t] = stale] /\ accounts' = Accounted(i)
      /\ Done(q) /\ UNCHANGED <<notice, organization, gmina, raced>>
    BY DEF WriteAccept, Serving
<1>2. invite[i].made BY <1>1 DEF AdminInv, InvitesSound, Serving
<1>3. Issuable(invite[i].role, invite[i].gmina, invite[i].byGlobal)
    BY <1>0, <1>2 DEF AdminInv, InvitesSound
<1>4. row \in User /\ row.gmina = invite[i].gmina /\ row.role = invite[i].role
    BY <1>0 DEF User, Invite
<1>5. RequiresGmina(row.role) => row.gmina # Null
    BY <1>3, <1>4 DEF Issuable, RequiresGmina
<1>6. stale \in BOOLEAN /\ (~stale => Matches(Place(row))) BY DEF Matches
<1>7. /\ used \in Invite /\ used.made = invite[i].made /\ used.used = TRUE
      /\ used.role = invite[i].role /\ used.gmina = invite[i].gmina
      /\ used.byGlobal = invite[i].byGlobal
    BY <1>0 DEF Invite
<1>8. invite' = [invite EXCEPT ![i] = used] BY <1>0, <1>1
<1> HIDE DEF row, used, stale
<1>9. \A j \in Invites : invite'[j] = IF j = i THEN used ELSE invite[j] BY <1>0, <1>8
<1>10. accounts[i] = 0 BY <1>0, <1>1 DEF AdminInv, InvitesSound
<1>11. \A j \in Invites : accounts'[j] = IF j = i THEN 1 ELSE accounts[j]
    BY <1>0, <1>1, <1>10 DEF Accounted
<1>12. \A j \in Invites :
          /\ invite[j].made => invite'[j].made /\ invite'[j].byGlobal = invite[j].byGlobal
          /\ invite'[j].made => Issuable(invite'[j].role, invite'[j].gmina, invite'[j].byGlobal)
          /\ accounts'[j] # 0 => accounts'[j] = 1 /\ invite'[j].made /\ invite'[j].used
    BY <1>2, <1>3, <1>7, <1>9, <1>11 DEF AdminInv, InvitesSound
<1>13. /\ user' \in [Users -> User] /\ notice' \in [Users -> Assignment \cup {NoNotice}]
       /\ outdated' \in [Users -> BOOLEAN] /\ raced' \in BOOLEAN
       /\ organization' \in [Orgs -> Gminas \cup {"NEW", "GONE"}]
       /\ gmina' \in [Gminas -> {"NEW", "LIVE", "GONE"}]
    BY <1>0, <1>1, <1>4, <1>6 DEF AdminInv, TypeOK, Store
<1>14. invite' \in [Invites -> Invite] BY <1>0, <1>7, <1>8
<1>15. accounts' \in [Invites -> 0 .. 2] BY <1>0, <1>1, <1>10 DEF Accounted
<1>16. AdminRemains' BY <1>0, <1>1, <1>4, NewcomersHarmless
<1>17. AssignmentsHold' BY <1>0, <1>1, <1>4, <1>5, <1>6, AssignmentStays
<1> QED BY <1>1, <1>12, <1>13, <1>14, <1>15, <1>16, <1>17, WriteKeeps

\* A notice is read, or a link expires; no request is involved.
LEMMA AsideKeeps ==
    ASSUME AdminInv, (\E u \in Users : Dismiss(u)) \/ (\E i \in Invites : Expire(i))
    PROVE AdminInv'
<1>1. UNCHANGED <<user, organization, gmina, outdated, raced, accounts, request, begun>>
    BY DEF Dismiss, Expire
<1>2. notice' \in [Users -> Assignment \cup {NoNotice}]
    BY DEF Dismiss, Expire, AdminInv, TypeOK
<1>3. /\ invite' \in [Invites -> Invite]
      /\ \A j \in Invites :
          /\ invite'[j].made = invite[j].made /\ invite'[j].byGlobal = invite[j].byGlobal
          /\ invite'[j].made => Issuable(invite'[j].role, invite'[j].gmina, invite'[j].byGlobal)
          /\ accounts'[j] # 0 => accounts'[j] = 1 /\ invite'[j].made /\ invite'[j].used
  <2>1. CASE \E u \in Users : Dismiss(u)
    BY <2>1 DEF Dismiss, AdminInv, TypeOK, InvitesSound
  <2>2. CASE \E i \in Invites : Expire(i)
    <3>1. PICK i \in Invites : invite' = [invite EXCEPT ![i].lapsed = TRUE] BY <2>2 DEF Expire
    <3> QED BY <1>1, <3>1, Relapsed
  <2> QED BY <2>1, <2>2
<1>4. TypeOK' BY <1>1, <1>2, <1>3 DEF AdminInv, TypeOK
<1>5. RequestsSound' BY <1>1 DEF AdminInv, RequestsSound
<1>6. \A p \in Requests : request[p].invite \in Invites BY DEF AdminInv, TypeOK, Request
<1>7. InvitesSound' BY <1>1, <1>3, <1>6 DEF AdminInv, InvitesSound, Serving
<1> QED BY <1>1, <1>4, <1>5, <1>7, AccountsStay DEF AdminInv

-----------------------------------------------------------------------------
(* The invariant. *)

LEMMA AdminInit == Init => AdminInv
<1> SUFFICES ASSUME Init PROVE AdminInv OBVIOUS
<1>0. /\ request = [q \in Requests |-> Idle] /\ begun = 0 /\ raced = FALSE
      /\ notice = [u \in Users |-> NoNotice] /\ outdated = [u \in Users |-> FALSE]
      /\ accounts = [i \in Invites |-> 0]
      /\ gmina \in [Gminas -> {"NEW", "LIVE"}]
      /\ organization \in [Orgs -> {g \in Gminas : gmina[g] = "LIVE"} \cup {"NEW"}]
    BY DEF Init
<1>1. PICK first \in Users, second \in Users, row \in User :
          /\ first # second
          /\ row.exists /\ row.active
          /\ Refers(row) /\ Matches(Place(row))
          /\ RequiresGmina(row.role) => row.gmina # Null
          /\ user = [u \in Users |->
                 IF u = first THEN [NoUser EXCEPT !.exists = TRUE, !.active = TRUE, !.role = "ADMIN"]
                 ELSE IF u = second THEN row ELSE NoUser]
          /\ invite \in [Invites -> {NoInvite} \cup
                 [made : {TRUE}, used : {FALSE}, lapsed : {FALSE},
                  user : Users \ {first, second}, role : {"VOLUNTEER"}, gmina : {row.gmina},
                  org : {row.org} \ {Null}, creator : {second}, byGlobal : {IsGlobal(row)}]]
    BY DEF Init
<1> DEFINE admin == [NoUser EXCEPT !.exists = TRUE, !.active = TRUE, !.role = "ADMIN"]
<1>2. /\ admin \in User /\ admin.exists /\ admin.active /\ admin.role = "ADMIN"
      /\ admin.org = Null
    BY DEF NoUser, User, Roles
<1>3. NoUser \in User /\ NoUser.exists = FALSE BY NoUserType DEF NoUser
<1> HIDE DEF admin
<1>4. \A u \in Users : user[u] = IF u = first THEN admin ELSE IF u = second THEN row ELSE NoUser
    BY <1>1 DEF admin
<1>5. user \in [Users -> User] BY <1>1, <1>2, <1>3 DEF admin
<1>6. row.org # Null => row.gmina # Null
  <2> SUFFICES ASSUME row.org # Null, row.gmina = Null PROVE FALSE OBVIOUS
  <2>1. organization[row.org] = Null /\ row.org \in Orgs BY <1>1 DEF Matches, Place, User
  <2> QED BY <1>0, <2>1
<1>7. \A i \in Invites :
          /\ invite[i] \in Invite
          /\ invite[i].made => Issuable(invite[i].role, invite[i].gmina, invite[i].byGlobal)
  <2> SUFFICES ASSUME NEW i \in Invites
               PROVE /\ invite[i] \in Invite
                     /\ invite[i].made
                           => Issuable(invite[i].role, invite[i].gmina, invite[i].byGlobal)
      OBVIOUS
  <2>1. CASE invite[i] = NoInvite BY <2>1, NoInviteType
  <2>2. CASE invite[i] \in [made : {TRUE}, used : {FALSE}, lapsed : {FALSE},
                  user : Users \ {first, second}, role : {"VOLUNTEER"}, gmina : {row.gmina},
                  org : {row.org} \ {Null}, creator : {second}, byGlobal : {IsGlobal(row)}]
    <3>1. IsGlobal(row) \in BOOLEAN /\ "VOLUNTEER" \in Roles BY DEF IsGlobal, Roles
    <3>2. invite[i] \in Invite BY <1>1, <2>2, <3>1 DEF Invite, User
    <3>3. invite[i].role = "VOLUNTEER" /\ invite[i].gmina = row.gmina /\ row.org # Null BY <2>2
    <3> QED BY <1>6, <3>2, <3>3 DEF Issuable
  <2> QED BY <1>1, <2>1, <2>2
<1>8. TypeOK
  <2>1. /\ notice \in [Users -> Assignment \cup {NoNotice}] /\ outdated \in [Users -> BOOLEAN]
        /\ accounts \in [Invites -> 0 .. 2] /\ raced \in BOOLEAN /\ begun \in 0 .. MaxRequests
    <3>1. notice \in [Users -> Assignment \cup {NoNotice}] BY <1>0
    <3>2. outdated \in [Users -> BOOLEAN] /\ raced \in BOOLEAN BY <1>0
    <3>3. accounts \in [Invites -> 0 .. 2] /\ begun \in 0 .. MaxRequests BY <1>0
    <3> QED BY <3>1, <3>2, <3>3
  <2>2. request \in [Requests -> Request] BY <1>0, IdleType
  <2>3. organization \in [Orgs -> Gminas \cup {"NEW", "GONE"}]
        /\ gmina \in [Gminas -> {"NEW", "LIVE", "GONE"}]
      BY <1>0
  <2>4. invite \in [Invites -> Invite] BY <1>1, <1>7
  <2> QED BY <1>5, <2>1, <2>2, <2>3, <2>4 DEF TypeOK
<1>9. RequestsSound BY <1>0, IdleSound DEF RequestsSound
<1>10. InvitesSound
  <2>1. \A q \in Requests : ~Serving(q, "accept") BY <1>0, IdleType DEF Serving
  <2>2. \A i \in Invites : accounts[i] = 0 BY <1>0
  <2> QED BY <1>7, <2>1, <2>2 DEF InvitesSound
<1>11. AdminRemains
  <2>1. first \in ActiveAdmins BY <1>2, <1>4 DEF ActiveAdmins, IsActiveAdmin
  <2> QED BY <2>1 DEF AdminRemains
<1>12. MembersFollow BY <1>1, <1>2, <1>3, <1>4 DEF MembersFollow, Matches, Place
<1>13. NonAdminsHaveGmina
    BY <1>1, <1>2, <1>3, <1>4 DEF NonAdminsHaveGmina, RequiresGmina
<1> QED BY <1>8, <1>9, <1>10, <1>11, <1>12, <1>13 DEF AdminInv, AssignmentsHold

LEMMA AdminStep == AdminInv /\ [Next]_vars => AdminInv'
<1> SUFFICES ASSUME AdminInv, [Next]_vars PROVE AdminInv' OBVIOUS
<1>1. ASSUME NEW q \in Requests, Start(q) PROVE AdminInv'
  <2>1. Free(q) BY <1>1 DEF Start
  <2>2. CASE BeginPatch(q) BY <2>1, <2>2, PatchBegins
  <2>3. CASE BeginCreate(q) BY <2>1, <2>3, CreateBegins
  <2>4. CASE BeginDelete(q) BY <2>1, <2>4, DeleteBegins
  <2>5. CASE BeginSetActive(q) BY <2>1, <2>5, SetActiveBegins
  <2>6. CASE BeginCreateOrg(q) \/ BeginMoveOrg(q) \/ BeginDeleteOrg(q) BY <2>1, <2>6, OrgBegins
  <2>7. CASE BeginCreateGmina(q) \/ BeginDeleteGmina(q) BY <2>1, <2>7, GminaBegins
  <2>8. CASE BeginInvite(q) BY <2>1, <2>8, InviteBegins
  <2>9. CASE BeginRevoke(q) \/ BeginReactivate(q) BY <2>1, <2>9, ManageBegins
  <2>10. CASE BeginAccept(q) BY <2>1, <2>10, AcceptBegins
  <2> QED BY <1>1, <2>2, <2>3, <2>4, <2>5, <2>6, <2>7, <2>8, <2>9, <2>10 DEF Start
<1>2. ASSUME NEW q \in Requests, Write(q) PROVE AdminInv'
  <2>1. CASE WritePatch(q) BY <2>1, PatchWrites
  <2>2. CASE WriteCreate(q) BY <2>2, CreateWrites
  <2>3. CASE WriteDelete(q) BY <2>3, DeleteWrites
  <2>4. CASE WriteSetActive(q) BY <2>4, SetActiveWrites
  <2>5. CASE WriteMoveOrg(q) BY <2>5, MoveOrgWrites
  <2>6. CASE WriteCreateOrg(q) \/ WriteDeleteOrg(q) \/ WriteCreateGmina(q) \/ WriteDeleteGmina(q)
    BY <2>6, ScopeWrites
  <2>7. CASE WriteInvite(q) BY <2>7, InviteWrites
  <2>8. CASE WriteRevoke(q) \/ WriteReactivate(q) BY <2>8, LapseWrites
  <2>9. CASE WriteAccept(q) BY <2>9, AcceptWrites
  <2> QED BY <1>2, <2>1, <2>2, <2>3, <2>4, <2>5, <2>6, <2>7, <2>8, <2>9 DEF Write
<1>3. ASSUME NEW q \in Requests, Recheck(q) PROVE AdminInv' BY <1>3, RecheckKeeps
<1>4. ASSUME NEW q \in Requests, Abort(q) PROVE AdminInv' BY <1>4, AbortKeeps
<1>5. CASE (\E u \in Users : Dismiss(u)) \/ (\E i \in Invites : Expire(i)) BY <1>5, AsideKeeps
<1>6. CASE UNCHANGED vars
  <2>1. UNCHANGED rows /\ request' = request /\ begun' = begun BY <1>6 DEF vars
  <2>2. TypeOK' BY <2>1, RowsStay DEF AdminInv, TypeOK
  <2>3. RequestsSound' BY <2>1 DEF AdminInv, RequestsSound
  <2>4. InvitesSound' BY <2>1 DEF rows, AdminInv, InvitesSound, Serving
  <2> QED BY <2>1, <2>2, <2>3, <2>4, RowsStay DEF AdminInv
<1> QED BY <1>1, <1>2, <1>3, <1>4, <1>5, <1>6 DEF Next

-----------------------------------------------------------------------------
(* The steps that change a user's row. *)

Touches(q) ==
    \/ WritePatch(q) \/ WriteCreate(q) \/ WriteDelete(q) \/ WriteSetActive(q)
    \/ WriteMoveOrg(q) \/ WriteAccept(q)

LEMMA OnlyWritesTouch ==
    ASSUME [Next]_vars, user' # user PROVE \E q \in Requests : Touches(q) /\ Done(q)
<1>1. ASSUME NEW q \in Requests, Start(q) \/ Recheck(q) \/ Abort(q) PROVE FALSE
  <2>1. CASE Recheck(q) \/ Abort(q) BY <2>1 DEF Recheck, Abort, rows
  <2>2. CASE Start(q)
    <3>1. \E r : Begin(q, r)
        BY <2>2 DEF Start, BeginPatch, BeginCreate, BeginDelete, BeginSetActive, BeginCreateOrg,
           BeginMoveOrg, BeginDeleteOrg, BeginCreateGmina, BeginDeleteGmina, BeginInvite,
           BeginRevoke, BeginReactivate, BeginAccept
    <3> QED BY <3>1 DEF Begin, rows
  <2> QED BY <1>1, <2>1, <2>2
<1>2. ASSUME NEW q \in Requests, Write(q) PROVE Touches(q) /\ Done(q)
  <2>1. CASE Touches(q)
    BY <2>1 DEF Touches, WritePatch, WriteCreate, WriteDelete, WriteSetActive, WriteMoveOrg,
       WriteAccept
  <2>2. CASE ~Touches(q)
    BY <1>2, <2>2 DEF Touches, Write, WriteCreateOrg, WriteDeleteOrg, WriteCreateGmina,
       WriteDeleteGmina, WriteInvite, WriteRevoke, WriteReactivate
  <2> QED BY <2>1, <2>2
<1>3. ~UNCHANGED vars BY DEF vars, rows
<1>4. ~((\E u \in Users : Dismiss(u)) \/ (\E i \in Invites : Expire(i))) BY DEF Dismiss, Expire
<1> QED BY <1>1, <1>2, <1>3, <1>4 DEF Next

\* A PATCH that is not outdated writes what it found to be allowed.
LEMMA PatchWritesResult ==
    ASSUME AdminInv, NEW q \in Requests, WritePatch(q), ~outdated'[request[q].target]
    PROVE  /\ user' = [user EXCEPT ![request[q].target] = Result(request[q])]
           /\ request[q].seen = user[request[q].target]
           /\ request[q].op = "patch"
<1> DEFINE t == request[q].target
           stale == user[t] # request[q].seen
                    \/ Moved(request[q], Place(Patched(request[q].seen, request[q].change)))
<1>1. t \in Users /\ outdated \in [Users -> BOOLEAN] BY DEF AdminInv, TypeOK, Request
<1>2. outdated' = [outdated EXCEPT ![t] = stale] BY DEF WritePatch
<1>3. ~stale BY <1>1, <1>2
<1>4. Store(t, Patched(user[t], request[q].change)) BY DEF WritePatch
<1> QED BY <1>3, <1>4 DEF WritePatch, Serving, Store, Result

\* An account becomes a global administrator by a request of one.
LEMMA GlobalStep ==
    ASSUME AdminInv, [Next]_vars, NEW u \in Users,
           user'[u].exists, IsGlobal(user'[u]), ~(user[u].exists /\ IsGlobal(user[u])),
           ~outdated'[u]
    PROVE \E q \in Requests : request[q].byGlobal /\ request'[q] = Idle
<1>1. PICK q \in Requests : Touches(q) /\ Done(q) BY OnlyWritesTouch
<1>2. /\ user \in [Users -> User] /\ request \in [Requests -> Request] /\ request[q] \in Request
      /\ request[q].target \in Users /\ request[q].change \in Change
    BY DEF AdminInv, TypeOK, Request
<1>3. request'[q] = Idle BY <1>1, <1>2 DEF Done
<1>4. Sound(request[q]) BY DEF AdminInv, RequestsSound
<1>5. ASSUME WritePatch(q) PROVE request[q].byGlobal
  <2>1. u = request[q].target BY <1>2, <1>5 DEF WritePatch, Store
  <2>2. /\ user'[u] = Result(request[q]) /\ request[q].seen = user[u] /\ request[q].op = "patch"
      BY <1>2, <1>5, <2>1, PatchWritesResult
  <2>3. user[u].exists BY <1>5, <2>1 DEF WritePatch
  <2> QED BY <1>4, <2>2, <2>3 DEF Sound, LeadsSomewhere
<1>6. ASSUME WriteCreate(q) PROVE request[q].byGlobal
  <2> DEFINE row == [Patched(NoUser, request[q].change) EXCEPT !.exists = TRUE]
  <2>1. Store(request[q].target, row) /\ request[q].op = "create"
      BY <1>6 DEF WriteCreate, Serving
  <2>2. user'[u] = row BY <1>2, <2>1 DEF Store
  <2>3. request[q].seen = NoUser BY <1>4, <2>1 DEF Sound, BodyFits
  <2>4. Result(request[q]) \in User BY <1>2, <2>3, PatchedType, NoUserType DEF Result
  <2>5. row.role = Result(request[q]).role /\ row.gmina = Result(request[q]).gmina
      BY <2>3, <2>4 DEF Result, User
  <2>6. IsGlobal(Result(request[q])) BY <2>2, <2>5 DEF IsGlobal
  <2>7. ~IsGlobal(request[q].seen) BY <2>3 DEF IsGlobal, NoUser
  <2> QED BY <1>4, <2>1, <2>6, <2>7 DEF Sound, LeadsSomewhere
<1>7. ~WriteDelete(q)
  <2> SUFFICES ASSUME WriteDelete(q) PROVE FALSE OBVIOUS
  <2>1. Store(request[q].target, NoUser) BY DEF WriteDelete
  <2> QED BY <1>2, <2>1 DEF Store, NoUser
<1>8. ~WriteSetActive(q)
  <2> SUFFICES ASSUME WriteSetActive(q) PROVE FALSE OBVIOUS
  <2> DEFINE row == [user[request[q].target] EXCEPT !.active = request[q].change.active]
  <2>1. Store(request[q].target, row) /\ user[request[q].target].exists BY DEF WriteSetActive
  <2>2. row.role = user[request[q].target].role /\ row.gmina = user[request[q].target].gmina
      BY <1>2 DEF User
  <2> QED BY <1>2, <2>1, <2>2 DEF Store, IsGlobal
<1>9. ~WriteMoveOrg(q)
  <2> SUFFICES ASSUME WriteMoveOrg(q) PROVE FALSE OBVIOUS
  <2>1. request[q].gmina \in Gminas /\ user[u] \in User BY <1>2 DEF Request
  <2>2. user'[u] \in {user[u], [user[u] EXCEPT !.gmina = request[q].gmina]} BY DEF WriteMoveOrg
  <2>3. user'[u] = [user[u] EXCEPT !.gmina = request[q].gmina] BY <2>2
  <2>4. user'[u].gmina # Null BY <2>1, <2>3 DEF User
  <2> QED BY <2>4 DEF IsGlobal
<1>10. ASSUME WriteAccept(q) PROVE request[q].byGlobal
  <2> DEFINE i == request[q].invite
             row == [exists |-> TRUE, active |-> FALSE, role |-> invite[i].role,
                     gmina |-> invite[i].gmina, org |-> invite[i].org]
  <2>1. Store(invite[i].user, row) /\ Serving(q, "accept") BY <1>10 DEF WriteAccept
  <2>2. i \in Invites /\ invite[i].made /\ request[q].byGlobal = invite[i].byGlobal
      BY <1>2, <2>1 DEF Request, AdminInv, InvitesSound
  <2>3. invite[i].user \in Users BY <2>2 DEF AdminInv, TypeOK, Invite
  <2>4. user'[u] = row BY <1>2, <2>1, <2>3 DEF Store
  <2>5. invite[i].role = "ADMIN" BY <2>4 DEF IsGlobal
  <2> QED BY <2>2, <2>5 DEF AdminInv, InvitesSound, Issuable
<1> QED BY <1>1, <1>3, <1>5, <1>6, <1>7, <1>8, <1>9, <1>10 DEF Touches

\* Whoever is moved gets a notice that names where he is now.
LEMMA MoveStep ==
    ASSUME AdminInv, [Next]_vars, NEW u \in Users,
           user[u].exists, user'[u].exists, Place(user'[u]) # Place(user[u]), ~outdated'[u]
    PROVE notice'[u] = Place(user'[u])
<1>1. PICK q \in Requests : Touches(q) /\ Done(q) BY OnlyWritesTouch
<1>2. /\ user \in [Users -> User] /\ request[q] \in Request
      /\ request[q].target \in Users /\ request[q].change \in Change
      /\ notice \in [Users -> Assignment \cup {NoNotice}]
    BY DEF AdminInv, TypeOK, Request
<1>3. ASSUME WritePatch(q) PROVE notice'[u] = Place(user'[u])
  <2>1. u = request[q].target BY <1>2, <1>3 DEF WritePatch, Store
  <2>2. user'[u] = Result(request[q]) /\ request[q].seen = user[u]
      BY <1>2, <1>3, <2>1, PatchWritesResult
  <2>3. notice' = [notice EXCEPT ![u] = Place(user'[u])]
      BY <1>3, <2>1, <2>2 DEF WritePatch, NoticeOnPatch, Result
  <2> QED BY <1>2, <2>3
<1>4. ~WriteCreate(q)
  <2> SUFFICES ASSUME WriteCreate(q) PROVE FALSE OBVIOUS
  <2>1. u # request[q].target BY DEF WriteCreate
  <2> QED BY <1>2, <2>1 DEF WriteCreate, Store
<1>5. ~WriteDelete(q)
  <2> SUFFICES ASSUME WriteDelete(q) PROVE FALSE OBVIOUS
  <2>1. Store(request[q].target, NoUser) BY DEF WriteDelete
  <2> QED BY <1>2, <2>1 DEF Store, NoUser
<1>6. ~WriteSetActive(q)
  <2> SUFFICES ASSUME WriteSetActive(q) PROVE FALSE OBVIOUS
  <2> DEFINE row == [user[request[q].target] EXCEPT !.active = request[q].change.active]
  <2>1. Store(request[q].target, row) BY DEF WriteSetActive
  <2>2. row.org = user[request[q].target].org /\ row.gmina = user[request[q].target].gmina
      BY <1>2 DEF User
  <2> QED BY <1>2, <2>1, <2>2 DEF Store, Place
<1>7. ASSUME WriteMoveOrg(q) PROVE notice'[u] = Place(user'[u])
  <2> DEFINE o == request[q].org
             g == request[q].gmina
  <2>1. user[u] \in User BY <1>2
  <2>2. CASE user[u].exists /\ user[u].org = o
    <3>1. user'[u] = [user[u] EXCEPT !.gmina = g] /\ notice'[u] = [gmina |-> g, org |-> o]
        BY <1>7, <2>2 DEF WriteMoveOrg
    <3> QED BY <2>1, <2>2, <3>1 DEF User, Place
  <2>3. CASE ~(user[u].exists /\ user[u].org = o)
    <3>1. user'[u] = user[u] BY <1>7, <2>3 DEF WriteMoveOrg
    <3> QED BY <3>1
  <2> QED BY <2>2, <2>3
<1>8. ~WriteAccept(q)
  <2> SUFFICES ASSUME WriteAccept(q) PROVE FALSE OBVIOUS
  <2>1. u # invite[request[q].invite].user BY DEF WriteAccept
  <2>2. invite[request[q].invite].user \in Users BY <1>2 DEF Request, AdminInv, TypeOK, Invite
  <2> QED BY <1>2, <2>1, <2>2 DEF WriteAccept, Store
<1> QED BY <1>1, <1>3, <1>4, <1>5, <1>6, <1>7, <1>8 DEF Touches

-----------------------------------------------------------------------------
(* The theorems. *)

\* The inductive invariant: the types, what every request in progress has made
\* sure of, what every invite was issued with, and the properties.
THEOREM AdminInvariant == Spec => []AdminInv
BY AdminInit, AdminStep, PTL DEF Spec

\* Every row, request and history variable keeps to its domain.
THEOREM AdminTypes == Spec => []TypeOK
<1>1. AdminInv => TypeOK BY DEF AdminInv
<1> QED BY <1>1, AdminInvariant, PTL

\* isLastActiveAdmin keeps an active administrator in the system, unless two
\* removals of administrators overlap.
THEOREM AdminAlwaysRemains == Spec => []AdminRemains
<1>1. AdminInv => AdminRemains BY DEF AdminInv
<1> QED BY <1>1, AdminInvariant, PTL

\* The routes keep every member in his organization's gmina and everyone but
\* an administrator in some gmina, except from data that had changed.
THEOREM AssignmentsAlwaysHold == Spec => []AssignmentsHold
<1>1. AdminInv => AssignmentsHold BY DEF AdminInv
<1> QED BY <1>1, AdminInvariant, PTL

\* acceptInvite makes one account per invite, whoever else accepts it.
THEOREM AcceptedAtMostOnce == Spec => []AcceptedOnce
<1>1. AdminInv => AcceptedOnce BY DEF AdminInv, TypeOK, InvitesSound, AcceptedOnce
<1> QED BY <1>1, AdminInvariant, PTL

\* No request of a scoped administrator or a coordinator makes a global one.
THEOREM GlobalAdminsAreMadeByGlobalAdmins == Spec => GlobalAdminsComeFromGlobalAdmins
<1>1. AdminInv /\ [Next]_vars =>
        [\A u \in Users :
          user'[u].exists /\ IsGlobal(user'[u]) /\ ~(user[u].exists /\ IsGlobal(user[u]))
              => \/ outdated'[u]
                 \/ \E q \in Requests : request[q].byGlobal /\ request'[q] = Idle]_vars
    BY GlobalStep
<1> QED BY <1>1, AdminInvariant, PTL DEF Spec, GlobalAdminsComeFromGlobalAdmins

\* Every route that moves a user leaves him a notice of where he is now.
THEOREM MovesAreAlwaysAnnounced == Spec => MovesAreAnnounced
<1>1. AdminInv /\ [Next]_vars =>
        [\A u \in Users :
          user[u].exists /\ user'[u].exists /\ Place(user'[u]) # Place(user[u]) /\ ~outdated'[u]
              => notice'[u] = Place(user'[u])]_vars
    BY MoveStep
<1> QED BY <1>1, AdminInvariant, PTL DEF Spec, MovesAreAnnounced
=============================================================================
