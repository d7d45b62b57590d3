------------------------------ MODULE Identity ------------------------------
(***************************************************************************)
(* Members, drives, invites and API keys of one shared organization        *)
(* (packages/core/src/identity, and the routes in packages/server/src that *)
(* call it).                                                               *)
(*                                                                         *)
(* An account is its exact email; invites hold the email in lower case.    *)
(* A route that reads a request body authorizes the caller first, awaits   *)
(* the body, and then calls into identity, which is synchronous: two       *)
(* steps.  A route without a body, and an MCP tool, is one step.  A call   *)
(* that throws changes nothing and is left out.                            *)
(***************************************************************************)
EXTENDS Integers, FiniteSets

CONSTANTS
    Emails,         \* accounts that exist or may register
    Lower,          \* the lower-case form of an email
    Founder,        \* creator of the organization
    Drives, Default,
    Invites, Keys,  \* ids: bounds on how many are ever made
    Requests,       \* HTTP requests in flight
    InputRoles,     \* the roles requests ask for; the tables refuse any other (db/raw.ts:161)
    MaxCalls,       \* bound: authenticated calls
    None

ASSUME EmailsAssumption == /\ IsFiniteSet(Emails) /\ Founder \in Emails
                           /\ Lower \in [Emails -> Emails]
                           /\ \A e \in Emails : Lower[Lower[e]] = Lower[e]
ASSUME DrivesAssumption == Default \in Drives /\ None \notin Drives /\ None \notin Emails
ASSUME RolesAssumption == InputRoles \subseteq {"viewer", "editor", "admin"}
ASSUME CallsAssumption == MaxCalls \in Nat

VARIABLES
    registered,     \* users
    org,            \* org_members: the role per account, or "none"
    drives,         \* drives that exist
    drive,          \* drive_members: the role per drive and account, or "none"
    invites,        \* org_invites
    primary,        \* users.api_key_hash: "none", "live" or "revoked"
    keys,           \* user_api_keys
    req,            \* per request, what was authorized and awaits its body
    late,           \* history: per drive, a creator who had lost the membership by then
    calls           \* bound counter

vars == <<registered, org, drives, drive, invites, primary, keys, req, late, calls>>

Roles == {"viewer", "editor", "admin"}
Held == Roles \cup {"none"}
Level == [none |-> 0, viewer |-> 1, editor |-> 2, admin |-> 3]

Invite == [status : {"unused", "open", "accepted", "revoked"}, expired : {"no", "yes"},
           email : Emails, role : Roles, grants : [Drives -> Held]]
Key == [status : {"unused", "live", "revoked"}, user : Emails, by : Emails,
        scope : {"org", "account"}]
Request == [op : {"idle", "createDrive", "invite", "updateOrgRole", "orgKey", "ownKey",
                  "addToDrive", "updateDriveRole"},
            actor : Emails, target : Emails, drive : Drives]

Idle == [op |-> "idle", actor |-> Founder, target |-> Founder, drive |-> Default]
NoGrants == [d \in Drives |-> "none"]
Unsent == [status |-> "unused", expired |-> "no", email |-> Lower[Founder], role |-> "viewer",
           grants |-> NoGrants]
Unminted == [status |-> "unused", user |-> Founder, by |-> Founder, scope |-> "org"]

(* createUser, then createOrg with its default drive, for the founder.       *)
Init ==
    /\ registered = {Founder}
    /\ org = [e \in Emails |-> IF e = Founder THEN "admin" ELSE "none"]
    /\ drives = {Default}
    /\ drive = [d \in Drives |-> [e \in Emails |->
                  IF d = Default /\ e = Founder THEN "admin" ELSE "none"]]
    /\ invites = [i \in Invites |-> Unsent]
    /\ primary = [e \in Emails |-> IF e = Founder THEN "live" ELSE "none"]
    /\ keys = [k \in Keys |-> Unminted]
    /\ req = [r \in Requests |-> Idle]
    /\ late = [d \in Drives |-> None]
    /\ calls = 0
-----------------------------------------------------------------------------
(* Reads. *)

(* The accounts an email may mean: the exact one, else those that differ     *)
(* from it in letter case only; more than one is ambiguous.                  *)
resolveUserByEmail(e) ==
    IF e \in registered THEN {e} ELSE {u \in registered : Lower[u] = Lower[e]}

(* An org-scoped key reaches the routes of its organization only.            *)
scopedKeyAllows(scope, reach) == scope = "org" => reach = "org"

(* The caller has a key that reaches the route. *)
getUserByApiKey(u, reach) ==
    \/ primary[u] = "live"
    \/ \E k \in Keys : /\ keys[k].status = "live" /\ keys[k].user = u
                       /\ scopedKeyAllows(keys[k].scope, reach)

requireOrgAdmin(u) == org[u] = "admin"
requireOrgMember(u) == org[u] # "none"
requireDriveAdmin(u, d) == d \in drives /\ (drive[d][u] = "admin" \/ org[u] = "admin")

OrgAdmins == {u \in Emails : org[u] = "admin"}
DriveAdmins(d) == {u \in Emails : drive[d][u] = "admin"}

NoneBlocks(u, ds) == {}   \* mutant: the last admin of a drive is not guarded

findSoleAdminDrives(u, ds) == {d \in ds : DriveAdmins(d) = {u}}

(* The drive a call addresses, and the caller's role on it. *)
resolveContext(u, d) == IF d \in drives THEN drive[d][u] ELSE "none"
-----------------------------------------------------------------------------
(* Helpers of the writes. *)

higherRole(stored, incoming) ==
    IF Level[stored] >= Level[incoming] THEN stored ELSE incoming

grantOrgRole(u, r) == org' = [org EXCEPT ![u] = higherRole(@, r)]

(* Grants for one account over several drives; "none" is no grant.           *)
grantDriveRoles(u, grants) ==
    drive' = [d \in Drives |-> [e \in Emails |->
                IF e = u /\ grants[d] # "none"
                THEN higherRole(drive[d][e], grants[d]) ELSE drive[d][e]]]

(* The invites after those open for this email are revoked. *)
revokeOpenInviteForEmail(e) ==
    [i \in Invites |-> IF invites[i].status = "open" /\ invites[i].email = Lower[e]
                       THEN [invites[i] EXCEPT !.status = "revoked"] ELSE invites[i]]

OnlyTheirs(u) == {k \in Keys : keys[k].scope = "org" /\ keys[k].user = u}   \* mutant: the keys minted for others stay

(* The keys whose grant ends when u leaves the organization ... *)
memberLeftOrg(u) ==
    {k \in Keys : keys[k].scope = "org" /\ (keys[k].user = u \/ keys[k].by = u)}

(* ... stops being an admin of it ... *)
adminDemoted(u) ==
    {k \in Keys : keys[k].scope = "org" /\ keys[k].by = u /\ keys[k].user # u}

(* ... or resets their own key. *)
selfReset(u) == {k \in Keys : keys[k].scope = "org" /\ keys[k].user = u}

revokeGrantedKeys(lost) ==
    [k \in Keys |-> IF k \in lost /\ keys[k].status = "live"
                    THEN [keys[k] EXCEPT !.status = "revoked"] ELSE keys[k]]

Minted(k, u, a, s) ==
    /\ keys[k].status = "unused"
    /\ keys' = [keys EXCEPT ![k] = [status |-> "live", user |-> u, by |-> a, scope |-> s]]
-----------------------------------------------------------------------------
(* POST /auth/register: createUser.  The personal organization it creates    *)
(* is not this one.                                                          *)
createUser(e) ==
    /\ e \notin registered
    /\ registered' = registered \cup {e}
    /\ primary' = [primary EXCEPT ![e] = "live"]
    /\ UNCHANGED <<org, drives, drive, invites, keys, req, late>>

(* Authorized, and awaiting the body.  u: target, d: drive of the URL.       *)
Await(r, op, a, u, d) ==
    /\ req[r].op = "idle"
    /\ req' = [req EXCEPT ![r] = [op |-> op, actor |-> a, target |-> u, drive |-> d]]
    /\ UNCHANGED <<registered, org, drives, drive, invites, primary, keys, late>>

(* The routes for org admins: drives, invitations, roles. *)
AuthorizeAdmin(r, a) ==
    /\ getUserByApiKey(a, "org")
    /\ requireOrgAdmin(a)
    /\ \E op \in {"createDrive", "invite", "updateOrgRole"} : Await(r, op, a, Founder, Default)

(* POST /orgs/:orgId/members/:userId/keys *)
AuthorizeOrgKey(r, a, u) ==
    /\ getUserByApiKey(a, "org")
    /\ requireOrgAdmin(a)
    /\ requireOrgMember(u)
    /\ Await(r, "orgKey", a, u, Default)

(* POST /auth/keys: not for an org-scoped key. *)
AuthorizeOwnKey(r, a) ==
    /\ getUserByApiKey(a, "account")
    /\ Await(r, "ownKey", a, a, Default)

(* POST and PATCH /orgs/:orgId/drives/:driveId/members *)
AuthorizeDrive(r, a, d) ==
    /\ getUserByApiKey(a, "org")
    /\ requireDriveAdmin(a, d)
    /\ \E op \in {"addToDrive", "updateDriveRole"} : Await(r, op, a, Founder, d)

Resume(r, op) == req[r].op = op /\ req' = [req EXCEPT ![r] = Idle]

createDrive(r, d) ==
    /\ Resume(r, "createDrive")
    /\ d \notin drives
    /\ drives' = drives \cup {d}
    /\ drive' = [drive EXCEPT ![d][req[r].actor] = "admin"]
    /\ late' = [late EXCEPT ![d] = IF requireOrgMember(req[r].actor) THEN None ELSE req[r].actor]
    /\ UNCHANGED <<registered, org, invites, primary, keys>>

(* createPendingInvite replaces the open invite for the email ...            *)
Replaced(i, e, r, grants) ==
    [revokeOpenInviteForEmail(e) EXCEPT ![i] =
        [status |-> "open", expired |-> "no", email |-> Lower[e], role |-> r, grants |-> grants]]

(* ... for anyone who is not a member yet, with an account or without.       *)
createPendingInvite(r, i, e, rl, grants) ==
    /\ Resume(r, "invite")
    /\ \/ resolveUserByEmail(e) = {}
       \/ \E u \in registered : resolveUserByEmail(e) = {u} /\ ~requireOrgMember(u)
    /\ invites[i].status = "unused"
    /\ \A d \in Drives : grants[d] # "none" => d \in drives
    /\ invites' = Replaced(i, e, rl, grants)
    /\ UNCHANGED <<registered, org, drives, drive, primary, keys, late>>

(* A member has the grants applied at once. *)
inviteToOrg(r, e, rl, grants) ==
    /\ Resume(r, "invite")
    /\ \A d \in Drives : grants[d] # "none" => d \in drives
    /\ \E u \in registered :
         /\ resolveUserByEmail(e) = {u}
         /\ requireOrgMember(u)
         /\ grantOrgRole(u, rl)
         /\ grantDriveRoles(u, grants)
         /\ invites' = revokeOpenInviteForEmail(u)
    /\ UNCHANGED <<registered, drives, primary, keys, late>>

OneIsEnough(u, rl) ==   \* mutant: off by one, the member itself is counted
    org[u] = "admin" /\ rl # "admin" => Cardinality(OrgAdmins) > 0

(* A demotion leaves another admin. *)
AdminRemains(u, rl) == org[u] = "admin" /\ rl # "admin" => Cardinality(OrgAdmins) > 1

updateOrgMemberRole(r, u, rl) ==
    /\ Resume(r, "updateOrgRole")
    /\ requireOrgMember(u)
    /\ AdminRemains(u, rl)
    /\ org' = [org EXCEPT ![u] = rl]
    /\ keys' = IF org[u] = "admin" /\ rl # "admin"
               THEN revokeGrantedKeys(adminDemoted(u)) ELSE keys
    /\ UNCHANGED <<registered, drives, drive, invites, primary, late>>

(* The body's await is between the checks and this.                          *)
createUserApiKey(r, k) ==
    /\ \/ Resume(r, "orgKey") /\ Minted(k, req[r].target, req[r].actor, "org")
       \/ Resume(r, "ownKey") /\ Minted(k, req[r].actor, req[r].actor, "account")
    /\ UNCHANGED <<registered, org, drives, drive, invites, primary, late>>

addDriveMember(r, e, rl) ==
    /\ Resume(r, "addToDrive")
    /\ \E u \in registered :
         /\ resolveUserByEmail(e) = {u}
         /\ requireOrgMember(u)
         /\ grantDriveRoles(u, [NoGrants EXCEPT ![req[r].drive] = rl])
    /\ UNCHANGED <<registered, org, drives, invites, primary, keys, late>>

updateDriveMemberRole(r, u, rl) ==
    /\ Resume(r, "updateDriveRole")
    /\ LET d == req[r].drive IN
         /\ drive[d][u] # "none"
         /\ drive[d][u] = "admin" /\ rl # "admin" => findSoleAdminDrives(u, {d}) = {}
         /\ drive' = [drive EXCEPT ![d][u] = rl]
    /\ UNCHANGED <<registered, org, drives, invites, primary, keys, late>>

(* The call of a resumed request throws: not found, last admin, ambiguous.   *)
Refused(r) ==
    /\ req[r].op # "idle"
    /\ req' = [req EXCEPT ![r] = Idle]
    /\ UNCHANGED <<registered, org, drives, drive, invites, primary, keys, late>>
-----------------------------------------------------------------------------
(* Routes without a body. *)

DefaultOnly(u) == {Default}   \* mutant: access to the other drives stays

(* The drives a member leaves with the organization. *)
Cascade(u) == drives

removeOrgMember(a, u) ==
    /\ getUserByApiKey(a, "org")
    /\ requireOrgAdmin(a)
    /\ requireOrgMember(u)
    /\ AdminRemains(u, "none")
    /\ findSoleAdminDrives(u, drives) = {}
    /\ drive' = [d \in Drives |-> IF d \in Cascade(u) THEN [drive[d] EXCEPT ![u] = "none"]
                                  ELSE drive[d]]
    /\ org' = [org EXCEPT ![u] = "none"]
    /\ keys' = revokeGrantedKeys(memberLeftOrg(u))
    /\ late' = [d \in Drives |-> IF late[d] = u THEN None ELSE late[d]]
    /\ UNCHANGED <<registered, drives, invites, primary, req>>

removeDriveMember(a, d, u) ==
    /\ getUserByApiKey(a, "org")
    /\ requireDriveAdmin(a, d)
    /\ drive[d][u] # "none"
    /\ drive[d][u] = "admin" => findSoleAdminDrives(u, {d}) = {}
    /\ drive' = [drive EXCEPT ![d][u] = "none"]
    /\ UNCHANGED <<registered, org, drives, invites, primary, keys, req, late>>

revokeInvite(a, i) ==
    /\ getUserByApiKey(a, "org")
    /\ requireOrgAdmin(a)
    /\ invites[i].status = "open"
    /\ invites' = [invites EXCEPT ![i].status = "revoked"]
    /\ UNCHANGED <<registered, org, drives, drive, primary, keys, req, late>>

(* POST /invites/:token/accept *)
acceptInvite(u, i) ==
    /\ getUserByApiKey(u, "account")
    /\ invites[i].status = "open" /\ invites[i].expired = "no"
    /\ resolveUserByEmail(invites[i].email) = {u}
    /\ invites' = [invites EXCEPT ![i].status = "accepted"]
    /\ grantOrgRole(u, invites[i].role)
    /\ grantDriveRoles(u, invites[i].grants)
    /\ UNCHANGED <<registered, drives, primary, keys, req, late>>

(* POST /auth/reset-key, and an admin's reset of their own key.              *)
resetApiKey(u) ==
    /\ getUserByApiKey(u, "account")
    /\ primary' = [primary EXCEPT ![u] = "live"]
    /\ keys' = revokeGrantedKeys(selfReset(u))
    /\ UNCHANGED <<registered, org, drives, drive, invites, req, late>>

(* An admin's reset of another member: replaces the keys of this org.        *)
resetOrgScopedKey(a, u, k) ==
    /\ getUserByApiKey(a, "account")
    /\ requireOrgAdmin(a)
    /\ requireOrgMember(u)
    /\ a # u
    /\ keys[k].status = "unused"
    /\ keys' = [revokeGrantedKeys(selfReset(u)) EXCEPT ![k] =
                  [status |-> "live", user |-> u, by |-> a, scope |-> "org"]]
    /\ UNCHANGED <<registered, org, drives, drive, invites, primary, req, late>>

(* DELETE /auth/keys/:id, any key but also the primary one.                  *)
revokeUserApiKey(u) ==
    /\ getUserByApiKey(u, "account")
    /\ \/ /\ primary[u] = "live"
          /\ primary' = [primary EXCEPT ![u] = "revoked"]
          /\ UNCHANGED keys
       \/ \E k \in Keys :
            /\ keys[k].user = u /\ keys[k].status = "live"
            /\ keys' = [keys EXCEPT ![k].status = "revoked"]
            /\ UNCHANGED primary
    /\ UNCHANGED <<registered, org, drives, drive, invites, req, late>>

(* INVITE_TTL_SECONDS pass. *)
Expire(i) ==
    /\ invites[i].status = "open" /\ invites[i].expired = "no"
    /\ invites' = [invites EXCEPT ![i].expired = "yes"]
    /\ UNCHANGED <<registered, org, drives, drive, primary, keys, req, late>>
-----------------------------------------------------------------------------
(* Omitted grants are the default drive with the org role, an empty list is  *)
(* no drive, else the drives named (at most one of them here).               *)
resolveInviteGrants(rl) ==
    {NoGrants, [NoGrants EXCEPT ![Default] = rl]}
       \cup {[NoGrants EXCEPT ![d] = x] : d \in Drives, x \in InputRoles}

Authorize ==
    \E r \in Requests, a \in registered :
       \/ AuthorizeAdmin(r, a) \/ AuthorizeOwnKey(r, a)
       \/ \E u \in Emails : AuthorizeOrgKey(r, a, u)
       \/ \E d \in Drives : AuthorizeDrive(r, a, d)

Perform ==
    \E r \in Requests :
       \/ \E d \in Drives : createDrive(r, d)
       \/ \E k \in Keys : createUserApiKey(r, k)
       \/ \E u \in Emails, rl \in InputRoles :
            \/ updateOrgMemberRole(r, u, rl)
            \/ addDriveMember(r, u, rl)
            \/ updateDriveMemberRole(r, u, rl)
            \/ \E g \in resolveInviteGrants(rl) :
                 \/ inviteToOrg(r, u, rl, g)
                 \/ \E i \in Invites : createPendingInvite(r, i, u, rl, g)
       \/ Refused(r)

(* Routes without a body; the MCP tools do Authorize and Perform as one.     *)
Direct ==
    \E a \in registered :
       \/ resetApiKey(a) \/ revokeUserApiKey(a)
       \/ \E i \in Invites : revokeInvite(a, i) \/ acceptInvite(a, i)
       \/ \E u \in Emails : \/ removeOrgMember(a, u)
                            \/ \E d \in Drives : removeDriveMember(a, d, u)
                            \/ \E k \in Keys : resetOrgScopedKey(a, u, k)

Next ==
    \/ /\ calls < MaxCalls
       /\ calls' = calls + 1
       /\ Authorize \/ Direct
    \/ /\ calls' = calls
       /\ \/ Perform
          \/ \E e \in Emails : createUser(e)
          \/ \E i \in Invites : Expire(i)

Spec == Init /\ [][Next]_vars
-----------------------------------------------------------------------------
(* Properties. *)

TypeOK ==
    /\ registered \subseteq Emails
    /\ org \in [Emails -> Held]
    /\ drives \subseteq Drives
    /\ drive \in [Drives -> [Emails -> Held]]
    /\ invites \in [Invites -> Invite]
    /\ primary \in [Emails -> {"none", "live", "revoked"}]
    /\ keys \in [Keys -> Key]
    /\ req \in [Requests -> Request]
    /\ late \in [Drives -> Emails \cup {None}]
    /\ calls \in 0..MaxCalls

(* However demotions, removals, late requests and raise-only grants follow   *)
(* each other, every drive keeps an explicit admin (drives.ts:220).          *)
DriveKeepsAdmin == \A d \in drives : DriveAdmins(d) # {}

Invited == {invites[i].email : i \in {j \in Invites : invites[j].status = "open"}}

(* The organization implements OrgMembership: consent, single use, no silent *)
(* demotion, and a last admin.                                               *)
Membership == INSTANCE OrgMembership
                WITH People <- Emails, Alias <- Lower, role <- org, invited <- Invited
ImplementsMembership == Membership!Spec

(* Removal from the organization ends every access to its drives, also to    *)
(* those the member has made.  The one exception is a drive whose creation   *)
(* was awaiting its body when its maker was removed: the maker stays on it   *)
(* until the next removal (routes/orgs.ts:146).                              *)
OutsidersMadeTheDrive ==
    \A d \in Drives, u \in Emails :
       resolveContext(u, d) # "none" => org[u] # "none" \/ late[d] = u

(* What backs a key that an org admin minted: its holder's membership, and   *)
(* the role of its minter unless that is the holder.                         *)
Backed(k) == /\ org[keys[k].user] # "none"
             /\ keys[k].by = keys[k].user \/ org[keys[k].by] = "admin"

(* No step takes away what backs a live org-scoped key and leaves the key.   *)
GrantLossRevokesKeys ==
    [][\A k \in Keys :
         /\ keys[k].status = "live" /\ keys[k].scope = "org" /\ Backed(k)
         /\ keys'[k].status = "live"
         => Backed(k)']_vars
-----------------------------------------------------------------------------
(* The inductive invariant. *)

(* Nobody is on a drive before it is made; a drive that was addressed or     *)
(* granted exists.                                                           *)
OnlyMadeDrives ==
    /\ \A d \in Drives \ drives, e \in Emails : drive[d][e] = "none"
    /\ \A r \in Requests : req[r].op \in {"addToDrive", "updateDriveRole"} => req[r].drive \in drives
    /\ \A i \in Invites, d \in Drives : invites[i].grants[d] # "none" => d \in drives

OrgKeepsAdmin == OrgAdmins # {}

(* Invites hold normalized addresses, and one address has one open invite:   *)
(* what the unique index org_invites_open_email_uq demands (db/raw.ts:31).   *)
OneOpenInvite ==
    /\ \A i \in Invites : Lower[invites[i].email] = invites[i].email
    /\ \A i, j \in Invites :
         /\ invites[i].status = "open" /\ invites[j].status = "open"
         /\ invites[i].email = invites[j].email
         => i = j

IInv ==
    /\ TypeOK
    /\ DriveKeepsAdmin
    /\ OutsidersMadeTheDrive
    /\ OnlyMadeDrives
    /\ OrgKeepsAdmin
    /\ OneOpenInvite
=============================================================================
