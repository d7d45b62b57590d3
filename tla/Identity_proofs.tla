--------------------------- MODULE Identity_proofs ---------------------------
(* Theorems about Identity, for any accounts, drives, invites, keys and       *)
(* requests in flight, and the proof that it implements OrgMembership.        *)
EXTENDS Identity, FiniteSetTheorems, TLAPS

-----------------------------------------------------------------------------
(* Roles. *)

LEMMA HigherRole ==
  ASSUME NEW a \in Held, NEW b \in Roles
  PROVE  /\ higherRole(a, b) \in Roles
         /\ Level[a] <= Level[higherRole(a, b)]
         /\ a = "admin" => higherRole(a, b) = "admin"
  BY DEF higherRole, Held, Roles, Level

LEMMA InputRolesHeld == InputRoles \subseteq Roles /\ Roles \subseteq Held
  BY RolesAssumption DEF Roles, Held

(* The grants a request may ask for. *)
LEMMA GrantsTyped ==
  ASSUME NEW rl \in InputRoles, NEW g \in resolveInviteGrants(rl)
  PROVE  g \in [Drives -> Held]
  BY InputRolesHeld, DrivesAssumption DEF resolveInviteGrants, NoGrants, Held

(* Grants only ever raise a role, and only the roles of the account named.   *)
LEMMA GrantDriveRoles ==
  ASSUME drive \in [Drives -> [Emails -> Held]], NEW u \in Emails, NEW g \in [Drives -> Held],
         grantDriveRoles(u, g)
  PROVE  /\ drive' \in [Drives -> [Emails -> Held]]
         /\ \A d \in Drives, e \in Emails :
              /\ drive[d][e] = "admin" => drive'[d][e] = "admin"
              /\ drive'[d][e] # drive[d][e] => e = u /\ g[d] # "none"
  <1>1. \A d \in Drives, e \in Emails :
          drive'[d][e] = IF e = u /\ g[d] # "none"
                         THEN higherRole(drive[d][e], g[d]) ELSE drive[d][e]
    BY DEF grantDriveRoles
  <1>2. \A d \in Drives, e \in Emails : drive[d][e] \in Held /\ g[d] \in Held
    OBVIOUS
  <1>3. \A d \in Drives, e \in Emails :
          /\ drive'[d][e] \in Held
          /\ drive[d][e] = "admin" => drive'[d][e] = "admin"
    <2> TAKE d \in Drives, e \in Emails
    <2>1. CASE e = u /\ g[d] # "none"
      <3>1. g[d] \in Roles
        BY <1>2, <2>1 DEF Held
      <3> QED
        BY <1>1, <1>2, <2>1, <3>1, HigherRole, InputRolesHeld
    <2>2. CASE ~(e = u /\ g[d] # "none")
      BY <1>1, <1>2, <2>2
    <2> QED
      BY <2>1, <2>2
  <1>4. drive' \in [Drives -> [Emails -> Held]]
    BY <1>3 DEF grantDriveRoles
  <1> QED
    BY <1>1, <1>3, <1>4

LEMMA GrantOrgRole ==
  ASSUME org \in [Emails -> Held], NEW u \in Emails, NEW rl \in Roles, grantOrgRole(u, rl)
  PROVE  /\ org' \in [Emails -> Held]
         /\ org'[u] = higherRole(org[u], rl) /\ org'[u] \in Roles
         /\ \A e \in Emails : e # u => org'[e] = org[e]
         /\ \A e \in Emails : org[e] = "admin" => org'[e] = "admin"
  BY HigherRole, InputRolesHeld DEF grantOrgRole

(* A guard that counts two admins leaves another one. *)
LEMMA AnotherAdmin ==
  ASSUME NEW u \in Emails, NEW rl, org[u] = "admin", rl # "admin", AdminRemains(u, rl)
  PROVE  \E q \in Emails : q # u /\ org[q] = "admin"
  <1> SUFFICES ASSUME \A q \in Emails : org[q] = "admin" => q = u
               PROVE  FALSE
    OBVIOUS
  <1>1. OrgAdmins = {u}
    BY DEF OrgAdmins
  <1>2. Cardinality(OrgAdmins) = 1
    BY <1>1, FS_Singleton
  <1>3. Cardinality(OrgAdmins) > 1
    BY DEF AdminRemains
  <1> QED
    BY <1>2, <1>3

(* Who is named by an address in an invite has that address. *)
LEMMA ResolvedAlias ==
  ASSUME registered \subseteq Emails, NEW e \in Emails, NEW u, resolveUserByEmail(e) = {u}
  PROVE  u \in registered /\ Lower[u] = Lower[e]
  BY DEF resolveUserByEmail
-----------------------------------------------------------------------------
(* Invites. *)

LEMMA RevokedInvites ==
  ASSUME invites \in [Invites -> Invite], NEW e \in Emails
  PROVE  /\ revokeOpenInviteForEmail(e) \in [Invites -> Invite]
         /\ \A i \in Invites :
              /\ revokeOpenInviteForEmail(e)[i].email = invites[i].email
              /\ revokeOpenInviteForEmail(e)[i].grants = invites[i].grants
              /\ revokeOpenInviteForEmail(e)[i].status = "open"
                   <=> invites[i].status = "open" /\ invites[i].email # Lower[e]
  BY DEF revokeOpenInviteForEmail, Invite

LEMMA ReplacedInvites ==
  ASSUME invites \in [Invites -> Invite], NEW i \in Invites, NEW e \in Emails, NEW rl \in Roles,
         NEW g \in [Drives -> Held]
  PROVE  /\ Replaced(i, e, rl, g) \in [Invites -> Invite]
         /\ Replaced(i, e, rl, g)[i].email = Lower[e]
         /\ Replaced(i, e, rl, g)[i].grants = g
         /\ Replaced(i, e, rl, g)[i].status = "open"
         /\ \A j \in Invites \ {i} : Replaced(i, e, rl, g)[j] = revokeOpenInviteForEmail(e)[j]
  <1>1. [status |-> "open", expired |-> "no", email |-> Lower[e], role |-> rl, grants |-> g] \in Invite
    BY EmailsAssumption DEF Invite
  <1> QED
    BY <1>1, RevokedInvites DEF Replaced
-----------------------------------------------------------------------------
(* Requests and keys. *)

LEMMA IdleTyped == Idle \in Request
  BY EmailsAssumption, DrivesAssumption DEF Idle, Request

LEMMA ResumeKeeps ==
  ASSUME IInv, NEW r \in Requests, NEW op, Resume(r, op)
  PROVE  /\ req' \in [Requests -> Request]
         /\ req[r] \in Request /\ req[r].op = op
         /\ \A q \in Requests : req'[q] = req[q] \/ req'[q] = Idle
  BY IdleTyped DEF IInv, TypeOK, Resume

LEMMA RevokedKeys ==
  ASSUME keys \in [Keys -> Key], NEW lost
  PROVE  /\ revokeGrantedKeys(lost) \in [Keys -> Key]
         /\ \A k \in Keys :
              /\ revokeGrantedKeys(lost)[k].user = keys[k].user
              /\ revokeGrantedKeys(lost)[k].by = keys[k].by
              /\ revokeGrantedKeys(lost)[k].scope = keys[k].scope
              /\ revokeGrantedKeys(lost)[k].status = "live" => keys[k].status = "live" /\ k \notin lost
  BY DEF revokeGrantedKeys, Key

LEMMA MintedKeys ==
  ASSUME keys \in [Keys -> Key], NEW k \in Keys, NEW u \in Emails, NEW a \in Emails,
         NEW s \in {"org", "account"}, Minted(k, u, a, s)
  PROVE  /\ keys' \in [Keys -> Key]
         /\ \A j \in Keys : keys[j].status = "live" => keys'[j] = keys[j]
  BY DEF Minted, Key
-----------------------------------------------------------------------------
(* Each action keeps the invariant. *)

LEMMA InitHolds == Init => IInv
  <1> SUFFICES ASSUME Init PROVE IInv
    OBVIOUS
  <1>1. TypeOK
    <2>1. Unsent \in Invite
      BY EmailsAssumption DEF Unsent, Invite, NoGrants, Roles, Held
    <2>2. Unminted \in Key
      BY EmailsAssumption DEF Unminted, Key
    <2>3. org \in [Emails -> Held] /\ drive \in [Drives -> [Emails -> Held]]
      BY DEF Init, Held, Roles
    <2> QED
      BY <2>1, <2>2, <2>3, IdleTyped, EmailsAssumption, DrivesAssumption, CallsAssumption DEF Init, TypeOK
  <1>2. DriveKeepsAdmin
    BY EmailsAssumption, DrivesAssumption DEF Init, DriveKeepsAdmin, DriveAdmins
  <1>3. OutsidersMadeTheDrive
    BY DEF Init, OutsidersMadeTheDrive, resolveContext
  <1>4. OnlyMadeDrives
    BY DEF Init, OnlyMadeDrives, Idle, Unsent, NoGrants
  <1>5. OrgKeepsAdmin
    BY EmailsAssumption DEF Init, OrgKeepsAdmin, OrgAdmins
  <1>6. OneOpenInvite
    BY EmailsAssumption DEF Init, OneOpenInvite, Unsent
  <1> QED
    BY <1>1, <1>2, <1>3, <1>4, <1>5, <1>6 DEF IInv

(* What no action but the named ones touches. *)
LEMMA SameDrives ==
  ASSUME IInv, UNCHANGED <<org, drives, drive, late>>
  PROVE  DriveKeepsAdmin' /\ OutsidersMadeTheDrive' /\ OrgKeepsAdmin'
  BY DEF IInv, DriveKeepsAdmin, DriveAdmins, OutsidersMadeTheDrive, resolveContext, OrgKeepsAdmin, OrgAdmins

LEMMA SameInvites == ASSUME IInv, UNCHANGED invites PROVE OneOpenInvite'
  BY DEF IInv, OneOpenInvite

(* The drives stay, roles on drives come only where there is a drive, and    *)
(* requests end or stay.                                                     *)
LEMMA MadeDrivesKept ==
  ASSUME IInv, drives \subseteq drives', drives' \subseteq Drives,
         \A d \in Drives \ drives', e \in Emails : drive'[d][e] = "none",
         \A r \in Requests : req'[r] = req[r] \/ req'[r] = Idle,
         \A i \in Invites, d \in Drives : invites'[i].grants[d] # "none" => d \in drives'
  PROVE  OnlyMadeDrives'
  BY DEF IInv, OnlyMadeDrives, Idle

LEMMA AccountsKeep ==
  ASSUME IInv, calls' \in 0..MaxCalls, registered' \subseteq Emails,
         primary' \in [Emails -> {"none", "live", "revoked"}], keys' \in [Keys -> Key],
         UNCHANGED <<org, drives, drive, invites, req, late>>
  PROVE  IInv'
  <1>1. TypeOK'
    BY DEF IInv, TypeOK
  <1>2. OnlyMadeDrives'
    BY DEF IInv, OnlyMadeDrives
  <1> QED
    BY <1>1, <1>2, SameDrives, SameInvites DEF IInv

LEMMA CreateUserKeeps == ASSUME IInv, calls' \in 0..MaxCalls, NEW e \in Emails, createUser(e) PROVE IInv'
  <1>1. registered' \subseteq Emails /\ primary' \in [Emails -> {"none", "live", "revoked"}]
    BY DEF IInv, TypeOK, createUser
  <1>2. keys' \in [Keys -> Key] /\ UNCHANGED <<org, drives, drive, invites, req, late>>
    BY DEF IInv, TypeOK, createUser
  <1> QED
    BY <1>1, <1>2, AccountsKeep

LEMMA AwaitKeeps ==
  ASSUME IInv, calls' \in 0..MaxCalls, NEW r \in Requests, NEW a \in Emails, NEW u \in Emails, NEW d \in Drives,
         NEW op \in {"createDrive", "invite", "updateOrgRole", "orgKey", "ownKey", "addToDrive", "updateDriveRole"},
         Await(r, op, a, u, d),
         op \in {"addToDrive", "updateDriveRole"} => d \in drives
  PROVE  IInv'
  <1>1. [op |-> op, actor |-> a, target |-> u, drive |-> d] \in Request
    BY DEF Request
  <1>2. TypeOK'
    BY <1>1 DEF IInv, TypeOK, Await
  <1>3. OnlyMadeDrives'
    BY DEF IInv, TypeOK, OnlyMadeDrives, Await
  <1>4. UNCHANGED <<org, drives, drive, late, invites>>
    BY DEF Await
  <1> QED
    BY <1>2, <1>3, <1>4, SameDrives, SameInvites DEF IInv

LEMMA AuthorizeKeeps == ASSUME IInv, calls' \in 0..MaxCalls, Authorize PROVE IInv'
  <1>1. PICK r \in Requests, a \in registered :
           \/ AuthorizeAdmin(r, a) \/ AuthorizeOwnKey(r, a)
           \/ \E u \in Emails : AuthorizeOrgKey(r, a, u)
           \/ \E d \in Drives : AuthorizeDrive(r, a, d)
    BY DEF Authorize
  <1>2. a \in Emails /\ Founder \in Emails /\ Default \in Drives
    BY EmailsAssumption, DrivesAssumption DEF IInv, TypeOK
  <1>3. CASE AuthorizeAdmin(r, a)
    BY <1>2, <1>3, AwaitKeeps DEF AuthorizeAdmin
  <1>4. CASE AuthorizeOwnKey(r, a)
    BY <1>2, <1>4, AwaitKeeps DEF AuthorizeOwnKey
  <1>5. ASSUME NEW u \in Emails, AuthorizeOrgKey(r, a, u) PROVE IInv'
    BY <1>2, <1>5, AwaitKeeps DEF AuthorizeOrgKey
  <1>6. ASSUME NEW d \in Drives, AuthorizeDrive(r, a, d) PROVE IInv'
    BY <1>2, <1>6, AwaitKeeps DEF AuthorizeDrive, requireDriveAdmin
  <1> QED
    BY <1>1, <1>3, <1>4, <1>5, <1>6

(* The new drive has its maker for an admin. *)
LEMMA CreateDriveKeeps ==
  ASSUME IInv, calls' \in 0..MaxCalls, NEW r \in Requests, NEW d \in Drives, createDrive(r, d)
  PROVE  IInv'
  <1> DEFINE a == req[r].actor
  <1>1. /\ a \in Emails /\ d \notin drives /\ drives' = drives \cup {d}
        /\ drive' = [drive EXCEPT ![d][a] = "admin"] /\ late' = [late EXCEPT ![d] = IF org[a] # "none" THEN None ELSE a]
        /\ UNCHANGED <<registered, org, invites, primary, keys>>
    BY ResumeKeeps DEF createDrive, Request, requireOrgMember
  <1>2. /\ req' \in [Requests -> Request]
        /\ \A q \in Requests : req'[q] = req[q] \/ req'[q] = Idle
    BY ResumeKeeps DEF createDrive
  <1> HIDE DEF a
  <1>3. /\ drive' \in [Drives -> [Emails -> Held]]
        /\ \A c \in Drives, e \in Emails :
             drive'[c][e] = IF c = d /\ e = a THEN "admin" ELSE drive[c][e]
    BY <1>1 DEF IInv, TypeOK, Held, Roles
  <1>4. TypeOK'
    BY <1>1, <1>2, <1>3 DEF IInv, TypeOK
  <1>5. DriveKeepsAdmin'
    BY <1>1, <1>3 DEF IInv, TypeOK, DriveKeepsAdmin, DriveAdmins
  <1>6. \A e \in Emails : drive[d][e] = "none"
    BY <1>1 DEF IInv, OnlyMadeDrives
  <1>7. OutsidersMadeTheDrive'
    BY <1>1, <1>3, <1>6 DEF IInv, TypeOK, OutsidersMadeTheDrive, resolveContext
  <1>8. OnlyMadeDrives'
    <2>1. \A c \in Drives \ drives', e \in Emails : drive'[c][e] = "none"
      BY <1>1, <1>3 DEF IInv, OnlyMadeDrives
    <2>2. \A i \in Invites, c \in Drives : invites'[i].grants[c] # "none" => c \in drives'
      BY <1>1 DEF IInv, OnlyMadeDrives
    <2> QED
      BY <1>1, <1>2, <2>1, <2>2, MadeDrivesKept DEF IInv, TypeOK
  <1>9. OrgKeepsAdmin'
    BY <1>1 DEF IInv, OrgKeepsAdmin, OrgAdmins
  <1> QED
    BY <1>1, <1>4, <1>5, <1>7, <1>8, <1>9, SameInvites DEF IInv

(* Grants to somebody who is a member by then leave every admin in place.    *)
LEMMA GrantsKeep ==
  ASSUME IInv, NEW u \in Emails, NEW g \in [Drives -> Held], grantDriveRoles(u, g),
         \A d \in Drives : g[d] # "none" => d \in drives,
         \A e \in Emails : org[e] = "admin" => org'[e] = "admin",
         \A e \in Emails : org[e] # "none" => org'[e] # "none",
         org'[u] # "none", UNCHANGED <<drives, late>>
  PROVE  /\ drive' \in [Drives -> [Emails -> Held]]
         /\ DriveKeepsAdmin' /\ OutsidersMadeTheDrive' /\ OrgKeepsAdmin'
         /\ \A d \in Drives \ drives', e \in Emails : drive'[d][e] = "none"
  <1>1. drive \in [Drives -> [Emails -> Held]] /\ drives \subseteq Drives
    BY DEF IInv, TypeOK
  <1>2. /\ drive' \in [Drives -> [Emails -> Held]]
        /\ \A d \in Drives, e \in Emails : /\ drive[d][e] = "admin" => drive'[d][e] = "admin"
                                           /\ drive'[d][e] # drive[d][e] => e = u /\ g[d] # "none"
    BY <1>1, GrantDriveRoles
  <1>3. DriveKeepsAdmin'
    BY <1>1, <1>2 DEF IInv, DriveKeepsAdmin, DriveAdmins
  <1>4. OutsidersMadeTheDrive'
    <2> SUFFICES ASSUME NEW d \in Drives, NEW e \in Emails, d \in drives, drive'[d][e] # "none"
                 PROVE  org'[e] # "none" \/ late[d] = e
      BY DEF OutsidersMadeTheDrive, resolveContext
    <2>1. CASE e = u
      BY <2>1
    <2>2. CASE e # u
      BY <1>2, <2>2 DEF IInv, OutsidersMadeTheDrive, resolveContext
    <2> QED
      BY <2>1, <2>2
  <1>5. OrgKeepsAdmin'
    BY DEF IInv, OrgKeepsAdmin, OrgAdmins
  <1>6. \A d \in Drives \ drives', e \in Emails : drive'[d][e] = "none"
    BY <1>2 DEF IInv, OnlyMadeDrives
  <1> QED
    BY <1>2, <1>3, <1>4, <1>5, <1>6

(* The open invites that are left are among those that were. *)
LEMMA FewerInvites ==
  ASSUME IInv, \A i \in Invites : /\ invites'[i].email = invites[i].email
                                  /\ invites'[i].status = "open" => invites[i].status = "open"
  PROVE  OneOpenInvite'
  BY DEF IInv, OneOpenInvite

LEMMA CreatePendingInviteKeeps ==
  ASSUME IInv, calls' \in 0..MaxCalls, NEW r \in Requests, NEW i \in Invites, NEW e \in Emails,
         NEW rl \in InputRoles, NEW g \in resolveInviteGrants(rl), createPendingInvite(r, i, e, rl, g)
  PROVE  IInv'
  <1>1. /\ \A d \in Drives : g[d] # "none" => d \in drives
        /\ invites' = Replaced(i, e, rl, g)
        /\ UNCHANGED <<registered, org, drives, drive, primary, keys, late>>
    BY DEF createPendingInvite
  <1>2. /\ req' \in [Requests -> Request]
        /\ \A q \in Requests : req'[q] = req[q] \/ req'[q] = Idle
    BY ResumeKeeps DEF createPendingInvite
  <1>3. rl \in Roles /\ g \in [Drives -> Held] /\ invites \in [Invites -> Invite] /\ Lower[e] \in Emails
    BY InputRolesHeld, GrantsTyped, EmailsAssumption DEF IInv, TypeOK
  <1>4. /\ invites' \in [Invites -> Invite]
        /\ invites'[i].email = Lower[e] /\ invites'[i].grants = g /\ invites'[i].status = "open"
        /\ \A j \in Invites \ {i} : invites'[j] = revokeOpenInviteForEmail(e)[j]
    BY <1>1, <1>3, ReplacedInvites
  <1>5. \A j \in Invites \ {i} : /\ invites'[j].email = invites[j].email
                                 /\ invites'[j].grants = invites[j].grants
                                 /\ invites'[j].status = "open"
                                      <=> invites[j].status = "open" /\ invites[j].email # Lower[e]
    BY <1>3, <1>4, RevokedInvites
  <1>6. TypeOK'
    BY <1>1, <1>2, <1>4 DEF IInv, TypeOK
  <1>7. OneOpenInvite'
    BY <1>4, <1>5, EmailsAssumption DEF IInv, OneOpenInvite
  <1>8. OnlyMadeDrives'
    <2>1. \A j \in Invites, d \in Drives : invites'[j].grants[d] # "none" => d \in drives'
      BY <1>1, <1>4, <1>5 DEF IInv, OnlyMadeDrives
    <2>2. \A d \in Drives \ drives', x \in Emails : drive'[d][x] = "none"
      BY <1>1 DEF IInv, OnlyMadeDrives
    <2> QED
      BY <1>1, <1>2, <2>1, <2>2, MadeDrivesKept DEF IInv, TypeOK
  <1> QED
    BY <1>1, <1>6, <1>7, <1>8, SameDrives DEF IInv

LEMMA InviteToOrgKeeps ==
  ASSUME IInv, calls' \in 0..MaxCalls, NEW r \in Requests, NEW e \in Emails, NEW rl \in InputRoles,
         NEW g \in resolveInviteGrants(rl), inviteToOrg(r, e, rl, g)
  PROVE  IInv'
  <1>1. PICK u \in registered : /\ requireOrgMember(u) /\ grantOrgRole(u, rl) /\ grantDriveRoles(u, g)
                                /\ invites' = revokeOpenInviteForEmail(u)
    BY DEF inviteToOrg
  <1>2. /\ \A d \in Drives : g[d] # "none" => d \in drives
        /\ UNCHANGED <<registered, drives, primary, keys, late>>
    BY DEF inviteToOrg
  <1>3. /\ req' \in [Requests -> Request]
        /\ \A q \in Requests : req'[q] = req[q] \/ req'[q] = Idle
    BY ResumeKeeps DEF inviteToOrg
  <1>4. /\ rl \in Roles /\ g \in [Drives -> Held] /\ u \in Emails /\ org \in [Emails -> Held]
        /\ invites \in [Invites -> Invite]
    BY InputRolesHeld, GrantsTyped DEF IInv, TypeOK
  <1>5. /\ org' \in [Emails -> Held] /\ org'[u] \in Roles
        /\ \A x \in Emails : x # u => org'[x] = org[x]
        /\ \A x \in Emails : org[x] = "admin" => org'[x] = "admin"
    BY <1>1, <1>4, GrantOrgRole
  <1>6. /\ invites' \in [Invites -> Invite]
        /\ \A i \in Invites : /\ invites'[i].email = invites[i].email
                              /\ invites'[i].grants = invites[i].grants
                              /\ invites'[i].status = "open" => invites[i].status = "open"
    BY <1>1, <1>4, RevokedInvites
  <1>7. "none" \notin Roles
    BY DEF Roles
  <1>8. /\ drive' \in [Drives -> [Emails -> Held]]
        /\ DriveKeepsAdmin' /\ OutsidersMadeTheDrive' /\ OrgKeepsAdmin'
        /\ \A d \in Drives \ drives', x \in Emails : drive'[d][x] = "none"
    BY <1>1, <1>2, <1>4, <1>5, <1>7, GrantsKeep
  <1>9. TypeOK'
    BY <1>2, <1>3, <1>5, <1>6, <1>8 DEF IInv, TypeOK
  <1>10. OnlyMadeDrives'
    BY <1>2, <1>3, <1>6, <1>8, MadeDrivesKept DEF IInv, TypeOK, OnlyMadeDrives
  <1>11. OneOpenInvite'
    BY <1>6, FewerInvites
  <1> QED
    BY <1>8, <1>9, <1>10, <1>11 DEF IInv

LEMMA AcceptInviteKeeps ==
  ASSUME IInv, calls' \in 0..MaxCalls, NEW u \in Emails, NEW i \in Invites, acceptInvite(u, i)
  PROVE  IInv'
  <1> DEFINE g == invites[i].grants
             rl == invites[i].role
  <1>1. /\ grantOrgRole(u, rl) /\ grantDriveRoles(u, g)
        /\ invites' = [invites EXCEPT ![i].status = "accepted"]
        /\ UNCHANGED <<registered, drives, primary, keys, req, late>>
    BY DEF acceptInvite
  <1>2. /\ rl \in Roles /\ g \in [Drives -> Held] /\ org \in [Emails -> Held]
        /\ \A d \in Drives : g[d] # "none" => d \in drives
    BY DEF IInv, TypeOK, Invite, OnlyMadeDrives
  <1>3. /\ invites' \in [Invites -> Invite]
        /\ \A j \in Invites : /\ invites'[j].email = invites[j].email
                              /\ invites'[j].grants = invites[j].grants
                              /\ invites'[j].status = "open" => invites[j].status = "open"
    BY <1>1 DEF IInv, TypeOK, Invite
  <1> HIDE DEF g, rl
  <1>4. /\ org' \in [Emails -> Held] /\ org'[u] \in Roles
        /\ \A x \in Emails : x # u => org'[x] = org[x]
        /\ \A x \in Emails : org[x] = "admin" => org'[x] = "admin"
    BY <1>1, <1>2, GrantOrgRole
  <1>5. "none" \notin Roles
    BY DEF Roles
  <1>6. /\ drive' \in [Drives -> [Emails -> Held]]
        /\ DriveKeepsAdmin' /\ OutsidersMadeTheDrive' /\ OrgKeepsAdmin'
        /\ \A d \in Drives \ drives', x \in Emails : drive'[d][x] = "none"
    BY <1>1, <1>2, <1>4, <1>5, GrantsKeep
  <1>7. TypeOK'
    BY <1>1, <1>3, <1>4, <1>6 DEF IInv, TypeOK
  <1>8. OnlyMadeDrives'
    BY <1>1, <1>3, <1>6, MadeDrivesKept DEF IInv, TypeOK, OnlyMadeDrives
  <1>9. OneOpenInvite'
    BY <1>3, FewerInvites
  <1> QED
    BY <1>6, <1>7, <1>8, <1>9 DEF IInv

LEMMA AddDriveMemberKeeps ==
  ASSUME IInv, calls' \in 0..MaxCalls, NEW r \in Requests, NEW e \in Emails, NEW rl \in InputRoles,
         addDriveMember(r, e, rl)
  PROVE  IInv'
  <1> DEFINE d == req[r].drive
             g == [NoGrants EXCEPT ![d] = rl]
  <1>1. PICK u \in registered : requireOrgMember(u) /\ grantDriveRoles(u, g)
    BY DEF addDriveMember
  <1>2. UNCHANGED <<registered, org, drives, invites, primary, keys, late>>
    BY DEF addDriveMember
  <1>3. /\ req' \in [Requests -> Request]
        /\ req[r] \in Request /\ req[r].op = "addToDrive"
        /\ \A q \in Requests : req'[q] = req[q] \/ req'[q] = Idle
    BY ResumeKeeps DEF addDriveMember
  <1>4. d \in Drives /\ d \in drives
    BY <1>3 DEF Request, IInv, OnlyMadeDrives
  <1>5. g \in [Drives -> Held] /\ \A c \in Drives : g[c] # "none" => c \in drives
    BY <1>4, InputRolesHeld DEF NoGrants, Held
  <1> HIDE DEF d, g
  <1>6. u \in Emails /\ org[u] # "none"
    BY <1>1 DEF IInv, TypeOK, requireOrgMember
  <1>7. /\ drive' \in [Drives -> [Emails -> Held]]
        /\ DriveKeepsAdmin' /\ OutsidersMadeTheDrive' /\ OrgKeepsAdmin'
        /\ \A c \in Drives \ drives', x \in Emails : drive'[c][x] = "none"
    BY <1>1, <1>2, <1>5, <1>6, GrantsKeep
  <1>8. TypeOK'
    BY <1>2, <1>3, <1>7 DEF IInv, TypeOK
  <1>9. OnlyMadeDrives'
    BY <1>2, <1>3, <1>7, MadeDrivesKept DEF IInv, TypeOK, OnlyMadeDrives
  <1> QED
    BY <1>2, <1>7, <1>8, <1>9, SameInvites DEF IInv

(* A drive that u is not alone to administer has another admin. *)
LEMMA AnotherDriveAdmin ==
  ASSUME IInv, NEW u \in Emails, NEW ds, ds \subseteq drives, findSoleAdminDrives(u, ds) = {},
         NEW d \in ds
  PROVE  \E q \in Emails : q # u /\ drive[d][q] = "admin"
  <1>1. DriveAdmins(d) # {u} /\ DriveAdmins(d) # {}
    BY DEF findSoleAdminDrives, IInv, DriveKeepsAdmin
  <1> QED
    BY <1>1 DEF DriveAdmins

(* The role of one account on one drive changes, of an admin only if another *)
(* is left.                                                                  *)
LEMMA DriveRoleKeeps ==
  ASSUME IInv, NEW d \in drives, NEW u \in Emails, NEW rl \in Held,
         drive[d][u] # "none", drive' = [drive EXCEPT ![d][u] = rl],
         drive[d][u] = "admin" /\ rl # "admin" => findSoleAdminDrives(u, {d}) = {},
         UNCHANGED <<org, drives, late>>
  PROVE  /\ drive' \in [Drives -> [Emails -> Held]]
         /\ DriveKeepsAdmin' /\ OutsidersMadeTheDrive' /\ OrgKeepsAdmin'
         /\ \A c \in Drives \ drives', x \in Emails : drive'[c][x] = "none"
  <1>1. /\ d \in Drives /\ drives \subseteq Drives /\ drive' \in [Drives -> [Emails -> Held]]
        /\ \A c \in Drives, e \in Emails :
             drive'[c][e] = IF c = d /\ e = u THEN rl ELSE drive[c][e]
    BY DEF IInv, TypeOK
  <1>2. DriveKeepsAdmin'
    <2> SUFFICES ASSUME NEW c \in drives PROVE \E q \in Emails : drive'[c][q] = "admin"
      BY DEF DriveKeepsAdmin, DriveAdmins
    <2>1. CASE c = d /\ drive[d][u] = "admin" /\ rl # "admin"
      <3>1. \E q \in Emails : q # u /\ drive[d][q] = "admin"
        BY <2>1, AnotherDriveAdmin
      <3> QED
        BY <1>1, <2>1, <3>1
    <2>2. CASE ~(c = d /\ drive[d][u] = "admin" /\ rl # "admin")
      BY <1>1, <2>2 DEF IInv, DriveKeepsAdmin, DriveAdmins
    <2> QED
      BY <2>1, <2>2
  <1>3. OutsidersMadeTheDrive'
    BY <1>1 DEF IInv, OutsidersMadeTheDrive, resolveContext
  <1>4. OrgKeepsAdmin'
    BY DEF IInv, OrgKeepsAdmin, OrgAdmins
  <1>5. \A c \in Drives \ drives', x \in Emails : drive'[c][x] = "none"
    BY <1>1 DEF IInv, OnlyMadeDrives
  <1> QED
    BY <1>1, <1>2, <1>3, <1>4, <1>5

LEMMA UpdateDriveMemberRoleKeeps ==
  ASSUME IInv, calls' \in 0..MaxCalls, NEW r \in Requests, NEW u \in Emails, NEW rl \in InputRoles,
         updateDriveMemberRole(r, u, rl)
  PROVE  IInv'
  <1>1. /\ req' \in [Requests -> Request]
        /\ req[r] \in Request /\ req[r].op = "updateDriveRole"
        /\ \A q \in Requests : req'[q] = req[q] \/ req'[q] = Idle
    BY ResumeKeeps DEF updateDriveMemberRole
  <1>2. UNCHANGED <<registered, org, drives, invites, primary, keys, late>>
    BY DEF updateDriveMemberRole
  <1>3. req[r].drive \in drives
    BY <1>1 DEF IInv, OnlyMadeDrives
  <1>4. /\ drive' \in [Drives -> [Emails -> Held]]
        /\ DriveKeepsAdmin' /\ OutsidersMadeTheDrive' /\ OrgKeepsAdmin'
        /\ \A c \in Drives \ drives', x \in Emails : drive'[c][x] = "none"
    BY <1>3, DriveRoleKeeps, InputRolesHeld DEF updateDriveMemberRole
  <1>5. TypeOK'
    BY <1>1, <1>2, <1>4 DEF IInv, TypeOK
  <1>6. OnlyMadeDrives'
    BY <1>1, <1>2, <1>4, MadeDrivesKept DEF IInv, TypeOK, OnlyMadeDrives
  <1> QED
    BY <1>2, <1>4, <1>5, <1>6, SameInvites DEF IInv

LEMMA RemoveDriveMemberKeeps ==
  ASSUME IInv, calls' \in 0..MaxCalls, NEW a \in Emails, NEW d \in Drives, NEW u \in Emails,
         removeDriveMember(a, d, u)
  PROVE  IInv'
  <1>1. UNCHANGED <<registered, org, drives, invites, primary, keys, req, late>>
    BY DEF removeDriveMember
  <1>2. d \in drives /\ "none" \in Held
    BY DEF removeDriveMember, requireDriveAdmin, Held
  <1>3. /\ drive' \in [Drives -> [Emails -> Held]]
        /\ DriveKeepsAdmin' /\ OutsidersMadeTheDrive' /\ OrgKeepsAdmin'
        /\ \A c \in Drives \ drives', x \in Emails : drive'[c][x] = "none"
    BY <1>2, DriveRoleKeeps DEF removeDriveMember
  <1>4. TypeOK'
    BY <1>1, <1>3 DEF IInv, TypeOK
  <1>5. OnlyMadeDrives'
    BY <1>1, <1>3, MadeDrivesKept DEF IInv, TypeOK, OnlyMadeDrives
  <1> QED
    BY <1>1, <1>3, <1>4, <1>5, SameInvites DEF IInv

(* The last admin of the organization keeps the role. *)
LEMMA OrgRoleKeepsAdmin ==
  ASSUME IInv, NEW u \in Emails, NEW rl \in Held, AdminRemains(u, rl), org' = [org EXCEPT ![u] = rl]
  PROVE  OrgKeepsAdmin' /\ org' \in [Emails -> Held]
  <1>1. org' \in [Emails -> Held] /\ \A e \in Emails : org'[e] = IF e = u THEN rl ELSE org[e]
    BY DEF IInv, TypeOK
  <1>2. CASE org[u] = "admin" /\ rl # "admin"
    BY <1>1, <1>2, AnotherAdmin DEF OrgKeepsAdmin, OrgAdmins
  <1>3. CASE ~(org[u] = "admin" /\ rl # "admin")
    BY <1>1, <1>3 DEF IInv, OrgKeepsAdmin, OrgAdmins
  <1> QED
    BY <1>1, <1>2, <1>3

LEMMA UpdateOrgMemberRoleKeeps ==
  ASSUME IInv, calls' \in 0..MaxCalls, NEW r \in Requests, NEW u \in Emails, NEW rl \in InputRoles,
         updateOrgMemberRole(r, u, rl)
  PROVE  IInv'
  <1>1. /\ req' \in [Requests -> Request]
        /\ \A q \in Requests : req'[q] = req[q] \/ req'[q] = Idle
    BY ResumeKeeps DEF updateOrgMemberRole
  <1>2. /\ UNCHANGED <<registered, drives, drive, invites, primary, late>>
        /\ org' = [org EXCEPT ![u] = rl] /\ AdminRemains(u, rl) /\ org[u] # "none"
    BY DEF updateOrgMemberRole, requireOrgMember
  <1>3. rl \in Roles /\ rl \in Held /\ rl # "none"
    BY InputRolesHeld DEF Roles
  <1>4. OrgKeepsAdmin' /\ org' \in [Emails -> Held]
    BY <1>2, <1>3, OrgRoleKeepsAdmin
  <1>5. keys' \in [Keys -> Key]
    BY RevokedKeys DEF updateOrgMemberRole, IInv, TypeOK
  <1>6. TypeOK'
    BY <1>1, <1>2, <1>4, <1>5 DEF IInv, TypeOK
  <1>7. DriveKeepsAdmin'
    BY <1>2 DEF IInv, DriveKeepsAdmin, DriveAdmins
  <1>8. OutsidersMadeTheDrive'
    BY <1>2, <1>3 DEF IInv, TypeOK, OutsidersMadeTheDrive, resolveContext
  <1>9. OnlyMadeDrives'
    BY <1>1, <1>2, MadeDrivesKept DEF IInv, TypeOK, OnlyMadeDrives
  <1> QED
    BY <1>2, <1>4, <1>6, <1>7, <1>8, <1>9, SameInvites DEF IInv

(* Who leaves the organization leaves its drives in the same step. *)
LEMMA RemoveOrgMemberKeeps ==
  ASSUME IInv, calls' \in 0..MaxCalls, NEW a \in Emails, NEW u \in Emails, removeOrgMember(a, u)
  PROVE  IInv'
  <1>1. /\ UNCHANGED <<registered, drives, invites, primary, req>>
        /\ late' = [d \in Drives |-> IF late[d] = u THEN None ELSE late[d]]
        /\ org' = [org EXCEPT ![u] = "none"] /\ AdminRemains(u, "none")
        /\ findSoleAdminDrives(u, drives) = {}
    BY DEF removeOrgMember
  <1>2. "none" \in Held
    BY DEF Held
  <1>3. /\ drives \subseteq Drives /\ drive' \in [Drives -> [Emails -> Held]]
        /\ \A d \in Drives, e \in Emails :
             drive'[d][e] = IF d \in drives /\ e = u THEN "none" ELSE drive[d][e]
    BY <1>2 DEF IInv, TypeOK, removeOrgMember, Cascade
  <1>4. OrgKeepsAdmin' /\ org' \in [Emails -> Held]
    BY <1>1, <1>2, OrgRoleKeepsAdmin
  <1>5. keys' \in [Keys -> Key]
    BY RevokedKeys DEF removeOrgMember, IInv, TypeOK
  <1>6. TypeOK'
    BY <1>1, <1>3, <1>4, <1>5 DEF IInv, TypeOK
  <1>7. DriveKeepsAdmin'
    <2> SUFFICES ASSUME NEW d \in drives PROVE \E q \in Emails : drive'[d][q] = "admin"
      BY <1>1 DEF DriveKeepsAdmin, DriveAdmins
    <2>1. \E q \in Emails : q # u /\ drive[d][q] = "admin"
      BY <1>1, AnotherDriveAdmin
    <2> QED
      BY <1>3, <2>1
  <1>8. OutsidersMadeTheDrive'
    BY <1>1, <1>3 DEF IInv, TypeOK, OutsidersMadeTheDrive, resolveContext
  <1>9. OnlyMadeDrives'
    BY <1>1, <1>3, MadeDrivesKept DEF IInv, TypeOK, OnlyMadeDrives
  <1> QED
    BY <1>1, <1>4, <1>6, <1>7, <1>8, <1>9, SameInvites DEF IInv

LEMMA KeysTyped ==
  ASSUME IInv,
         \/ \E r \in Requests, k \in Keys : createUserApiKey(r, k)
         \/ \E u \in Emails : resetApiKey(u) \/ revokeUserApiKey(u)
         \/ \E a, u \in Emails, k \in Keys : resetOrgScopedKey(a, u, k)
  PROVE  keys' \in [Keys -> Key] /\ primary' \in [Emails -> {"none", "live", "revoked"}]
  <1>1. keys \in [Keys -> Key] /\ primary \in [Emails -> {"none", "live", "revoked"}]
    BY DEF IInv, TypeOK
  <1>2. ASSUME NEW r \in Requests, NEW k \in Keys, createUserApiKey(r, k)
        PROVE  keys' \in [Keys -> Key] /\ primary' = primary
    <2>1. req[r].actor \in Emails /\ req[r].target \in Emails
      BY DEF IInv, TypeOK, Request
    <2> QED
      BY <1>1, <1>2, <2>1, MintedKeys DEF createUserApiKey
  <1>3. ASSUME NEW u \in Emails, resetApiKey(u)
        PROVE  keys' \in [Keys -> Key] /\ primary' \in [Emails -> {"none", "live", "revoked"}]
    BY <1>1, <1>3, RevokedKeys DEF resetApiKey
  <1>4. ASSUME NEW u \in Emails, revokeUserApiKey(u)
        PROVE  keys' \in [Keys -> Key] /\ primary' \in [Emails -> {"none", "live", "revoked"}]
    <2>1. ASSUME NEW k \in Keys, keys' = [keys EXCEPT ![k].status = "revoked"]
          PROVE  keys' \in [Keys -> Key]
      BY <1>1, <2>1 DEF Key
    <2> QED
      BY <1>1, <1>4, <2>1 DEF revokeUserApiKey
  <1>5. ASSUME NEW a \in Emails, NEW u \in Emails, NEW k \in Keys, resetOrgScopedKey(a, u, k)
        PROVE  keys' \in [Keys -> Key] /\ primary' = primary
    <2>1. [status |-> "live", user |-> u, by |-> a, scope |-> "org"] \in Key
      BY DEF Key
    <2> QED
      BY <1>1, <1>5, <2>1, RevokedKeys DEF resetOrgScopedKey
  <1> QED
    BY <1>1, <1>2, <1>3, <1>4, <1>5

LEMMA RequestEndKeeps ==
  ASSUME IInv, calls' \in 0..MaxCalls, NEW r \in Requests,
         \/ Refused(r)
         \/ \E k \in Keys : createUserApiKey(r, k)
  PROVE  IInv'
  <1>1. /\ UNCHANGED <<registered, org, drives, drive, invites, primary, late>>
        /\ req' = [req EXCEPT ![r] = Idle]
    BY DEF Refused, createUserApiKey, Resume
  <1>2. keys' \in [Keys -> Key]
    BY KeysTyped DEF IInv, TypeOK, Refused
  <1>3. /\ req' \in [Requests -> Request]
        /\ \A q \in Requests : req'[q] = req[q] \/ req'[q] = Idle
    BY <1>1, IdleTyped DEF IInv, TypeOK
  <1>4. TypeOK'
    BY <1>1, <1>2, <1>3 DEF IInv, TypeOK
  <1>5. OnlyMadeDrives'
    BY <1>1, <1>3, MadeDrivesKept DEF IInv, TypeOK, OnlyMadeDrives
  <1> QED
    BY <1>1, <1>4, <1>5, SameDrives, SameInvites DEF IInv

LEMMA InviteEndKeeps ==
  ASSUME IInv, calls' \in 0..MaxCalls, NEW i \in Invites,
         Expire(i) \/ \E a \in Emails : revokeInvite(a, i)
  PROVE  IInv'
  <1>1. UNCHANGED <<registered, org, drives, drive, primary, keys, req, late>>
    BY DEF Expire, revokeInvite
  <1>2. /\ invites' \in [Invites -> Invite]
        /\ \A j \in Invites : /\ invites'[j].email = invites[j].email
                              /\ invites'[j].grants = invites[j].grants
                              /\ invites'[j].status = "open" => invites[j].status = "open"
    <2>1. ASSUME Expire(i) PROVE invites' = [invites EXCEPT ![i].expired = "yes"]
      BY <2>1 DEF Expire
    <2>2. ASSUME NEW a \in Emails, revokeInvite(a, i)
          PROVE  invites' = [invites EXCEPT ![i].status = "revoked"]
      BY <2>2 DEF revokeInvite
    <2>3. CASE invites' = [invites EXCEPT ![i].expired = "yes"]
      BY <2>3 DEF IInv, TypeOK, Invite
    <2>4. CASE invites' = [invites EXCEPT ![i].status = "revoked"]
      BY <2>4 DEF IInv, TypeOK, Invite
    <2> QED
      BY <2>1, <2>2, <2>3, <2>4
  <1>3. TypeOK'
    BY <1>1, <1>2 DEF IInv, TypeOK
  <1>4. OnlyMadeDrives'
    BY <1>1, <1>2, MadeDrivesKept DEF IInv, TypeOK, OnlyMadeDrives
  <1> QED
    BY <1>1, <1>2, <1>3, <1>4, SameDrives, FewerInvites DEF IInv

LEMMA PerformKeeps == ASSUME IInv, calls' \in 0..MaxCalls, Perform PROVE IInv'
  BY CreateDriveKeeps, RequestEndKeeps, UpdateOrgMemberRoleKeeps, AddDriveMemberKeeps,
     UpdateDriveMemberRoleKeeps, InviteToOrgKeeps, CreatePendingInviteKeeps DEF Perform

LEMMA DirectKeeps == ASSUME IInv, calls' \in 0..MaxCalls, Direct PROVE IInv'
  <1>1. PICK a \in registered :
          \/ resetApiKey(a) \/ revokeUserApiKey(a)
          \/ \E i \in Invites : revokeInvite(a, i) \/ acceptInvite(a, i)
          \/ \E u \in Emails : \/ removeOrgMember(a, u)
                               \/ \E d \in Drives : removeDriveMember(a, d, u)
                               \/ \E k \in Keys : resetOrgScopedKey(a, u, k)
    BY DEF Direct
  <1>2. a \in Emails /\ registered \subseteq Emails
    BY DEF IInv, TypeOK
  <1>3. CASE \/ resetApiKey(a) \/ revokeUserApiKey(a)
             \/ \E u \in Emails, k \in Keys : resetOrgScopedKey(a, u, k)
    <2>1. keys' \in [Keys -> Key] /\ primary' \in [Emails -> {"none", "live", "revoked"}]
      BY <1>2, <1>3, KeysTyped
    <2>2. UNCHANGED <<registered, org, drives, drive, invites, req, late>>
      BY <1>3 DEF resetApiKey, revokeUserApiKey, resetOrgScopedKey
    <2> QED
      BY <1>2, <2>1, <2>2, AccountsKeep
  <1>4. CASE \E i \in Invites : revokeInvite(a, i) \/ acceptInvite(a, i)
    BY <1>2, <1>4, InviteEndKeeps, AcceptInviteKeeps
  <1>5. CASE \E u \in Emails : removeOrgMember(a, u) \/ \E d \in Drives : removeDriveMember(a, d, u)
    BY <1>2, <1>5, RemoveOrgMemberKeeps, RemoveDriveMemberKeeps
  <1> QED
    BY <1>1, <1>3, <1>4, <1>5

LEMMA NextKeeps == ASSUME IInv, [Next]_vars PROVE IInv'
  <1>1. CASE Next
    <2>1. calls' \in 0..MaxCalls
      BY <1>1, CallsAssumption DEF Next, IInv, TypeOK
    <2> QED
      BY <1>1, <2>1, AuthorizeKeeps, DirectKeeps, PerformKeeps, CreateUserKeeps, InviteEndKeeps DEF Next
  <1>2. CASE UNCHANGED vars
    <2>1. TypeOK'
      BY <1>2 DEF IInv, TypeOK, vars
    <2>2. OnlyMadeDrives'
      BY <1>2 DEF IInv, OnlyMadeDrives, vars
    <2> QED
      BY <1>2, <2>1, <2>2, SameDrives, SameInvites DEF IInv, vars
  <1> QED
    BY <1>1, <1>2

(* The inductive invariant holds of every behaviour of the organization's    *)
(* routes, the type invariant with it.                                       *)
THEOREM InvariantHolds == Spec => []IInv
  BY InitHolds, NextKeeps, PTL DEF Spec

(* However demotions, removals, late requests and raise-only grants follow   *)
(* each other, every drive keeps an explicit admin (drives.ts:220).          *)
THEOREM DrivesKeepAdmins == Spec => []DriveKeepsAdmin
  <1>1. IInv => DriveKeepsAdmin
    BY DEF IInv
  <1> QED
    BY <1>1, InvariantHolds, PTL

(* Who is not in the organization is on none of its drives, except the maker *)
(* of a drive whose creation was in flight at their removal.                 *)
THEOREM RemovalEndsAccess == Spec => []OutsidersMadeTheDrive
  <1>1. IInv => OutsidersMadeTheDrive
    BY DEF IInv
  <1> QED
    BY <1>1, InvariantHolds, PTL

(* No call ever trips over org_invites_open_email_uq: an address has at most *)
(* one open invite, and invites hold normalized addresses (db/raw.ts:31).    *)
THEOREM OneInviteAnAddress == Spec => []OneOpenInvite
  <1>1. IInv => OneOpenInvite
    BY DEF IInv
  <1> QED
    BY <1>1, InvariantHolds, PTL
-----------------------------------------------------------------------------
(* What backs the org-scoped keys. *)

(* Whatever is done, a key stays with its holder and its minter. *)
LEMMA LiveKeysStay ==
  ASSUME IInv, [Next]_vars, NEW k \in Keys, keys[k].status = "live", keys'[k].status = "live"
  PROVE  keys'[k].user = keys[k].user /\ keys'[k].by = keys[k].by
  <1>1. keys \in [Keys -> Key] /\ registered \subseteq Emails
    BY DEF IInv, TypeOK
  <1>2. CASE UNCHANGED keys
    BY <1>2
  <1>3. CASE \E lost : keys' = revokeGrantedKeys(lost)
    BY <1>1, <1>3, RevokedKeys
  <1>4. ASSUME NEW r \in Requests, NEW j \in Keys, createUserApiKey(r, j)
        PROVE  keys'[k] = keys[k]
    <2>1. req[r].actor \in Emails /\ req[r].target \in Emails
      BY DEF IInv, TypeOK, Request
    <2> QED
      BY <1>1, <1>4, <2>1, MintedKeys DEF createUserApiKey
  <1>5. ASSUME NEW u \in registered, revokeUserApiKey(u)
        PROVE  keys'[k].user = keys[k].user /\ keys'[k].by = keys[k].by
    BY <1>1, <1>5 DEF revokeUserApiKey, Key
  <1>6. ASSUME NEW a \in registered, NEW u \in Emails, NEW j \in Keys, resetOrgScopedKey(a, u, j)
        PROVE  keys'[k].user = keys[k].user /\ keys'[k].by = keys[k].by
    <2>1. j # k /\ keys'[k] = revokeGrantedKeys(selfReset(u))[k]
      BY <1>1, <1>6, RevokedKeys DEF resetOrgScopedKey
    <2> QED
      BY <1>1, <2>1, RevokedKeys
  <1>7. ASSUME NEW u \in registered, resetApiKey(u) PROVE \E lost : keys' = revokeGrantedKeys(lost)
    BY <1>7 DEF resetApiKey
  <1>8. ASSUME NEW a \in registered, NEW u \in Emails, removeOrgMember(a, u)
        PROVE  \E lost : keys' = revokeGrantedKeys(lost)
    BY <1>8 DEF removeOrgMember
  <1>9. ASSUME NEW r \in Requests, NEW u \in Emails, NEW rl \in InputRoles, updateOrgMemberRole(r, u, rl)
        PROVE  (\E lost : keys' = revokeGrantedKeys(lost)) \/ UNCHANGED keys
    BY <1>9 DEF updateOrgMemberRole
  <1>10. CASE Authorize \/ \E e \in Emails : createUser(e)
    BY <1>2, <1>10 DEF Authorize, AuthorizeAdmin, AuthorizeOwnKey, AuthorizeOrgKey, AuthorizeDrive, Await, createUser
  <1>11. CASE Perform
    <2>1. ASSUME NEW r \in Requests, NEW u \in Emails, NEW rl \in InputRoles,
                 \/ addDriveMember(r, u, rl) \/ updateDriveMemberRole(r, u, rl)
                 \/ \E g \in resolveInviteGrants(rl) :
                      \/ inviteToOrg(r, u, rl, g)
                      \/ \E i \in Invites : createPendingInvite(r, i, u, rl, g)
          PROVE  UNCHANGED keys
      BY <2>1 DEF addDriveMember, updateDriveMemberRole, inviteToOrg, createPendingInvite
    <2>2. ASSUME NEW r \in Requests, Refused(r) \/ \E d \in Drives : createDrive(r, d) PROVE UNCHANGED keys
      BY <2>2 DEF createDrive, Refused
    <2> QED
      BY <1>2, <1>3, <1>4, <1>9, <1>11, <2>1, <2>2 DEF Perform
  <1>12. CASE Direct
    BY <1>2, <1>3, <1>5, <1>6, <1>7, <1>8, <1>12 DEF Direct, revokeInvite, acceptInvite, removeDriveMember
  <1> QED
    BY <1>2, <1>10, <1>11, <1>12 DEF Next, Expire, vars

(* The steps that may lower a role in the organization; all others raise     *)
(* roles or leave them.                                                      *)
LEMMA WhoLowersRoles ==
  ASSUME IInv, [Next]_vars
  PROVE  \/ \A e \in Emails : /\ org[e] # "none" => org'[e] # "none"
                              /\ org[e] = "admin" => org'[e] = "admin"
         \/ \E r \in Requests, u \in Emails, rl \in InputRoles : updateOrgMemberRole(r, u, rl)
         \/ \E a, u \in Emails : removeOrgMember(a, u)
  <1> DEFINE Raised == \A e \in Emails : /\ org[e] # "none" => org'[e] # "none"
                                         /\ org[e] = "admin" => org'[e] = "admin"
  <1>1. registered \subseteq Emails /\ org \in [Emails -> Held] /\ "none" \notin Roles
    BY DEF IInv, TypeOK, Roles
  <1>2. ASSUME NEW u \in Emails, NEW rl \in Roles, grantOrgRole(u, rl) PROVE Raised
    BY <1>1, <1>2, GrantOrgRole
  <1>3. ASSUME UNCHANGED org PROVE Raised
    BY <1>3
  <1> HIDE DEF Raised
  <1>4. ASSUME NEW r \in Requests, NEW e \in Emails, NEW rl \in InputRoles, NEW g, inviteToOrg(r, e, rl, g)
        PROVE  Raised
    BY <1>1, <1>2, <1>4, InputRolesHeld DEF inviteToOrg
  <1>5. ASSUME NEW u \in registered, NEW i \in Invites, acceptInvite(u, i) PROVE Raised
    <2>1. invites[i].role \in Roles
      BY DEF IInv, TypeOK, Invite
    <2> QED
      BY <1>1, <1>2, <1>5, <2>1 DEF acceptInvite
  <1>6. ASSUME Authorize \/ \E e \in Emails : createUser(e) PROVE UNCHANGED org
    BY <1>6 DEF Authorize, AuthorizeAdmin, AuthorizeOwnKey, AuthorizeOrgKey, AuthorizeDrive, Await, createUser
  <1>7. ASSUME Perform
        PROVE  Raised \/ \E r \in Requests, u \in Emails, rl \in InputRoles : updateOrgMemberRole(r, u, rl)
    <2>1. ASSUME NEW r \in Requests, \/ Refused(r)
                                     \/ \E d \in Drives : createDrive(r, d)
                                     \/ \E k \in Keys : createUserApiKey(r, k)
          PROVE  UNCHANGED org
      BY <2>1 DEF createDrive, createUserApiKey, Refused
    <2>2. ASSUME NEW r \in Requests, NEW u \in Emails, NEW rl \in InputRoles,
                 \/ addDriveMember(r, u, rl) \/ updateDriveMemberRole(r, u, rl)
                 \/ \E g, i : createPendingInvite(r, i, u, rl, g)
          PROVE  UNCHANGED org
      BY <2>2 DEF addDriveMember, updateDriveMemberRole, createPendingInvite
    <2> QED
      BY <1>3, <1>4, <1>7, <2>1, <2>2 DEF Perform
  <1>8. ASSUME Direct PROVE Raised \/ \E a, u \in Emails : removeOrgMember(a, u)
    BY <1>1, <1>3, <1>5, <1>8 DEF Direct, resetApiKey, revokeUserApiKey, revokeInvite, removeDriveMember,
       resetOrgScopedKey
  <1>9. ASSUME UNCHANGED vars \/ \E i \in Invites : Expire(i) PROVE UNCHANGED org
    BY <1>9 DEF vars, Expire
  <1> QED
    BY <1>3, <1>6, <1>7, <1>8, <1>9 DEF Next, Raised

LEMMA KeyBacked ==
  ASSUME IInv, [Next]_vars, NEW k \in Keys, keys[k].status = "live", keys[k].scope = "org", Backed(k),
         keys'[k].status = "live"
  PROVE  Backed(k)'
  <1> DEFINE h == keys[k].user
             m == keys[k].by
  <1>1. keys'[k].user = h /\ keys'[k].by = m
    BY LiveKeysStay
  <1>2. h \in Emails /\ m \in Emails /\ keys \in [Keys -> Key] /\ org \in [Emails -> Held]
    BY DEF IInv, TypeOK, Key
  <1>3. org[h] # "none" /\ (m = h \/ org[m] = "admin")
    BY DEF Backed
  <1>4. SUFFICES org'[h] # "none" /\ (m = h \/ org'[m] = "admin")
    BY <1>1 DEF Backed
  <1>5. ASSUME NEW r \in Requests, NEW u \in Emails, NEW rl \in InputRoles, updateOrgMemberRole(r, u, rl)
        PROVE  org'[h] # "none" /\ (m = h \/ org'[m] = "admin")
    <2>1. \A e \in Emails : org'[e] = IF e = u THEN rl ELSE org[e]
      BY <1>2, <1>5 DEF updateOrgMemberRole
    <2>2. rl # "none"
      BY RolesAssumption
    <2>3. CASE org[u] = "admin" /\ rl # "admin" /\ m = u
      <3>1. k \notin adminDemoted(u)
        BY <1>2, <1>5, <2>3, RevokedKeys DEF updateOrgMemberRole
      <3> QED
        BY <1>2, <1>3, <2>1, <2>2, <2>3, <3>1 DEF adminDemoted
    <2>4. CASE ~(org[u] = "admin" /\ rl # "admin" /\ m = u)
      BY <1>2, <1>3, <2>1, <2>2, <2>4
    <2> QED
      BY <2>3, <2>4
  <1>6. ASSUME NEW a \in Emails, NEW u \in Emails, removeOrgMember(a, u)
        PROVE  org'[h] # "none" /\ (m = h \/ org'[m] = "admin")
    <2>1. k \notin memberLeftOrg(u)
      BY <1>2, <1>6, RevokedKeys DEF removeOrgMember
    <2>2. \A e \in Emails : org'[e] = IF e = u THEN "none" ELSE org[e]
      BY <1>2, <1>6 DEF removeOrgMember
    <2> QED
      BY <1>2, <1>3, <2>1, <2>2 DEF memberLeftOrg
  <1> QED
    BY <1>2, <1>3, <1>5, <1>6, WhoLowersRoles

(* No step takes away the membership or the admin role that backs a live     *)
(* org-scoped key and leaves the key (api-keys.ts, revokeGrantedKeys).       *)
THEOREM LossRevokesKeys == Spec => GrantLossRevokesKeys
  <1>1. ASSUME IInv, [Next]_vars
        PROVE  [\A k \in Keys :
                  /\ keys[k].status = "live" /\ keys[k].scope = "org" /\ Backed(k)
                  /\ keys'[k].status = "live"
                  => Backed(k)']_vars
    BY <1>1, KeyBacked
  <1> QED
    BY <1>1, InvariantHolds, PTL DEF Spec, GrantLossRevokesKeys
-----------------------------------------------------------------------------
(* The organization implements OrgMembership. *)

LEMMA OpenAddress ==
  \A e : e \in Invited <=> \E i \in Invites : invites[i].status = "open" /\ invites[i].email = e
  BY DEF Invited

LEMMA OpenAddressAfter ==
  \A e : e \in Invited' <=> \E i \in Invites : invites'[i].status = "open" /\ invites'[i].email = e
  BY DEF Invited

(* An open invite that ends takes its address out: there was one only. *)
LEMMA InviteEnded ==
  ASSUME IInv, NEW i \in Invites, NEW st, st # "open", invites[i].status = "open",
         invites' = [invites EXCEPT ![i].status = st]
  PROVE  Invited' = Invited \ {invites[i].email}
  <1>1. invites \in [Invites -> Invite]
    BY DEF IInv, TypeOK
  <1>2. \A j \in Invites : /\ invites'[j].email = invites[j].email
                           /\ invites'[j].status = IF j = i THEN st ELSE invites[j].status
    BY <1>1 DEF Invite
  <1> QED
    BY <1>2, OpenAddress, OpenAddressAfter DEF IInv, OneOpenInvite

(* A grant to a member is a step that raises one role. *)
LEMMA GrantRaises ==
  ASSUME IInv, NEW u \in Emails, NEW rl \in Roles, org[u] # "none", grantOrgRole(u, rl),
         Invited' \in {Invited, Invited \ {Lower[u]}}
  PROVE  Membership!Next
  <1>1. org \in [Emails -> Held]
    BY DEF IInv, TypeOK
  <1> DEFINE x == higherRole(org[u], rl)
  <1>2. x \in Roles /\ Level[org[u]] <= Level[x]
    BY <1>1, HigherRole
  <1>3. org' = [org EXCEPT ![u] = x]
    BY <1>1 DEF grantOrgRole
  <1> HIDE DEF x
  <1>4. Membership!Raise(u, x)
    BY <1>2, <1>3 DEF Membership!Raise, Membership!Level, Level
  <1> QED
    BY <1>2, <1>4 DEF Membership!Next, Membership!Roles, Roles

LEMMA CreatePendingInviteRefines ==
  ASSUME IInv, NEW r \in Requests, NEW i \in Invites, NEW e \in Emails, NEW rl \in InputRoles,
         NEW g \in resolveInviteGrants(rl), createPendingInvite(r, i, e, rl, g)
  PROVE  Membership!Next
  <1>1. /\ rl \in Roles /\ g \in [Drives -> Held] /\ invites \in [Invites -> Invite]
        /\ invites[i].status = "unused" /\ invites' = Replaced(i, e, rl, g) /\ UNCHANGED org
    BY InputRolesHeld, GrantsTyped DEF IInv, TypeOK, createPendingInvite
  <1>2. /\ invites'[i].email = Lower[e] /\ invites'[i].status = "open"
        /\ \A j \in Invites \ {i} : invites'[j] = revokeOpenInviteForEmail(e)[j]
    BY <1>1, ReplacedInvites
  <1>3. \A j \in Invites \ {i} : /\ invites'[j].email = invites[j].email
                                 /\ invites'[j].status = "open"
                                      <=> invites[j].status = "open" /\ invites[j].email # Lower[e]
    BY <1>1, <1>2, RevokedInvites
  <1>4. Invited' = Invited \cup {Lower[e]}
    BY <1>1, <1>2, <1>3, OpenAddress, OpenAddressAfter
  <1> QED
    BY <1>1, <1>4 DEF Membership!Next, Membership!Invite

LEMMA InviteToOrgRefines ==
  ASSUME IInv, NEW r \in Requests, NEW e \in Emails, NEW rl \in InputRoles, NEW g, inviteToOrg(r, e, rl, g)
  PROVE  Membership!Next
  <1>1. PICK u \in registered : /\ requireOrgMember(u) /\ grantOrgRole(u, rl)
                                /\ invites' = revokeOpenInviteForEmail(u)
    BY DEF inviteToOrg
  <1>2. u \in Emails /\ rl \in Roles /\ invites \in [Invites -> Invite]
    BY InputRolesHeld DEF IInv, TypeOK
  <1>3. \A j \in Invites : /\ invites'[j].email = invites[j].email
                           /\ invites'[j].status = "open"
                                <=> invites[j].status = "open" /\ invites[j].email # Lower[u]
    BY <1>1, <1>2, RevokedInvites
  <1>4. Invited' = Invited \ {Lower[u]}
    BY <1>3, OpenAddress, OpenAddressAfter
  <1> QED
    BY <1>1, <1>2, <1>4, GrantRaises DEF requireOrgMember

(* Who holds an open invite joins with its role, once. *)
LEMMA AcceptInviteRefines ==
  ASSUME IInv, NEW u \in Emails, NEW i \in Invites, acceptInvite(u, i)
  PROVE  Membership!Next
  <1> DEFINE rl == invites[i].role
  <1>1. /\ invites[i] \in Invite /\ registered \subseteq Emails /\ org \in [Emails -> Held]
        /\ Lower[invites[i].email] = invites[i].email
    BY DEF IInv, TypeOK, OneOpenInvite
  <1>2. /\ invites[i].status = "open" /\ resolveUserByEmail(invites[i].email) = {u}
        /\ invites' = [invites EXCEPT ![i].status = "accepted"] /\ grantOrgRole(u, rl)
    BY DEF acceptInvite
  <1>3. invites[i].email \in Emails /\ rl \in Roles
    BY <1>1 DEF Invite
  <1>4. Lower[u] = invites[i].email
    BY <1>1, <1>2, <1>3, ResolvedAlias
  <1>5. Invited' = Invited \ {Lower[u]} /\ Lower[u] \in Invited
    BY <1>2, <1>4, InviteEnded, OpenAddress
  <1> HIDE DEF rl
  <1>6. CASE org[u] # "none"
    BY <1>2, <1>3, <1>5, <1>6, GrantRaises
  <1>7. CASE org[u] = "none"
    <2>1. higherRole("none", rl) = rl
      BY <1>3 DEF higherRole, Level, Roles
    <2>2. org' = [org EXCEPT ![u] = rl]
      BY <1>1, <1>2, <1>7, <2>1 DEF grantOrgRole
    <2>3. Membership!Join(u, rl)
      BY <1>5, <1>7, <2>2 DEF Membership!Join
    <2> QED
      BY <1>3, <2>3 DEF Membership!Next, Membership!Roles, Roles
  <1> QED
    BY <1>6, <1>7

(* A decision about one role, which leaves an admin, raises or demotes.      *)
LEMMA RoleDecided ==
  ASSUME IInv, NEW u \in Emails, NEW rl \in Held, org[u] # "none", AdminRemains(u, rl),
         org' = [org EXCEPT ![u] = rl], UNCHANGED invites
  PROVE  Membership!Next
  <1>1. org[u] \in Roles /\ Invited' = Invited
    BY DEF IInv, TypeOK, Held, Invited
  <1>2. CASE Level[org[u]] <= Level[rl]
    <2>1. rl \in Roles
      BY <1>1, <1>2 DEF Level, Held, Roles
    <2>2. Membership!Raise(u, rl)
      BY <1>1, <1>2 DEF Membership!Raise, Membership!Level, Level
    <2> QED
      BY <2>1, <2>2 DEF Membership!Next, Membership!Roles, Roles
  <1>3. CASE Level[rl] < Level[org[u]]
    <2>1. rl # "admin"
      BY <1>1, <1>3 DEF Level, Roles
    <2>2. \E q \in Emails : org[q] = "admin" /\ (q = u => org[u] # "admin")
      <3>1. CASE org[u] = "admin"
        BY <2>1, <3>1, AnotherAdmin
      <3>2. CASE org[u] # "admin"
        BY <3>2 DEF IInv, OrgKeepsAdmin, OrgAdmins
      <3> QED
        BY <3>1, <3>2
    <2>3. Membership!Demote(u, rl)
      BY <1>1, <1>3, <2>2 DEF Membership!Demote, Membership!Level, Level
    <2> QED
      BY <2>3 DEF Membership!Next, Membership!Roles, Held, Roles
  <1>4. Level[org[u]] \in Nat /\ Level[rl] \in Nat
    BY <1>1 DEF Level, Held, Roles
  <1> QED
    BY <1>2, <1>3, <1>4

LEMMA NextRefines == ASSUME IInv, [Next]_vars PROVE [Membership!Next]_<<org, Invited>>
  <1>1. registered \subseteq Emails
    BY DEF IInv, TypeOK
  <1>2. ASSUME UNCHANGED <<org, invites>> PROVE UNCHANGED <<org, Invited>>
    BY <1>2 DEF Invited
  <1>3. ASSUME NEW i \in Invites, Expire(i) PROVE UNCHANGED <<org, Invited>>
    <2>1. \A j \in Invites : /\ invites'[j].email = invites[j].email
                             /\ invites'[j].status = invites[j].status
      BY <1>3 DEF Expire, IInv, TypeOK, Invite
    <2>2. Invited' = Invited
      BY <2>1 DEF Invited
    <2> QED
      BY <1>3, <2>1, <2>2 DEF Expire
  <1>4. ASSUME NEW a \in registered, NEW i \in Invites, revokeInvite(a, i) PROVE Membership!Next
    <2>1. Invited' = Invited \ {invites[i].email} /\ UNCHANGED org
      BY <1>4, InviteEnded DEF revokeInvite
    <2>2. invites[i].email \in Emails /\ Lower[invites[i].email] = invites[i].email
      BY DEF IInv, TypeOK, Invite, OneOpenInvite
    <2> QED
      BY <2>1, <2>2 DEF Membership!Next, Membership!Withdraw
  <1>5. ASSUME NEW r \in Requests, NEW u \in Emails, NEW rl \in InputRoles, updateOrgMemberRole(r, u, rl)
        PROVE  Membership!Next
    BY <1>5, RoleDecided, InputRolesHeld DEF updateOrgMemberRole, requireOrgMember
  <1>6. ASSUME NEW a \in registered, NEW u \in Emails, removeOrgMember(a, u) PROVE Membership!Next
    BY <1>6, RoleDecided DEF removeOrgMember, requireOrgMember, Held
  <1>7. CASE Authorize \/ (\E e \in Emails : createUser(e)) \/ UNCHANGED vars
    BY <1>2, <1>7 DEF Authorize, AuthorizeAdmin, AuthorizeOwnKey, AuthorizeOrgKey, AuthorizeDrive, Await, createUser, vars
  <1>8. CASE Perform
    <2>1. ASSUME NEW r \in Requests, \/ Refused(r)
                                     \/ \E d \in Drives : createDrive(r, d)
                                     \/ \E k \in Keys : createUserApiKey(r, k)
          PROVE  UNCHANGED <<org, invites>>
      BY <2>1 DEF createDrive, createUserApiKey, Refused
    <2>2. ASSUME NEW r \in Requests, NEW u \in Emails, NEW rl \in InputRoles,
                 addDriveMember(r, u, rl) \/ updateDriveMemberRole(r, u, rl)
          PROVE  UNCHANGED <<org, invites>>
      BY <2>2 DEF addDriveMember, updateDriveMemberRole
    <2> QED
      BY <1>2, <1>5, <1>8, <2>1, <2>2, CreatePendingInviteRefines, InviteToOrgRefines DEF Perform
  <1>9. CASE Direct
    <2>1. ASSUME NEW a \in registered,
                 \/ resetApiKey(a) \/ revokeUserApiKey(a)
                 \/ \E u \in Emails : \/ \E d \in Drives : removeDriveMember(a, d, u)
                                      \/ \E k \in Keys : resetOrgScopedKey(a, u, k)
          PROVE  UNCHANGED <<org, invites>>
      BY <2>1 DEF resetApiKey, revokeUserApiKey, removeDriveMember, resetOrgScopedKey
    <2> QED
      BY <1>1, <1>2, <1>4, <1>6, <1>9, <2>1, AcceptInviteRefines DEF Direct
  <1> QED
    BY <1>3, <1>7, <1>8, <1>9 DEF Next

(* Seen through its roles and open addresses, an organization behaves as     *)
(* OrgMembership promises: who joins was invited, an invitation works once,  *)
(* a role falls only by a decision about it, and the last admin stays.       *)
THEOREM MembershipImplemented == Spec => ImplementsMembership
  <1>1. Init => Membership!Init
    <2> SUFFICES ASSUME Init PROVE Membership!Init
      OBVIOUS
    <2>1. Invited = {}
      BY DEF Init, Invited, Unsent
    <2> QED
      BY <2>1 DEF Init, Membership!Init
  <1> QED
    BY <1>1, NextRefines, InvariantHolds, PTL DEF Spec, ImplementsMembership, Membership!Spec
==============================================================================
