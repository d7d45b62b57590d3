------------------------------- MODULE Shares -------------------------------
(* Public links.  Members create and revoke them (core/src/ops/share.ts and   *)
(* share-list.ts); anonymous visitors open the page of a file, fetch its      *)
(* bytes (server/src/routes/share.ts) or browse a shared folder               *)
(* (server/src/routes/site.ts).  A request waits for the object store between *)
(* its checks, while links expire, are used up and are revoked.  Times are    *)
(* ticks, Second of them to a second: the columns hold whole seconds and the  *)
(* code's clock does not.                                                     *)
EXTENDS Integers, FiniteSets

CONSTANTS
    Links,        \* the links that can be made; a link stands for its token
    Paths,        \* what can be shared ...
    Type,         \* ... and how classifyShareFile previews it: embedded, in a frame, as text, not
    Members,      \* the members of the drive
    Admins,       \* those who administer the drive or its org
    Visitors,     \* anonymous requests in progress at one time
    Backends,     \* the storage backends to consider: "s3" can presign, "local" cannot
    Lifetimes,    \* values of expiresIn, in seconds; NoExpiry stands for null
    Limits,       \* values of maxViews
    Second,       \* ticks per second
    GrantTtl,     \* SHARE_VIEW_GRANT_TTL_SECONDS
    EmbedTtl,     \* EMBED_URL_TTL_SECONDS
    DownloadTtl,  \* DOWNLOAD_URL_TTL_SECONDS
    MaxTime,      \* bound: last tick
    MaxRequests   \* bound: requests of visitors

FileTypes == {"embed", "html", "text", "none", "folder"}
Unlimited == 0
NoExpiry == 0
Never == MaxTime + Second * (EmbedTtl + 1)   \* SHARE_NEVER_EXPIRES_AT: beyond every deadline

ASSUME LinksAssumption ==
    /\ Type \in [Paths -> FileTypes]
    /\ Admins \subseteq Members
    /\ Backends \subseteq {"s3", "local"} /\ Backends # {}
    /\ Lifetimes \subseteq Nat /\ Limits \subseteq Nat \ {0}
    /\ Second \in Nat \ {0}
    /\ GrantTtl \in Nat \ {0} /\ EmbedTtl \in Nat \ {0} /\ DownloadTtl \in 1 .. EmbedTtl
    /\ MaxTime \in Nat /\ MaxRequests \in Nat

VARIABLES
    now,       \* the clock
    backend,   \* the storage backend this server was started with
    share,     \* shares: the row of a link
    grants,    \* share_view_grants
    req,       \* per visitor, the request and the await it is at
    requests,  \* requests so far
    minted,    \* history: every grant ever inserted
    released   \* history: what visitors were sent

vars == <<now, backend, share, grants, req, requests, minted, released>>
tables == <<share, grants, minted>>
-----------------------------------------------------------------------------
WholeSeconds(t) == (t \div Second) * Second   \* a timestamp column, and a Date compared with one

NoShare == [kind |-> "none", path |-> "none", expires |-> 0, max |-> Unlimited, views |-> 0,
            by |-> "none", revoked |-> FALSE]

Exists(s) == share[s].kind # "none"
Limited(s) == share[s].max # Unlimited

(* A grant is known by the counted view it was issued with; view 0: none.    *)
Grant(s, n) == [share |-> s, view |-> n]

Idle == [what |-> "none", at |-> "idle", share |-> "none", grant |-> Grant("none", 0),
         signed |-> 0, ttl |-> 0]

Init ==
    /\ now = 0
    /\ backend \in Backends
    /\ share = [s \in Links |-> NoShare]
    /\ grants = {}
    /\ req = [v \in Visitors |-> Idle]
    /\ requests = 0
    /\ minted = {}
    /\ released = {}
-----------------------------------------------------------------------------
Tick ==
    /\ now < MaxTime
    /\ now' = now + 1
    /\ UNCHANGED <<backend, tables, req, requests, released>>
-----------------------------------------------------------------------------
(* Members. *)

Expiry(life) == IF life = NoExpiry THEN Never ELSE WholeSeconds(now) + life * Second

(* share-create of a path that resolvePathKind has found.                    *)
ShareCreate(m, s, p, life, max) ==
    /\ ~Exists(s)
    /\ Type[p] = "folder" => max = Unlimited
    /\ share' = [share EXCEPT ![s] =
                    [kind |-> IF Type[p] = "folder" THEN "site" ELSE "file", path |-> p,
                     expires |-> Expiry(life), max |-> max, views |-> 0, by |-> m,
                     revoked |-> FALSE]]
    /\ UNCHANGED <<now, backend, grants, minted, req, requests, released>>

(* share-revoke by id, by token, or every link of a path; of the rows found  *)
(* only those the caller may revoke, and none of them twice.                 *)
MayRevoke(m, s) == m \in Admins \/ share[s].by = m

Revoke(m, found) ==
    LET allowed == {s \in found : MayRevoke(m, s)} IN
    /\ \E s \in allowed : ~share[s].revoked
    /\ share' = [s \in Links |-> IF s \in allowed THEN [share[s] EXCEPT !.revoked = TRUE]
                                 ELSE share[s]]
    /\ UNCHANGED <<now, backend, grants, minted, req, requests, released>>

ShareRevoke(m) ==
    \/ \E s \in Links : Exists(s) /\ Revoke(m, {s})
    \/ \E p \in Paths : Revoke(m, {s \in Links : Exists(s) /\ share[s].path = p})
-----------------------------------------------------------------------------
(* The guards.  getShareState compares instants, the SQL of consumeShareView *)
(* and of share-list compares whole seconds.                                 *)

getShareState(s) ==
    IF share[s].revoked THEN "revoked"
    ELSE IF share[s].expires <= now THEN "expired"
    ELSE IF Limited(s) /\ share[s].views >= share[s].max THEN "exhausted"
    ELSE "active"

consumeShareView(s) ==
    /\ ~share[s].revoked
    /\ share[s].expires > WholeSeconds(now)
    /\ ~Limited(s) \/ share[s].views < share[s].max

AnyLiveGrant(s, g) ==   \* mutant: the grant's share is not compared
    /\ getShareState(s) \notin {"revoked", "expired"}
    /\ ~Limited(s) \/ \E x \in grants : x.id = g /\ x.expires > WholeSeconds(now)

authorizeShareBytes(s, g) ==
    /\ getShareState(s) \notin {"revoked", "expired"}
    /\ ~Limited(s) \/ \E x \in grants : x.id = g /\ x.id.share = s /\ x.expires > WholeSeconds(now)

Visible(m, s) == m \in Admins \/ share[s].by = m

ListTheEndToo(m) ==   \* mutant: the last instant of a link is listed
    {s \in Links : /\ Exists(s)
                   /\ Visible(m, s)
                   /\ ~share[s].revoked
                   /\ share[s].expires >= WholeSeconds(now)
                   /\ ~Limited(s) \/ share[s].views < share[s].max}

(* shareList with its default filter, in the drive: what a member sees.      *)
shareList(m) ==
    {s \in Links : /\ Exists(s)
                   /\ Visible(m, s)
                   /\ ~share[s].revoked
                   /\ share[s].expires > WholeSeconds(now)
                   /\ ~Limited(s) \/ share[s].views < share[s].max}
-----------------------------------------------------------------------------
(* Presigned URLs. *)

(* Below 1 nothing may be signed. *)
capUrlTtlSeconds(s, cap) ==
    LET remaining == (share[s].expires - now) \div Second IN
    IF remaining < cap THEN remaining ELSE cap

(* The signer stamps the time it was given, or, if it ignores that, its own. *)
Deadlines(v) == {WholeSeconds(t) + req[v].ttl * Second : t \in {req[v].signed, now}}

UrlUnchecked(v, deadline) == TRUE   \* mutant: the deadline is not read back off the URL

(* presignedUrlDeadline, compared with the link before the URL is handed out *)
WithinShare(v, deadline) == deadline <= share[req[v].share].expires
-----------------------------------------------------------------------------
(* Requests of visitors. *)

Request(what, at, s, g) ==
    [what |-> what, at |-> at, share |-> s, grant |-> g, signed |-> 0, ttl |-> 0]

(* presignShareUrl reads the clock once, for the lifetime and the stamp.     *)
Signing(what, s, g, cap) ==
    IF capUrlTtlSeconds(s, cap) < 1 THEN Idle
    ELSE [Request(what, "sign", s, g) EXCEPT !.signed = now, !.ttl = capUrlTtlSeconds(s, cap)]

Become(v, r) == req' = [req EXCEPT ![v] = r]

Begin(v, r) ==
    /\ req[v] = Idle
    /\ requests < MaxRequests
    /\ requests' = requests + 1
    /\ Become(v, r)
    /\ UNCHANGED <<now, backend, tables, released>>

Refused(v) ==
    /\ Become(v, Idle)
    /\ UNCHANGED <<now, backend, tables, requests, released>>

(* What a visitor is sent: with which grant, for how long after the link's   *)
(* end it works, and whether the grant had run out by then.                  *)
Sent(what, s, g, deadline) ==
    [what |-> what, share |-> s, grant |-> g,
     outlives |-> deadline > share[s].expires,
     viewed |-> \E x \in minted : x.id = g /\ g.share = s /\ x.expires > now]

Released(v, things) ==
    /\ released' = released \cup things
    /\ Become(v, Idle)
    /\ UNCHANGED <<now, backend, tables, requests>>

(* The store fails, or answers that the file is gone, is too large, or that  *)
(* there is no page to list.                                                 *)
StoreFails(v) ==
    /\ req[v].at \in {"head", "get", "sign", "list"}
    /\ Refused(v)

(* GET /share/:token - the page. *)
OpenPage(v, s) ==
    /\ Exists(s)
    /\ getShareState(s) = "active"
    /\ share[s].kind = "file"
    /\ Begin(v, Request("page", "head", s, Grant(s, 0)))

KeepsNothing(s) == {}   \* mutant: the purge takes the live grants with it

(* The grants openShareView leaves: those that have not expired.             *)
Purged(s) == {x \in grants : x.expires > WholeSeconds(now)}

NewGrant(s) ==
    LET ttl == WholeSeconds(now) + GrantTtl * Second IN
    [id |-> Grant(s, share[s].views + 1),
     expires |-> IF ttl < share[s].expires THEN ttl ELSE share[s].expires]

(* buildBody up to its first await, with the grant of the view. *)
Building(s, g) ==
    CASE Type[share[s].path] = "embed" /\ backend = "s3" -> Signing("page", s, g, EmbedTtl)
      [] Type[share[s].path] = "text" -> Request("page", "get", s, g)
      [] OTHER -> Request("page", "built", s, g)

CountView(v) ==
    LET s == req[v].share IN
    /\ share' = [share EXCEPT ![s].views = @ + 1]
    /\ grants' = IF Limited(s) THEN Purged(s) \cup {NewGrant(s)} ELSE Purged(s)
    /\ minted' = IF Limited(s) THEN minted \cup {NewGrant(s)} ELSE minted
    /\ Become(v, Building(s, Grant(s, share[s].views + 1)))
    /\ UNCHANGED <<now, backend, requests, released>>

SpendUnguarded(v) ==   \* mutant: the guards were read before the storage call
    /\ req[v].what = "page" /\ req[v].at = "head"
    /\ CountView(v)

(* openShareView, one transaction, once headObject has answered.             *)
SpendView(v) ==
    /\ req[v].what = "page" /\ req[v].at = "head"
    /\ consumeShareView(req[v].share)
    /\ CountView(v)

ViewRefused(v) ==
    /\ req[v].what = "page" /\ req[v].at = "head"
    /\ ~consumeShareView(req[v].share)
    /\ Refused(v)

NoLastLook(s) == TRUE   \* mutant: the page is sent on the strength of the counted view

(* The last look before anything is released: the view is spent already.     *)
StillLive(s) == ~share[s].revoked /\ share[s].expires > now

Page(v, deadline) ==
    LET s == req[v].share IN
    {Sent("page", s, req[v].grant, 0)}
       \cup (IF req[v].at = "sign" THEN {Sent("embed", s, req[v].grant, deadline)} ELSE {})

ReleasePage(v) ==
    /\ req[v].what = "page"
    /\ req[v].at \in {"built", "get", "sign"}
    /\ \E deadline \in Deadlines(v) :
          IF StillLive(req[v].share) /\ (req[v].at = "sign" => WithinShare(v, deadline))
          THEN Released(v, Page(v, deadline))
          ELSE Refused(v)

(* GET /share/:token/raw and /download - the bytes.  A visitor has the       *)
(* grants of the pages anybody was sent.                                     *)
KnownGrants == {r.grant : r \in {x \in released : x.what = "page"}}

Serving(what, s, g) ==
    IF what = "raw" /\ Type[share[s].path] = "html" THEN Request(what, "head", s, g)
    ELSE IF backend = "local" THEN Request(what, "get", s, g)
    ELSE IF what = "raw" THEN Signing(what, s, g, DownloadTtl)
    ELSE Request(what, "head", s, g)

FetchBytes(v, s, what, g) ==
    /\ Exists(s)
    /\ authorizeShareBytes(s, g)
    /\ share[s].kind = "file"
    /\ what = "raw" => Type[share[s].path] \in {"embed", "html"}
    /\ Begin(v, Serving(what, s, g))

Authorized(v) == authorizeShareBytes(req[v].share, req[v].grant)

(* A page of HTML is proxied; a download is authorized again, then signed.   *)
AfterHead(v) ==
    LET s == req[v].share IN
    /\ req[v].what \in {"raw", "download"} /\ req[v].at = "head"
    /\ Become(v, IF req[v].what = "raw" THEN Request("raw", "get", s, req[v].grant)
                 ELSE IF Authorized(v) THEN Signing("download", s, req[v].grant, DownloadTtl)
                 ELSE Idle)
    /\ UNCHANGED <<now, backend, tables, requests, released>>

(* streamObject: stillAllowed once the bytes are read. *)
ReleaseBytes(v) ==
    /\ req[v].what \in {"raw", "download"} /\ req[v].at = "get"
    /\ IF Authorized(v)
       THEN Released(v, {Sent("bytes", req[v].share, req[v].grant, 0)})
       ELSE Refused(v)

ReleaseUrl(v) ==
    /\ req[v].what \in {"raw", "download"} /\ req[v].at = "sign"
    /\ \E deadline \in Deadlines(v) :
          IF Authorized(v) /\ WithinShare(v, deadline)
          THEN Released(v, {Sent("url", req[v].share, req[v].grant, deadline)})
          ELSE Refused(v)

(* GET /site/:token/* - a file of a folder, or a listing of its pages.       *)
OpenSite(v, s) ==
    /\ Exists(s)
    /\ share[s].kind = "site"
    /\ getShareState(s) = "active"
    /\ Begin(v, Request("site", "head", s, Grant(s, 0)))

BrowseSite(v) ==
    /\ req[v].what = "site" /\ req[v].at \in {"head", "get"}
    /\ \E at \in (IF req[v].at = "head" THEN {"get", "list"} ELSE {"list"}) :
          Become(v, [req[v] EXCEPT !.at = at])
    /\ UNCHANGED <<now, backend, tables, requests, released>>

ReleaseSite(v) ==
    /\ req[v].what = "site" /\ req[v].at \in {"get", "list"}
    /\ IF getShareState(req[v].share) = "active"
       THEN Released(v, {Sent("bytes", req[v].share, req[v].grant, 0)})
       ELSE Refused(v)
-----------------------------------------------------------------------------
Visit(v) ==
    \/ \E s \in Links : OpenPage(v, s) \/ OpenSite(v, s)
    \/ \E s \in Links, what \in {"raw", "download"} :
          \E g \in KnownGrants \cup {Grant(s, 0)} : FetchBytes(v, s, what, g)
    \/ SpendView(v) \/ ViewRefused(v) \/ ReleasePage(v)
    \/ AfterHead(v) \/ ReleaseBytes(v) \/ ReleaseUrl(v)
    \/ BrowseSite(v) \/ ReleaseSite(v)
    \/ StoreFails(v)

Manage(m) ==
    \/ \E s \in Links, p \in Paths, life \in Lifetimes,
          max \in Limits \cup {Unlimited} : ShareCreate(m, s, p, life, max)
    \/ ShareRevoke(m)

Next ==
    \/ Tick
    \/ \E m \in Members : Manage(m)
    \/ \E v \in Visitors : Visit(v)

Spec == Init /\ [][Next]_vars
-----------------------------------------------------------------------------
Grants == [share : Links, view : Nat]

Rows == [kind : {"file", "site"}, path : Paths, expires : Nat, max : Nat, views : Nat,
         by : Members, revoked : BOOLEAN]

(* Types, and that a URL is only ever signed for at least a second and at    *)
(* most the longest lifetime.                                                *)
TypeOK ==
    /\ now \in 0 .. MaxTime
    /\ backend \in Backends
    /\ share \in [Links -> Rows \cup {NoShare}]
    /\ \A x \in grants : x.id \in Grants /\ x.expires \in Nat
    /\ \A v \in Visitors : req[v] # Idle =>
          /\ req[v].share \in Links /\ req[v].grant \in Grants
          /\ req[v].at = "sign" => req[v].ttl \in 1 .. EmbedTtl
    /\ requests \in 0 .. MaxRequests

(* A view-limited link shows its page at most as often as it says, however   *)
(* the requests that saw it open overlap: each page is the only one of a     *)
(* counted view.                                                             *)
PagesWithinLimit ==
    \A s \in Links : Limited(s) =>
        Cardinality({r \in released : r.what = "page" /\ r.share = s}) <= share[s].max

(* Nothing - page, URL, bytes or listing - is sent for a link that has been  *)
(* revoked or has expired by then, whatever was true when the request came.  *)
NothingAfterTheEnd ==
    [][\A r \in released' \ released :
          ~share[r.share].revoked /\ share[r.share].expires > now]_vars

(* No presigned URL works beyond the expiry of the link it was issued for,   *)
(* even if the clock moved while it was signed and the signer used its own   *)
(* time.  A URL issued before a revocation outlives it: the store checks no  *)
(* more than the signature.                                                  *)
UrlsDieWithTheirLink ==
    \A r \in released : ~r.outlives

(* The bytes of a view-limited link, or a URL for them, answer only requests *)
(* with the grant of a counted view of this very link, and only while that   *)
(* grant lives: never one that has only the token, nor one with the grant    *)
(* of another link.                                                          *)
BytesFollowAView ==
    \A r \in released : r.what \in {"bytes", "url"} /\ Limited(r.share) => r.viewed

(* Every counted view of a view-limited link has exactly its own grant, which *)
(* stays in the table until it expires - with the link at the latest - while *)
(* other visitors open links and purge the table.                            *)
GrantPerView ==
    \A s \in Links : Limited(s) =>
        \A n \in 1 .. share[s].views :
            \E g \in minted : /\ g.id = Grant(s, n)
                              /\ g \in grants \/ g.expires <= now
                              /\ g.expires <= share[s].expires

(* Three guards say whether a link is open: getShareState by the clock, the  *)
(* UPDATE that counts a view and the filter of share-list in whole seconds.  *)
(* They agree at every instant, so nothing listed as active is refused and   *)
(* nothing openable is hidden from who may revoke it.                        *)
GuardsAgree ==
    \A s \in Links : Exists(s) =>
        /\ (getShareState(s) = "active") <=> consumeShareView(s)
        /\ \A m \in Members : s \in shareList(m) <=> MayRevoke(m, s) /\ consumeShareView(s)
-----------------------------------------------------------------------------
(* The inductive invariant. *)

InProgress == [what : {"page", "raw", "download", "site"}, at : {"head", "built", "get", "sign", "list"},
               share : Links, grant : Grants, signed : Nat, ttl : Nat]

Answers == [what : {"page", "embed", "bytes", "url"}, share : Links, grant : Grants,
            outlives : BOOLEAN, viewed : BOOLEAN]

Typed ==
    /\ TypeOK
    /\ req \in [Visitors -> InProgress \cup {Idle}]
    /\ minted \subseteq [id : Grants, expires : Nat] /\ grants \subseteq minted
    /\ released \subseteq Answers

(* A deadline of whole seconds, or beyond the clock. *)
Whole(t) == t = Never \/ t = WholeSeconds(t)

(* The limits of a link, and the deadlines that both clocks compare alike.   *)
RowsKept ==
    /\ \A s \in Links : Exists(s) =>
          /\ Whole(share[s].expires)
          /\ share[s].kind = "site" => ~Limited(s)
          /\ Limited(s) => share[s].views <= share[s].max
    /\ \A x \in minted : Whole(x.expires)

(* Requests in progress and answers are for links that were made. *)
OnlyMadeLinks ==
    /\ \A v \in Visitors : req[v] # Idle =>
          /\ Exists(req[v].share)
          /\ req[v].what = "site" => share[req[v].share].kind = "site"
    /\ \A r \in released : Exists(r.share)

Counted(v) == req[v].what = "page" /\ req[v].at # "head"   \* past SpendView

(* A counted view belongs to one request, and then to one page. *)
OnePageAView ==
    /\ \A v \in Visitors : Counted(v) =>
          /\ req[v].grant.share = req[v].share
          /\ req[v].grant.view \in 1 .. share[req[v].share].views
          /\ \A w \in Visitors : Counted(w) /\ req[w].grant = req[v].grant => w = v
          /\ \A r \in released : r.what = "page" => r.grant # req[v].grant
    /\ \A r \in released : r.what = "page" =>
          /\ r.grant.share = r.share
          /\ r.grant.view \in 1 .. share[r.share].views
          /\ \A q \in released : q.what = "page" /\ q.grant = r.grant => q = r

IInv ==
    /\ Typed
    /\ RowsKept
    /\ OnlyMadeLinks
    /\ OnePageAView
    /\ UrlsDieWithTheirLink
    /\ BytesFollowAView
    /\ GrantPerView
=============================================================================
