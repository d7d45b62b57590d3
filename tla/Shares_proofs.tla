---------------------------- MODULE Shares_proofs ----------------------------
(* Theorems about Shares, for any links, lifetimes, view limits, visitors,   *)
(* clock resolution and deadlines of URLs and grants.                        *)
EXTENDS Shares, FiniteSetTheorems, FunctionTheorems, TLAPS

-----------------------------------------------------------------------------
(* Whole seconds. *)

LEMMA NeverTyped == Never \in Nat /\ MaxTime < Never
  <1>1. Second * (EmbedTtl + 1) \in Nat /\ Second * (EmbedTtl + 1) >= 1
    BY LinksAssumption
  <1> QED
    BY <1>1, LinksAssumption DEF Never

LEMMA SecondsDown ==
  ASSUME NEW t \in Nat
  PROVE  /\ t \div Second \in Nat
         /\ WholeSeconds(t) \in Nat
         /\ WholeSeconds(t) <= t
         /\ t < WholeSeconds(t) + Second
  BY LinksAssumption DEF WholeSeconds

LEMMA Multiple ==
  ASSUME NEW a \in Nat, NEW b \in Nat, a * Second > b * Second
  PROVE  a * Second >= b * Second + Second
  <1>1. a > b
    BY LinksAssumption
  <1>2. a >= b + 1
    BY <1>1
  <1>3. a * Second >= (b + 1) * Second
    BY <1>2, LinksAssumption
  <1> QED
    BY <1>3, LinksAssumption

(* A whole deadline is after an instant iff it is after that instant's second. *)
LEMMA WholeLater ==
  ASSUME NEW t \in Nat, NEW n \in 0 .. MaxTime, Whole(t)
  PROVE  t > n <=> t > WholeSeconds(n)
  <1>1. n \in Nat
    BY LinksAssumption
  <1>2. CASE t = Never
    BY <1>1, <1>2, NeverTyped, SecondsDown, LinksAssumption
  <1>3. CASE t = WholeSeconds(t)
    <2>1. /\ t \div Second \in Nat /\ n \div Second \in Nat
          /\ t = (t \div Second) * Second /\ WholeSeconds(n) = (n \div Second) * Second
      BY <1>1, <1>3, SecondsDown DEF WholeSeconds
    <2>2. t > WholeSeconds(n) => t >= WholeSeconds(n) + Second
      BY <2>1, Multiple
    <2>3. WholeSeconds(n) \in Nat /\ WholeSeconds(n) <= n /\ n < WholeSeconds(n) + Second
      BY <1>1, SecondsDown
    <2> QED
      BY <1>1, <2>2, <2>3, LinksAssumption
  <1> QED
    BY <1>2, <1>3 DEF Whole

LEMMA WholeSum ==
  ASSUME NEW t \in Nat, NEW k \in Nat
  PROVE  Whole(WholeSeconds(t) + k * Second)
  <1> DEFINE a == t \div Second
  <1>1. a \in Nat /\ WholeSeconds(t) = a * Second
    BY SecondsDown DEF WholeSeconds
  <1> HIDE DEF a
  <1>2. WholeSeconds(t) + k * Second = (a + k) * Second
    BY <1>1, LinksAssumption
  <1>3. ((a + k) * Second) \div Second = a + k
    BY <1>1, LinksAssumption
  <1> QED
    BY <1>2, <1>3 DEF Whole, WholeSeconds
-----------------------------------------------------------------------------
(* What the invariant says of one row, one grant, one request. *)

LEMMA RowTyped ==
  ASSUME TypeOK, NEW s \in Links
  PROVE  /\ share[s].expires \in Nat /\ share[s].max \in Nat /\ share[s].views \in Nat
         /\ share[s].revoked \in BOOLEAN
         /\ Exists(s) <=> share[s] \in Rows
  <1>1. share[s] \in Rows \/ share[s] = NoShare
    BY DEF TypeOK
  <1>2. CASE share[s] \in Rows
    BY <1>2 DEF Rows, Exists
  <1>3. CASE share[s] = NoShare
    BY <1>3 DEF NoShare, Exists, Unlimited, Rows
  <1> QED
    BY <1>1, <1>2, <1>3

LEMMA ClockTyped == TypeOK => now \in Nat /\ now \in 0 .. MaxTime
  BY LinksAssumption DEF TypeOK

LEMMA ExpiryAgrees ==
  ASSUME IInv, NEW s \in Links, Exists(s)
  PROVE  share[s].expires > now <=> share[s].expires > WholeSeconds(now)
  <1>1. Whole(share[s].expires) /\ TypeOK
    BY DEF IInv, RowsKept, Typed
  <1> QED
    BY <1>1, RowTyped, ClockTyped, WholeLater

LEMMA AgreeingGuards == IInv => GuardsAgree
  <1> SUFFICES ASSUME IInv, NEW s \in Links, Exists(s)
               PROVE  /\ (getShareState(s) = "active") <=> consumeShareView(s)
                      /\ \A m \in Members : s \in shareList(m) <=> MayRevoke(m, s) /\ consumeShareView(s)
    BY DEF GuardsAgree
  <1>1. /\ share[s].expires \in Nat /\ share[s].max \in Nat /\ share[s].views \in Nat
        /\ now \in Nat /\ WholeSeconds(now) \in Nat
    BY RowTyped, ClockTyped, SecondsDown DEF IInv, Typed
  <1>2. (getShareState(s) = "active") <=> consumeShareView(s)
    BY <1>1, ExpiryAgrees DEF getShareState, consumeShareView
  <1>3. \A m \in Members : s \in shareList(m) <=> MayRevoke(m, s) /\ consumeShareView(s)
    BY DEF shareList, MayRevoke, Visible, consumeShareView
  <1> QED
    BY <1>2, <1>3

(* The pages of a link map one to one to its counted views. *)
LEMMA PagesCounted == IInv => PagesWithinLimit
  <1> SUFFICES ASSUME IInv, NEW s \in Links, Limited(s)
               PROVE  Cardinality({r \in released : r.what = "page" /\ r.share = s}) <= share[s].max
    BY DEF PagesWithinLimit
  <1> DEFINE P == {r \in released : r.what = "page" /\ r.share = s}
             n == share[s].views
             f == [r \in P |-> r.grant.view]
  <1>1. n \in Nat /\ share[s].max \in Nat
    BY RowTyped DEF IInv, Typed
  <1>2. n <= share[s].max
    <2>1. Exists(s)
      BY DEF IInv, Typed, TypeOK, Limited, Exists, NoShare, Rows
    <2> QED
      BY <2>1 DEF IInv, RowsKept
  <1>3. \A r \in P : r.grant \in Grants /\ r.grant.share = s /\ r.grant.view \in 1 .. n
    BY DEF IInv, Typed, Answers, OnePageAView
  <1>4. \A r, q \in P : r.grant.view = q.grant.view => r = q
    <2> SUFFICES ASSUME NEW r \in P, NEW q \in P, r.grant.view = q.grant.view PROVE r = q
      OBVIOUS
    <2>1. r.grant = q.grant
      BY <1>3 DEF Grants
    <2> QED
      BY <2>1 DEF IInv, OnePageAView
  <1> HIDE DEF P, n
  <1>5. f \in Injection(P, 1 .. n)
    BY <1>3, <1>4 DEF Injection, IsInjective
  <1>6. IsFiniteSet(1 .. n) /\ Cardinality(1 .. n) = n
    BY <1>1, FS_Interval
  <1>7. Cardinality(P) <= n
    BY <1>5, <1>6, FS_Injection
  <1>8. IsFiniteSet(P)
    BY <1>5, <1>6, FS_Injection
  <1>9. Cardinality(P) \in Nat
    BY <1>8, FS_CardinalityType
  <1> QED
    BY <1>1, <1>2, <1>7, <1>9 DEF P
-----------------------------------------------------------------------------
(* Each action keeps the invariant. *)

LEMMA InitHolds == Init => IInv
  <1> SUFFICES ASSUME Init PROVE IInv
    OBVIOUS
  <1>1. Typed
    BY LinksAssumption DEF Init, Typed, TypeOK
  <1>2. RowsKept
    BY DEF Init, RowsKept, Exists, NoShare
  <1>3. OnlyMadeLinks
    BY DEF Init, OnlyMadeLinks
  <1>4. OnePageAView
    BY DEF Init, OnePageAView, Counted, Idle
  <1>5. UrlsDieWithTheirLink /\ BytesFollowAView
    BY DEF Init, UrlsDieWithTheirLink, BytesFollowAView
  <1>6. GrantPerView
    BY DEF Init, GrantPerView, Limited, NoShare
  <1> QED
    BY <1>1, <1>2, <1>3, <1>4, <1>5, <1>6 DEF IInv

LEMMA TickKeeps == ASSUME IInv, Tick PROVE IInv'
  <1>1. /\ now' \in 0 .. MaxTime /\ now' = now + 1 /\ now \in Nat
        /\ UNCHANGED <<backend, tables, req, requests, released>>
    BY ClockTyped, LinksAssumption DEF Tick, IInv, Typed
  <1>2. Typed'
    BY <1>1 DEF IInv, Typed, TypeOK, tables
  <1>3. RowsKept' /\ OnlyMadeLinks' /\ OnePageAView'
    BY <1>1 DEF IInv, RowsKept, OnlyMadeLinks, OnePageAView, Exists, Limited, Counted, tables
  <1>4. UrlsDieWithTheirLink' /\ BytesFollowAView'
    BY <1>1 DEF IInv, UrlsDieWithTheirLink, BytesFollowAView, Limited, tables
  <1>5. GrantPerView'
    <2>1. \A g \in minted : g.expires \in Nat
      BY DEF IInv, Typed
    <2>2. \A g \in minted : g.expires <= now => g.expires <= now'
      BY <1>1, <2>1
    <2> QED
      BY <1>1, <2>2 DEF IInv, GrantPerView, Limited, tables
  <1> QED
    BY <1>2, <1>3, <1>4, <1>5 DEF IInv

(* One request moves on; no view is counted and nothing is sent. *)
LEMMA RequestKeeps ==
  ASSUME IInv, NEW v \in Visitors, NEW r \in InProgress \cup {Idle}, Become(v, r),
         requests' \in 0 .. MaxRequests, UNCHANGED <<now, backend, tables, released>>,
         r # Idle => /\ Exists(r.share)
                     /\ r.what = "site" => share[r.share].kind = "site"
                     /\ r.at = "sign" => r.ttl \in 1 .. EmbedTtl
                     /\ r.what = "page" => r.at = "head"
  PROVE  IInv'
  <1>1. /\ req' \in [Visitors -> InProgress \cup {Idle}]
        /\ \A w \in Visitors : req'[w] = IF w = v THEN r ELSE req[w]
    BY DEF Become, IInv, Typed
  <1>2. ~(r.what = "page" /\ r.at # "head")
    BY DEF Idle
  <1>3. r # Idle => r.share \in Links /\ r.grant \in Grants
    BY DEF InProgress
  <1>4. Typed'
    BY <1>1, <1>3 DEF IInv, Typed, TypeOK, tables
  <1>5. RowsKept'
    BY DEF IInv, RowsKept, Exists, Limited, tables
  <1>6. OnlyMadeLinks'
    BY <1>1 DEF IInv, OnlyMadeLinks, Exists, tables
  <1>7. OnePageAView'
    <2>1. \A w \in Visitors : Counted(w)' => Counted(w) /\ req'[w] = req[w]
      BY <1>1, <1>2 DEF Counted
    <2> QED
      BY <2>1 DEF IInv, OnePageAView, tables
  <1>8. UrlsDieWithTheirLink' /\ BytesFollowAView' /\ GrantPerView'
    BY DEF IInv, UrlsDieWithTheirLink, BytesFollowAView, GrantPerView, Limited, tables
  <1> QED
    BY <1>4, <1>5, <1>6, <1>7, <1>8 DEF IInv

LEMMA RefusedKeeps == ASSUME IInv, NEW v \in Visitors, Refused(v) PROVE IInv'
  <1>1. requests' \in 0 .. MaxRequests
    BY DEF Refused, IInv, Typed, TypeOK
  <1> QED
    BY <1>1, RequestKeeps DEF Refused

LEMMA BeginKeeps ==
  ASSUME IInv, NEW v \in Visitors, NEW r \in InProgress \cup {Idle}, Begin(v, r),
         r # Idle => /\ Exists(r.share)
                     /\ r.what = "site" => share[r.share].kind = "site"
                     /\ r.at = "sign" => r.ttl \in 1 .. EmbedTtl
                     /\ r.what = "page" => r.at = "head"
  PROVE  IInv'
  <1>1. requests' \in 0 .. MaxRequests
    BY LinksAssumption DEF Begin, IInv, Typed, TypeOK
  <1> QED
    BY <1>1, RequestKeeps DEF Begin

LEMMA RequestTyped ==
  ASSUME NEW what \in {"page", "raw", "download", "site"}, NEW at \in {"head", "built", "get", "sign", "list"},
         NEW s \in Links, NEW g \in Grants
  PROVE  /\ Request(what, at, s, g) \in InProgress
         /\ Request(what, at, s, g).what = what /\ Request(what, at, s, g).at = at
         /\ Request(what, at, s, g).share = s /\ Request(what, at, s, g).grant = g
  BY DEF Request, InProgress

(* A URL is signed for at least a second. *)
LEMMA SigningTyped ==
  ASSUME TypeOK, NEW what \in {"page", "raw", "download", "site"}, NEW s \in Links, NEW g \in Grants,
         NEW cap \in 1 .. EmbedTtl
  PROVE  \/ Signing(what, s, g, cap) = Idle
         \/ /\ Signing(what, s, g, cap) \in InProgress
            /\ Signing(what, s, g, cap).what = what /\ Signing(what, s, g, cap).at = "sign"
            /\ Signing(what, s, g, cap).share = s /\ Signing(what, s, g, cap).grant = g
            /\ Signing(what, s, g, cap).ttl \in 1 .. EmbedTtl
  <1> DEFINE c == capUrlTtlSeconds(s, cap)
  <1>1. c \in Int /\ c <= EmbedTtl
    <2>1. share[s].expires - now \in Int
      BY RowTyped, ClockTyped
    <2>2. (share[s].expires - now) \div Second \in Int
      BY <2>1, LinksAssumption
    <2> QED
      BY <2>2, LinksAssumption DEF capUrlTtlSeconds
  <1> HIDE DEF c
  <1>2. CASE c < 1
    BY <1>2 DEF Signing, c
  <1>3. CASE ~(c < 1)
    <2>1. c \in 1 .. EmbedTtl /\ c \in Nat /\ now \in Nat
      BY <1>1, <1>3, ClockTyped, LinksAssumption
    <2>2. Signing(what, s, g, cap) =
            [what |-> what, at |-> "sign", share |-> s, grant |-> g, signed |-> now, ttl |-> c]
      BY <1>3 DEF Signing, Request, c
    <2> QED
      BY <2>1, <2>2 DEF InProgress
  <1> QED
    BY <1>2, <1>3

LEMMA OpenKeeps ==
  ASSUME IInv, NEW v \in Visitors, NEW s \in Links, OpenPage(v, s) \/ OpenSite(v, s)
  PROVE  IInv'
  <1>1. Grant(s, 0) \in Grants
    BY DEF Grant, Grants
  <1>2. CASE OpenPage(v, s)
    BY <1>1, <1>2, RequestTyped, BeginKeeps DEF OpenPage
  <1>3. CASE OpenSite(v, s)
    BY <1>1, <1>3, RequestTyped, BeginKeeps DEF OpenSite
  <1> QED
    BY <1>2, <1>3

LEMMA KnownGrantsTyped == IInv => KnownGrants \subseteq Grants
  BY DEF IInv, Typed, Answers, KnownGrants

LEMMA FetchBytesKeeps ==
  ASSUME IInv, NEW v \in Visitors, NEW s \in Links, NEW what \in {"raw", "download"}, NEW g \in Grants,
         FetchBytes(v, s, what, g)
  PROVE  IInv'
  <1>1. Exists(s) /\ Begin(v, Serving(what, s, g)) /\ TypeOK /\ DownloadTtl \in 1 .. EmbedTtl
    BY LinksAssumption DEF FetchBytes, IInv, Typed
  <1> DEFINE r == Serving(what, s, g)
  <1>2. \/ r = Idle
        \/ /\ r \in InProgress /\ r.what = what /\ r.share = s
           /\ r.at = "sign" => r.ttl \in 1 .. EmbedTtl
    <2>1. \/ Signing(what, s, g, DownloadTtl) = Idle
          \/ /\ Signing(what, s, g, DownloadTtl) \in InProgress
             /\ Signing(what, s, g, DownloadTtl).what = what
             /\ Signing(what, s, g, DownloadTtl).share = s
             /\ Signing(what, s, g, DownloadTtl).ttl \in 1 .. EmbedTtl
      BY <1>1, SigningTyped
    <2>2. \A at \in {"head", "get"} : /\ Request(what, at, s, g) \in InProgress
                                      /\ Request(what, at, s, g).what = what
                                      /\ Request(what, at, s, g).share = s
                                      /\ Request(what, at, s, g).at # "sign"
      BY RequestTyped
    <2> QED
      BY <2>1, <2>2 DEF Serving
  <1> HIDE DEF r
  <1>3. Begin(v, r)
    BY <1>1 DEF r
  <1>4. CASE r = Idle
    BY <1>3, <1>4, BeginKeeps
  <1>5. CASE r # Idle
    BY <1>1, <1>2, <1>3, <1>5, BeginKeeps
  <1> QED
    BY <1>4, <1>5

LEMMA RequestInProgress ==
  ASSUME IInv, NEW v \in Visitors, req[v].what # "none"
  PROVE  /\ req[v] # Idle /\ req[v] \in InProgress /\ req[v].share \in Links /\ req[v].grant \in Grants
         /\ Exists(req[v].share)
         /\ req[v].what = "site" => share[req[v].share].kind = "site"
  <1>1. req[v] # Idle
    BY DEF Idle
  <1>2. req[v] \in InProgress
    BY <1>1 DEF IInv, Typed
  <1> QED
    BY <1>1, <1>2 DEF InProgress, IInv, OnlyMadeLinks

LEMMA AfterHeadKeeps == ASSUME IInv, NEW v \in Visitors, AfterHead(v) PROVE IInv'
  <1> DEFINE s == req[v].share
             g == req[v].grant
             r == IF req[v].what = "raw" THEN Request("raw", "get", s, g)
                  ELSE IF Authorized(v) THEN Signing("download", s, g, DownloadTtl)
                  ELSE Idle
  <1>1. /\ req[v].what \in {"raw", "download"} /\ Become(v, r)
        /\ UNCHANGED <<now, backend, tables, requests, released>>
    BY DEF AfterHead
  <1>2. s \in Links /\ g \in Grants /\ Exists(s) /\ TypeOK /\ DownloadTtl \in 1 .. EmbedTtl
    BY <1>1, RequestInProgress, LinksAssumption DEF IInv, Typed
  <1>3. requests' \in 0 .. MaxRequests
    BY <1>1 DEF IInv, Typed, TypeOK
  <1> HIDE DEF s, g
  <1>4. \/ r = Idle
        \/ /\ r \in InProgress /\ r.what \in {"raw", "download"} /\ r.share = s
           /\ r.at = "sign" => r.ttl \in 1 .. EmbedTtl
    <2>1. \/ Signing("download", s, g, DownloadTtl) = Idle
          \/ /\ Signing("download", s, g, DownloadTtl) \in InProgress
             /\ Signing("download", s, g, DownloadTtl).what = "download"
             /\ Signing("download", s, g, DownloadTtl).share = s
             /\ Signing("download", s, g, DownloadTtl).ttl \in 1 .. EmbedTtl
      BY <1>2, SigningTyped
    <2>2. /\ Request("raw", "get", s, g) \in InProgress
          /\ Request("raw", "get", s, g).what = "raw"
          /\ Request("raw", "get", s, g).share = s
          /\ Request("raw", "get", s, g).at # "sign"
      BY <1>2, RequestTyped
    <2> QED
      BY <2>1, <2>2
  <1> HIDE DEF r
  <1>5. CASE r = Idle
    BY <1>1, <1>3, <1>5, RequestKeeps
  <1>6. CASE r # Idle
    BY <1>1, <1>2, <1>3, <1>4, <1>6, RequestKeeps
  <1> QED
    BY <1>5, <1>6

LEMMA BrowseSiteKeeps == ASSUME IInv, NEW v \in Visitors, BrowseSite(v) PROVE IInv'
  <1>1. PICK at \in {"get", "list"} : Become(v, [req[v] EXCEPT !.at = at])
    BY DEF BrowseSite
  <1>2. req[v].what = "site" /\ UNCHANGED <<now, backend, tables, requests, released>>
    BY DEF BrowseSite
  <1> DEFINE r == [req[v] EXCEPT !.at = at]
  <1>3. /\ r \in InProgress /\ r.at = at /\ r.what = "site" /\ r.share = req[v].share
    BY <1>2, RequestInProgress DEF InProgress
  <1>4. Exists(r.share) /\ share[r.share].kind = "site" /\ requests' \in 0 .. MaxRequests
    BY <1>2, <1>3, RequestInProgress DEF IInv, Typed, TypeOK
  <1>5. Become(v, r)
    BY <1>1
  <1> HIDE DEF r
  <1> QED
    BY <1>2, <1>3, <1>4, <1>5, RequestKeeps

(* Something is sent: for a link in its lifetime, its bytes with a grant, a  *)
(* page as the only one of the request's view.                               *)
LEMMA ReleasedKeeps ==
  ASSUME IInv, NEW v \in Visitors, req[v].what # "none", NEW things \in SUBSET Answers, Released(v, things),
         \A r \in things :
            /\ r.share = req[v].share /\ ~r.outlives
            /\ r.what \in {"bytes", "url"} /\ Limited(r.share) => r.viewed
            /\ r.what = "page" => /\ Counted(v) /\ r.grant = req[v].grant
                                  /\ \A q \in things : q.what = "page" => q = r
  PROVE  IInv'
  <1>1. /\ released' = released \cup things /\ UNCHANGED <<now, backend, tables, requests>>
        /\ req' = [req EXCEPT ![v] = Idle]
    BY DEF Released, Become
  <1>2. /\ req' \in [Visitors -> InProgress \cup {Idle}]
        /\ \A w \in Visitors : req'[w] = IF w = v THEN Idle ELSE req[w]
    BY <1>1 DEF IInv, Typed
  <1>3. Exists(req[v].share)
    BY RequestInProgress
  <1>4. Typed'
    BY <1>1, <1>2 DEF IInv, Typed, TypeOK, tables
  <1>5. RowsKept' /\ GrantPerView'
    BY <1>1 DEF IInv, RowsKept, GrantPerView, Exists, Limited, tables
  <1>6. OnlyMadeLinks'
    BY <1>1, <1>2, <1>3 DEF IInv, OnlyMadeLinks, Exists, tables
  <1>7. UrlsDieWithTheirLink' /\ BytesFollowAView'
    BY <1>1 DEF IInv, UrlsDieWithTheirLink, BytesFollowAView, Limited, tables
  <1>8. OnePageAView'
    <2>1. \A w \in Visitors : Counted(w)' => Counted(w) /\ req'[w] = req[w] /\ w # v
      BY <1>2 DEF Counted, Idle
    <2>2. ASSUME NEW w \in Visitors, Counted(w)'
          PROVE  /\ req'[w].grant.share = req'[w].share
                 /\ req'[w].grant.view \in 1 .. share'[req'[w].share].views
                 /\ \A u \in Visitors : Counted(u)' /\ req'[u].grant = req'[w].grant => u = w
                 /\ \A r \in released' : r.what = "page" => r.grant # req'[w].grant
      BY <1>1, <2>1, <2>2 DEF IInv, OnePageAView, tables
    <2>3. ASSUME NEW r \in released', r.what = "page"
          PROVE  /\ r.grant.share = r.share
                 /\ r.grant.view \in 1 .. share'[r.share].views
                 /\ \A q \in released' : q.what = "page" /\ q.grant = r.grant => q = r
      <3>1. CASE r \in released
        BY <1>1, <2>3, <3>1 DEF IInv, OnePageAView, tables
      <3>2. CASE r \in things
        BY <1>1, <2>3, <3>2 DEF IInv, OnePageAView, tables
      <3> QED
        BY <1>1, <3>1, <3>2
    <2> QED
      BY <2>2, <2>3 DEF OnePageAView
  <1> QED
    BY <1>4, <1>5, <1>6, <1>7, <1>8 DEF IInv

LEMMA SentTyped ==
  ASSUME TypeOK, NEW what \in {"page", "embed", "bytes", "url"}, NEW s \in Links, NEW g \in Grants, NEW d \in Nat
  PROVE  /\ Sent(what, s, g, d) \in Answers
         /\ Sent(what, s, g, d).what = what /\ Sent(what, s, g, d).share = s /\ Sent(what, s, g, d).grant = g
         /\ Sent(what, s, g, d).outlives <=> d > share[s].expires
         /\ Sent(what, s, g, d).viewed <=> \E x \in minted : x.id = g /\ g.share = s /\ x.expires > now
  <1> DEFINE o == d > share[s].expires
             w == \E x \in minted : x.id = g /\ g.share = s /\ x.expires > now
  <1>1. o \in BOOLEAN /\ w \in BOOLEAN
    OBVIOUS
  <1>2. Sent(what, s, g, d) = [what |-> what, share |-> s, grant |-> g, outlives |-> o, viewed |-> w]
    BY DEF Sent
  <1> HIDE DEF o, w
  <1>3. /\ Sent(what, s, g, d) \in Answers
        /\ Sent(what, s, g, d).what = what /\ Sent(what, s, g, d).share = s /\ Sent(what, s, g, d).grant = g
        /\ Sent(what, s, g, d).outlives = o /\ Sent(what, s, g, d).viewed = w
    BY <1>1, <1>2 DEF Answers
  <1> QED
    BY <1>3 DEF o, w

(* Whoever is authorized has a live grant of a limited link. *)
LEMMA AuthorizedMeans ==
  ASSUME IInv, NEW s \in Links, Exists(s), NEW g \in Grants, authorizeShareBytes(s, g)
  PROVE  /\ ~share[s].revoked /\ share[s].expires > now
         /\ Limited(s) => \E x \in minted : x.id = g /\ g.share = s /\ x.expires > now
  <1>1. /\ share[s].expires \in Nat /\ share[s].revoked \in BOOLEAN /\ now \in Nat /\ now \in 0 .. MaxTime
    BY RowTyped, ClockTyped DEF IInv, Typed
  <1>2. ~share[s].revoked /\ share[s].expires > now
    BY <1>1 DEF authorizeShareBytes, getShareState
  <1>3. ASSUME Limited(s) PROVE \E x \in minted : x.id = g /\ g.share = s /\ x.expires > now
    <2>1. PICK x \in grants : x.id = g /\ x.id.share = s /\ x.expires > WholeSeconds(now)
      BY <1>3 DEF authorizeShareBytes
    <2>2. x \in minted /\ x.expires \in Nat /\ Whole(x.expires)
      BY DEF IInv, Typed, RowsKept
    <2>3. x.expires > now
      BY <1>1, <2>1, <2>2, WholeLater
    <2> QED
      BY <2>1, <2>2, <2>3
  <1> QED
    BY <1>2, <1>3

LEMMA DeadlinesTyped ==
  ASSUME IInv, NEW v \in Visitors, req[v].what # "none"
  PROVE  Deadlines(v) \subseteq Nat
  <1>1. req[v].signed \in Nat /\ req[v].ttl \in Nat /\ now \in Nat
    BY RequestInProgress, ClockTyped DEF InProgress, IInv, Typed
  <1>2. \A t \in {req[v].signed, now} : WholeSeconds(t) \in Nat
    BY <1>1, SecondsDown
  <1>3. req[v].ttl * Second \in Nat
    BY <1>1, LinksAssumption
  <1> QED
    BY <1>2, <1>3 DEF Deadlines

LEMMA ReleasePageKeeps == ASSUME IInv, NEW v \in Visitors, ReleasePage(v) PROVE IInv'
  <1> DEFINE s == req[v].share
             g == req[v].grant
  <1>1. req[v].what = "page" /\ req[v].at \in {"built", "get", "sign"}
    BY DEF ReleasePage
  <1>2. s \in Links /\ g \in Grants /\ Counted(v) /\ TypeOK /\ share[s].expires \in Nat
    BY <1>1, RequestInProgress, RowTyped DEF Counted, IInv, Typed
  <1>3. PICK d \in Deadlines(v) : \/ Refused(v)
                                  \/ /\ req[v].at = "sign" => WithinShare(v, d)
                                     /\ Released(v, Page(v, d))
    BY DEF ReleasePage
  <1>4. d \in Nat
    BY <1>1, DeadlinesTyped
  <1>5. CASE Refused(v)
    BY <1>5, RefusedKeeps
  <1>6. CASE (req[v].at = "sign" => WithinShare(v, d)) /\ Released(v, Page(v, d))
    <2>1. /\ Sent("page", s, g, 0) \in Answers
          /\ Sent("page", s, g, 0).what = "page" /\ Sent("page", s, g, 0).share = s
          /\ Sent("page", s, g, 0).grant = g /\ ~Sent("page", s, g, 0).outlives
      BY <1>2, SentTyped
    <2>2. /\ Sent("embed", s, g, d) \in Answers
          /\ Sent("embed", s, g, d).what = "embed" /\ Sent("embed", s, g, d).share = s
          /\ req[v].at = "sign" => ~Sent("embed", s, g, d).outlives
      BY <1>2, <1>4, <1>6, SentTyped DEF WithinShare
    <2>3. \A r \in Page(v, d) : r = Sent("page", s, g, 0) \/ (req[v].at = "sign" /\ r = Sent("embed", s, g, d))
      BY DEF Page
    <2>4. \A r \in Page(v, d) :
            /\ r \in Answers /\ r.share = s /\ ~r.outlives
            /\ r.what \in {"page", "embed"}
            /\ r.what = "page" => r = Sent("page", s, g, 0) /\ r.grant = g
      BY <2>1, <2>2, <2>3
    <2>5. Page(v, d) \in SUBSET Answers
      BY <2>4
    <2> QED
      BY <1>1, <1>2, <1>6, <2>4, <2>5, ReleasedKeeps
  <1> QED
    BY <1>3, <1>5, <1>6

LEMMA ReleaseBytesKeeps ==
  ASSUME IInv, NEW v \in Visitors, ReleaseBytes(v) \/ ReleaseUrl(v)
  PROVE  IInv'
  <1> DEFINE s == req[v].share
             g == req[v].grant
  <1>1. req[v].what \in {"raw", "download"}
    BY DEF ReleaseBytes, ReleaseUrl
  <1>2. s \in Links /\ g \in Grants /\ Exists(s) /\ TypeOK /\ share[s].expires \in Nat
    BY <1>1, RequestInProgress, RowTyped DEF IInv, Typed
  <1>3. \/ Refused(v)
        \/ \E what \in {"bytes", "url"}, d \in Nat :
             Authorized(v) /\ d <= share[s].expires /\ Released(v, {Sent(what, s, g, d)})
    <2>1. CASE ReleaseBytes(v)
      <3>1. Refused(v) \/ (Authorized(v) /\ Released(v, {Sent("bytes", s, g, 0)}))
        BY <2>1 DEF ReleaseBytes
      <3>2. 0 \in Nat /\ 0 <= share[s].expires
        BY <1>2
      <3> HIDE DEF s, g
      <3> QED
        BY <3>1, <3>2
    <2>2. CASE ReleaseUrl(v)
      BY <1>1, <2>2, DeadlinesTyped DEF ReleaseUrl, WithinShare
    <2> QED
      BY <2>1, <2>2
  <1>4. ASSUME NEW what \in {"bytes", "url"}, NEW d \in Nat, Authorized(v), d <= share[s].expires,
               Released(v, {Sent(what, s, g, d)})
        PROVE  IInv'
    <2>1. Limited(s) => \E x \in minted : x.id = g /\ g.share = s /\ x.expires > now
      BY <1>2, <1>4, AuthorizedMeans DEF Authorized
    <2> DEFINE r == Sent(what, s, g, d)
    <2>2. /\ r \in Answers /\ r.share = s /\ r.what = what /\ ~r.outlives
          /\ Limited(s) => r.viewed
      BY <1>2, <1>4, <2>1, SentTyped
    <2>3. Released(v, {r})
      BY <1>4
    <2> HIDE DEF r
    <2> QED
      BY <1>1, <2>2, <2>3, ReleasedKeeps
  <1> QED
    BY <1>3, <1>4, RefusedKeeps

(* Links to folders have no limit of views. *)
LEMMA ReleaseSiteKeeps == ASSUME IInv, NEW v \in Visitors, ReleaseSite(v) PROVE IInv'
  <1> DEFINE s == req[v].share
             g == req[v].grant
             r == Sent("bytes", s, g, 0)
  <1>1. req[v].what = "site" /\ (Refused(v) \/ Released(v, {r}))
    BY DEF ReleaseSite
  <1>2. /\ s \in Links /\ g \in Grants /\ share[s].kind = "site" /\ Exists(s) /\ TypeOK
        /\ share[s].expires \in Nat
    BY <1>1, RequestInProgress, RowTyped DEF IInv, Typed
  <1>3. ~Limited(s)
    BY <1>2 DEF IInv, RowsKept
  <1>4. r \in Answers /\ r.share = s /\ r.what = "bytes" /\ ~r.outlives
    BY <1>2, SentTyped
  <1> HIDE DEF r
  <1>5. CASE Released(v, {r})
    BY <1>1, <1>3, <1>4, <1>5, ReleasedKeeps
  <1> QED
    BY <1>1, <1>5, RefusedKeeps

(* openShareView: the view is new, and so is its grant. *)
LEMMA SpendViewKeeps == ASSUME IInv, NEW v \in Visitors, SpendView(v) PROVE IInv'
  <1> DEFINE s == req[v].share
             n == share[s].views + 1
             g == Grant(s, n)
             x == NewGrant(s)
             b == Building(s, g)
  <1>1. req[v].what = "page" /\ req[v].at = "head" /\ consumeShareView(s) /\ CountView(v)
    BY DEF SpendView
  <1>2. s \in Links /\ Exists(s) /\ TypeOK
    BY <1>1, RequestInProgress DEF IInv, Typed
  <1>3. /\ share[s].views \in Nat /\ share[s].max \in Nat /\ share[s].expires \in Nat /\ share[s] \in Rows
        /\ now \in Nat /\ now \in 0 .. MaxTime
    BY <1>2, RowTyped, ClockTyped
  <1>4. n \in Nat /\ g \in Grants /\ g.share = s /\ g.view = n
    BY <1>2, <1>3 DEF Grant, Grants
  <1>5. x.id = g /\ x.expires \in Nat /\ x \in [id : Grants, expires : Nat] /\ x.expires <= share[s].expires
        /\ Whole(x.expires)
    <2>1. WholeSeconds(now) + GrantTtl * Second \in Nat /\ Whole(WholeSeconds(now) + GrantTtl * Second)
      <3>1. GrantTtl \in Nat /\ GrantTtl * Second \in Nat /\ WholeSeconds(now) \in Nat
        BY <1>3, SecondsDown, LinksAssumption
      <3> QED
        BY <1>3, <3>1, WholeSum
    <2>2. Whole(share[s].expires)
      BY <1>2 DEF IInv, RowsKept
    <2> QED
      BY <1>3, <1>4, <2>1, <2>2 DEF NewGrant
  <1>6. /\ \A t \in Links : share'[t] = IF t = s THEN [share[s] EXCEPT !.views = n] ELSE share[t]
        /\ share' = [share EXCEPT ![s] = [share[s] EXCEPT !.views = n]]
    BY <1>1, <1>2 DEF CountView, TypeOK
  <1>7. [share[s] EXCEPT !.views = n] \in Rows
    BY <1>3, <1>4 DEF Rows
  <1>8. share' \in [Links -> Rows \cup {NoShare}]
    BY <1>2, <1>6, <1>7 DEF TypeOK
  <1>9. \A t \in Links : /\ share'[t].expires = share[t].expires /\ share'[t].max = share[t].max
                         /\ share'[t].kind = share[t].kind
                         /\ share'[t].views = IF t = s THEN n ELSE share[t].views
    BY <1>3, <1>6 DEF Rows
  <1>10. /\ minted' = IF Limited(s) THEN minted \cup {x} ELSE minted
         /\ grants' = IF Limited(s) THEN Purged(s) \cup {x} ELSE Purged(s)
         /\ Become(v, b) /\ UNCHANGED <<now, backend, requests, released>>
    BY <1>1 DEF CountView
  <1>11. b # Idle => /\ b \in InProgress /\ b.what = "page" /\ b.share = s /\ b.grant = g
                     /\ b.at = "sign" => b.ttl \in 1 .. EmbedTtl
    <2>1. \/ Signing("page", s, g, EmbedTtl) = Idle
          \/ /\ Signing("page", s, g, EmbedTtl) \in InProgress
             /\ Signing("page", s, g, EmbedTtl).what = "page"
             /\ Signing("page", s, g, EmbedTtl).share = s
             /\ Signing("page", s, g, EmbedTtl).grant = g
             /\ Signing("page", s, g, EmbedTtl).ttl \in 1 .. EmbedTtl
      BY <1>2, <1>4, SigningTyped, LinksAssumption
    <2>2. \A at \in {"get", "built"} :
             /\ Request("page", at, s, g) \in InProgress
             /\ Request("page", at, s, g).what = "page"
             /\ Request("page", at, s, g).share = s
             /\ Request("page", at, s, g).grant = g
             /\ Request("page", at, s, g).at # "sign"
      BY <1>2, <1>4, RequestTyped
    <2>3. \/ b = Signing("page", s, g, EmbedTtl)
          \/ \E at \in {"get", "built"} : b = Request("page", at, s, g)
      BY DEF Building
    <2> HIDE DEF b, g, s
    <2> QED
      BY <2>1, <2>2, <2>3
  <1> HIDE DEF s, n, g, x, b
  <1>12. /\ req' \in [Visitors -> InProgress \cup {Idle}]
         /\ \A w \in Visitors : req'[w] = IF w = v THEN b ELSE req[w]
    BY <1>10, <1>11 DEF Become, IInv, Typed
  <1>13. Purged(s) \subseteq grants /\ grants' \subseteq minted'
    BY <1>10 DEF Purged, IInv, Typed
  <1>14. Typed'
    <2>1. minted' \subseteq [id : Grants, expires : Nat]
      BY <1>5, <1>10 DEF IInv, Typed
    <2>2. \A y \in grants' : y.id \in Grants /\ y.expires \in Nat
      BY <1>13, <2>1
    <2>3. \A w \in Visitors : req'[w] # Idle =>
            /\ req'[w].share \in Links /\ req'[w].grant \in Grants
            /\ req'[w].at = "sign" => req'[w].ttl \in 1 .. EmbedTtl
      BY <1>2, <1>4, <1>11, <1>12 DEF TypeOK
    <2> QED
      BY <1>8, <1>10, <1>12, <1>13, <2>1, <2>2, <2>3 DEF IInv, Typed, TypeOK
  <1>15. \A t \in Links : (Exists(t)' <=> Exists(t)) /\ (Limited(t)' <=> Limited(t))
    BY <1>9 DEF Exists, Limited
  <1>16. RowsKept'
    <2>1. Limited(s) => n <= share[s].max
      BY <1>1, <1>3 DEF consumeShareView, n, s
    <2> QED
      BY <1>5, <1>9, <1>10, <1>15, <2>1 DEF IInv, RowsKept
  <1>17. OnlyMadeLinks'
    <2>1. \A r \in released : r.share \in Links
      BY DEF IInv, Typed, Answers
    <2>2. \A w \in Visitors : req[w] # Idle => req[w].share \in Links
      BY DEF IInv, Typed, TypeOK
    <2> QED
      BY <1>2, <1>9, <1>10, <1>11, <1>12, <1>15, <2>1, <2>2 DEF IInv, OnlyMadeLinks
  <1>18. OnePageAView'
    <2>1. \A w \in Visitors : w # v /\ Counted(w)' => Counted(w) /\ req'[w] = req[w]
      BY <1>12 DEF Counted
    <2>2. Counted(v)' => req'[v] = b /\ b # Idle
      BY <1>12 DEF Counted, Idle
    <2>3. \A r \in released : r.share \in Links /\ r.grant \in Grants
      BY DEF IInv, Typed, Answers
    <2>4. \A w \in Visitors : Counted(w) => req[w].share \in Links /\ req[w].grant \in Grants
      BY RequestInProgress DEF Counted
    <2>5. \A t \in Links : \A k \in 1 .. share[t].views : k \in 1 .. share'[t].views
      BY <1>2, <1>3, <1>9, RowTyped DEF n
    <2>6. n \notin 1 .. share[s].views /\ n \in 1 .. share'[s].views
      BY <1>2, <1>3, <1>9 DEF n
    <2>7. \A w \in Visitors : Counted(w) => req[w].grant # g
      BY <1>4, <2>4, <2>6 DEF IInv, OnePageAView
    <2>8. \A r \in released : r.what = "page" => r.grant # g
      BY <1>4, <2>3, <2>6 DEF IInv, OnePageAView
    <2>9. ASSUME NEW w \in Visitors, Counted(w)'
          PROVE  /\ req'[w].grant.share = req'[w].share
                 /\ req'[w].grant.view \in 1 .. share'[req'[w].share].views
                 /\ \A u \in Visitors : Counted(u)' /\ req'[u].grant = req'[w].grant => u = w
                 /\ \A r \in released' : r.what = "page" => r.grant # req'[w].grant
      <3>1. CASE w = v
        BY <1>4, <1>10, <1>11, <2>1, <2>2, <2>6, <2>7, <2>8, <2>9, <3>1
      <3>2. CASE w # v
        BY <1>10, <1>11, <2>1, <2>2, <2>4, <2>5, <2>7, <2>9, <3>2 DEF IInv, OnePageAView
      <3> QED
        BY <3>1, <3>2
    <2>10. ASSUME NEW r \in released', r.what = "page"
           PROVE  /\ r.grant.share = r.share
                  /\ r.grant.view \in 1 .. share'[r.share].views
                  /\ \A q \in released' : q.what = "page" /\ q.grant = r.grant => q = r
      BY <1>10, <2>3, <2>5, <2>10 DEF IInv, OnePageAView
    <2> QED
      BY <2>9, <2>10 DEF OnePageAView
  <1>19. UrlsDieWithTheirLink'
    BY <1>10 DEF IInv, UrlsDieWithTheirLink
  <1>20. BytesFollowAView'
    <2>1. \A r \in released : r.share \in Links
      BY DEF IInv, Typed, Answers
    <2> QED
      BY <1>10, <1>15, <2>1 DEF IInv, BytesFollowAView
  <1>21. GrantPerView'
    <2> SUFFICES ASSUME NEW t \in Links, Limited(t), NEW k \in 1 .. share'[t].views
                 PROVE  \E y \in minted' : /\ y.id = Grant(t, k)
                                           /\ y \in grants' \/ y.expires <= now
                                           /\ y.expires <= share[t].expires
      BY <1>9, <1>10, <1>15 DEF GrantPerView, Grant
    <2>1. CASE t = s /\ k = n
      BY <1>5, <1>10, <2>1 DEF g
    <2>2. CASE ~(t = s /\ k = n)
      <3>1. k \in 1 .. share[t].views
        BY <1>2, <1>3, <1>9, <2>2, RowTyped DEF n
      <3>2. PICK y \in minted : /\ y.id = Grant(t, k)
                                /\ y \in grants \/ y.expires <= now
                                /\ y.expires <= share[t].expires
        BY <3>1 DEF IInv, GrantPerView
      <3>3. y.expires \in Nat /\ WholeSeconds(now) \in Nat /\ WholeSeconds(now) <= now
        BY <1>3, SecondsDown DEF IInv, Typed
      <3>4. y \in grants => y \in grants' \/ y.expires <= now
        BY <1>3, <1>10, <3>3 DEF Purged
      <3> QED
        BY <1>10, <3>2, <3>4
    <2> QED
      BY <2>1, <2>2
  <1> QED
    BY <1>14, <1>16, <1>17, <1>18, <1>19, <1>20, <1>21 DEF IInv

(* A new link: nothing was asked or sent of it yet. *)
LEMMA ShareCreateKeeps ==
  ASSUME IInv, NEW m \in Members, NEW s \in Links, NEW p \in Paths, NEW life \in Lifetimes,
         NEW max \in Limits \cup {Unlimited}, ShareCreate(m, s, p, life, max)
  PROVE  IInv'
  <1> DEFINE row == [kind |-> IF Type[p] = "folder" THEN "site" ELSE "file", path |-> p,
                     expires |-> Expiry(life), max |-> max, views |-> 0, by |-> m, revoked |-> FALSE]
  <1>1. /\ ~Exists(s) /\ (Type[p] = "folder" => max = Unlimited) /\ share' = [share EXCEPT ![s] = row]
        /\ UNCHANGED <<now, backend, grants, minted, req, requests, released>>
    BY DEF ShareCreate
  <1>2. Expiry(life) \in Nat /\ Whole(Expiry(life))
    <2>1. life \in Nat /\ life * Second \in Nat /\ now \in Nat
      BY ClockTyped, LinksAssumption DEF IInv, Typed
    <2>2. WholeSeconds(now) \in Nat /\ Whole(WholeSeconds(now) + life * Second)
      BY <2>1, SecondsDown, WholeSum
    <2>3. Never \in Nat /\ Whole(Never)
      BY NeverTyped DEF Whole
    <2> QED
      BY <2>1, <2>2, <2>3 DEF Expiry
  <1>3. /\ row \in Rows /\ row.expires = Expiry(life) /\ row.views = 0
        /\ row.kind = "site" => row.max = Unlimited
    BY <1>1, <1>2, LinksAssumption DEF Rows, Unlimited
  <1> HIDE DEF row
  <1>4. /\ share' \in [Links -> Rows \cup {NoShare}]
        /\ \A t \in Links : share'[t] = IF t = s THEN row ELSE share[t]
    BY <1>1, <1>3 DEF IInv, Typed, TypeOK
  <1>5. Typed'
    BY <1>1, <1>4 DEF IInv, Typed, TypeOK
  <1>6. RowsKept'
    <2>1. \A t \in Links : t # s => (Exists(t)' <=> Exists(t)) /\ (Limited(t)' <=> Limited(t))
      BY <1>4 DEF Exists, Limited
    <2>2. row.max \in Nat
      BY <1>3 DEF Rows
    <2> QED
      BY <1>1, <1>2, <1>3, <1>4, <2>1, <2>2 DEF IInv, RowsKept, Limited
  <1>7. \A r \in released : r.share \in Links /\ r.share # s
    BY <1>1 DEF IInv, Typed, Answers, OnlyMadeLinks
  <1>8. \A v \in Visitors : req[v] # Idle => req[v].share \in Links /\ req[v].share # s
    BY <1>1 DEF IInv, Typed, TypeOK, OnlyMadeLinks
  <1>9. OnlyMadeLinks'
    BY <1>1, <1>4, <1>7, <1>8 DEF IInv, OnlyMadeLinks, Exists
  <1>10. OnePageAView'
    <2>1. \A v \in Visitors : (Counted(v)' <=> Counted(v)) /\ (Counted(v) => req[v] # Idle)
      BY <1>1 DEF Counted, Idle
    <2> QED
      BY <1>1, <1>4, <1>7, <1>8, <2>1 DEF IInv, OnePageAView
  <1>11. UrlsDieWithTheirLink' /\ BytesFollowAView'
    BY <1>1, <1>4, <1>7 DEF IInv, UrlsDieWithTheirLink, BytesFollowAView, Limited
  <1>12. GrantPerView'
    BY <1>1, <1>3, <1>4 DEF IInv, GrantPerView, Limited
  <1> QED
    BY <1>5, <1>6, <1>9, <1>10, <1>11, <1>12 DEF IInv

LEMMA RevokeKeeps ==
  ASSUME IInv, NEW m \in Members, NEW found \in SUBSET {s \in Links : Exists(s)}, Revoke(m, found)
  PROVE  IInv'
  <1>1. UNCHANGED <<now, backend, grants, minted, req, requests, released>>
    BY DEF Revoke
  <1>2. \A t \in Links : share'[t] = share[t] \/ (Exists(t) /\ share'[t] = [share[t] EXCEPT !.revoked = TRUE])
    BY DEF Revoke
  <1>3. \A t \in Links :
           /\ share'[t].expires = share[t].expires /\ share'[t].max = share[t].max
           /\ share'[t].kind = share[t].kind /\ share'[t].views = share[t].views
           /\ share'[t] \in Rows \cup {NoShare}
    <2> SUFFICES ASSUME NEW t \in Links, Exists(t), share'[t] = [share[t] EXCEPT !.revoked = TRUE]
                 PROVE  /\ share'[t].expires = share[t].expires /\ share'[t].max = share[t].max
                        /\ share'[t].kind = share[t].kind /\ share'[t].views = share[t].views
                        /\ share'[t] \in Rows
      BY <1>2 DEF IInv, Typed, TypeOK
    <2>1. share[t] \in Rows
      BY RowTyped DEF IInv, Typed
    <2> QED
      BY <2>1 DEF Rows
  <1>4. share' \in [Links -> Rows \cup {NoShare}]
    BY <1>3 DEF Revoke
  <1>5. \A t \in Links : (Exists(t)' <=> Exists(t)) /\ (Limited(t)' <=> Limited(t))
    BY <1>3 DEF Exists, Limited
  <1>6. Typed'
    BY <1>1, <1>4 DEF IInv, Typed, TypeOK
  <1>7. RowsKept'
    BY <1>1, <1>3, <1>5 DEF IInv, RowsKept
  <1>8. \A r \in released : r.share \in Links
    BY DEF IInv, Typed, Answers
  <1>9. \A v \in Visitors : req[v] # Idle => req[v].share \in Links
    BY DEF IInv, Typed, TypeOK
  <1>10. OnlyMadeLinks'
    BY <1>1, <1>3, <1>5, <1>8, <1>9 DEF IInv, OnlyMadeLinks
  <1>11. OnePageAView'
    <2>1. \A v \in Visitors : (Counted(v)' <=> Counted(v)) /\ (Counted(v) => req[v] # Idle)
      BY <1>1 DEF Counted, Idle
    <2> QED
      BY <1>1, <1>3, <1>8, <1>9, <2>1 DEF IInv, OnePageAView
  <1>12. UrlsDieWithTheirLink' /\ BytesFollowAView' /\ GrantPerView'
    BY <1>1, <1>3, <1>5, <1>8 DEF IInv, UrlsDieWithTheirLink, BytesFollowAView, GrantPerView
  <1> QED
    BY <1>6, <1>7, <1>10, <1>11, <1>12 DEF IInv

LEMMA ShareRevokeKeeps == ASSUME IInv, NEW m \in Members, ShareRevoke(m) PROVE IInv'
  <1>1. \E found \in SUBSET {s \in Links : Exists(s)} : Revoke(m, found)
    <2>1. ASSUME NEW s \in Links, Exists(s) PROVE {s} \in SUBSET {t \in Links : Exists(t)}
      BY <2>1
    <2>2. ASSUME NEW p \in Paths
          PROVE  {s \in Links : Exists(s) /\ share[s].path = p} \in SUBSET {t \in Links : Exists(t)}
      OBVIOUS
    <2> QED
      BY <2>1, <2>2 DEF ShareRevoke
  <1> QED
    BY <1>1, RevokeKeeps

LEMMA VisitKeeps == ASSUME IInv, NEW v \in Visitors, Visit(v) PROVE IInv'
  <1>1. ASSUME NEW s \in Links, NEW what \in {"raw", "download"}, NEW g \in KnownGrants \cup {Grant(s, 0)},
               FetchBytes(v, s, what, g)
        PROVE  IInv'
    <2>1. g \in Grants
      BY KnownGrantsTyped DEF Grant, Grants
    <2> QED
      BY <1>1, <2>1, FetchBytesKeeps
  <1>2. ASSUME StoreFails(v) \/ ViewRefused(v) PROVE IInv'
    BY <1>2, RefusedKeeps DEF StoreFails, ViewRefused
  <1> QED
    BY <1>1, <1>2, OpenKeeps, SpendViewKeeps, ReleasePageKeeps, AfterHeadKeeps, ReleaseBytesKeeps,
       BrowseSiteKeeps, ReleaseSiteKeeps DEF Visit

LEMMA NextKeeps == ASSUME IInv, [Next]_vars PROVE IInv'
  <1>1. CASE UNCHANGED vars
    <2>1. Typed'
      BY <1>1 DEF vars, IInv, Typed, TypeOK
    <2>2. RowsKept' /\ OnlyMadeLinks' /\ OnePageAView'
      BY <1>1 DEF vars, IInv, RowsKept, OnlyMadeLinks, OnePageAView, Exists, Limited, Counted
    <2>3. UrlsDieWithTheirLink' /\ BytesFollowAView' /\ GrantPerView'
      BY <1>1 DEF vars, IInv, UrlsDieWithTheirLink, BytesFollowAView, GrantPerView, Limited
    <2> QED
      BY <2>1, <2>2, <2>3 DEF IInv
  <1> QED
    BY <1>1, TickKeeps, ShareCreateKeeps, ShareRevokeKeeps, VisitKeeps DEF Next, Manage

(* Every release looked at the link last. *)
LEMMA SentWhileLive ==
  ASSUME IInv, [Next]_vars, NEW r \in released' \ released
  PROVE  ~share[r.share].revoked /\ share[r.share].expires > now
  <1>1. ~UNCHANGED released
    OBVIOUS
  <1>2. PICK v \in Visitors : ReleasePage(v) \/ ReleaseBytes(v) \/ ReleaseUrl(v) \/ ReleaseSite(v)
    <2>1. ASSUME NEW v \in Visitors,
                 \/ \E s \in Links : OpenPage(v, s) \/ OpenSite(v, s)
                 \/ \E s \in Links, what \in {"raw", "download"} : \E g : FetchBytes(v, s, what, g)
          PROVE  UNCHANGED released
      BY <2>1 DEF OpenPage, OpenSite, FetchBytes, Begin
    <2>2. ASSUME NEW v \in Visitors,
                 \/ SpendView(v) \/ ViewRefused(v) \/ AfterHead(v) \/ BrowseSite(v) \/ StoreFails(v)
          PROVE  UNCHANGED released
      BY <2>2 DEF SpendView, CountView, ViewRefused, AfterHead, BrowseSite, StoreFails, Refused
    <2>3. ASSUME Tick \/ (\E m \in Members : Manage(m)) \/ UNCHANGED vars PROVE UNCHANGED released
      BY <2>3 DEF Tick, Manage, ShareCreate, ShareRevoke, Revoke, vars
    <2>4. \E v \in Visitors : Visit(v)
      BY <1>1, <2>3 DEF Next
    <2> QED
      BY <1>1, <2>1, <2>2, <2>4 DEF Visit
  <1> DEFINE s == req[v].share
             g == req[v].grant
  <1>3. req[v].what # "none"
    BY <1>2 DEF ReleasePage, ReleaseBytes, ReleaseUrl, ReleaseSite
  <1>4. s \in Links /\ g \in Grants /\ Exists(s) /\ TypeOK
    BY <1>3, RequestInProgress DEF IInv, Typed
  <1>5. /\ share[s].expires \in Nat /\ share[s].max \in Nat /\ share[s].views \in Nat
        /\ share[s].revoked \in BOOLEAN /\ now \in Nat
    BY <1>4, RowTyped, ClockTyped
  <1>6. ~Refused(v)
    BY <1>1 DEF Refused
  <1>7. \E things : Released(v, things) /\ \A x \in things : x.share = s
    <2>1. \A what, d : Sent(what, s, g, d).share = s
      BY DEF Sent
    <2>2. \A d : \A x \in Page(v, d) : x.share = s
      BY <2>1 DEF Page
    <2> HIDE DEF s, g
    <2>3. CASE ReleasePage(v)
      BY <1>6, <2>2, <2>3 DEF ReleasePage
    <2>4. CASE ReleaseBytes(v)
      BY <1>6, <2>1, <2>4 DEF ReleaseBytes, s, g
    <2>5. CASE ReleaseUrl(v)
      BY <1>6, <2>1, <2>5 DEF ReleaseUrl, s, g
    <2>6. CASE ReleaseSite(v)
      BY <1>6, <2>1, <2>6 DEF ReleaseSite, s, g
    <2> QED
      BY <1>2, <2>3, <2>4, <2>5, <2>6
  <1>8. r.share = s
    BY <1>7 DEF Released
  <1>9. \/ StillLive(s)
        \/ authorizeShareBytes(s, g)
        \/ getShareState(s) = "active"
    BY <1>2, <1>6 DEF ReleasePage, ReleaseBytes, ReleaseUrl, ReleaseSite, Authorized
  <1> HIDE DEF s, g
  <1>10. ~share[s].revoked /\ share[s].expires > now
    <2>1. CASE StillLive(s)
      BY <2>1 DEF StillLive
    <2>2. CASE authorizeShareBytes(s, g)
      BY <1>4, <2>2, AuthorizedMeans
    <2>3. CASE getShareState(s) = "active"
      BY <1>5, <2>3 DEF getShareState
    <2> QED
      BY <1>9, <2>1, <2>2, <2>3
  <1> QED
    BY <1>8, <1>10
-----------------------------------------------------------------------------
(* The inductive invariant holds of every behaviour. *)
THEOREM InvariantHolds == Spec => []IInv
  BY InitHolds, NextKeeps, PTL DEF Spec

(* A view-limited link shows its page at most as often as it says, for any   *)
(* number of overlapping requests (share.ts, openShareView).                 *)
THEOREM LimitKept == Spec => []PagesWithinLimit
  BY InvariantHolds, PagesCounted, PTL

(* No presigned URL outlives its link, wherever the signer reads the clock.  *)
THEOREM UrlsEndInTime == Spec => []UrlsDieWithTheirLink
  <1>1. IInv => UrlsDieWithTheirLink
    BY DEF IInv
  <1> QED
    BY <1>1, InvariantHolds, PTL

(* The bytes of a view-limited link go to requests with a live grant of a    *)
(* counted view of this very link only.                                      *)
THEOREM BytesNeedAView == Spec => []BytesFollowAView
  <1>1. IInv => BytesFollowAView
    BY DEF IInv
  <1> QED
    BY <1>1, InvariantHolds, PTL

(* Every counted view keeps its own grant until that expires, whoever purges *)
(* the table.                                                                *)
THEOREM ViewsKeepGrants == Spec => []GrantPerView
  <1>1. IInv => GrantPerView
    BY DEF IInv
  <1> QED
    BY <1>1, InvariantHolds, PTL

(* The clock of getShareState and the whole seconds of the SQL guards agree  *)
(* at every instant, whatever the resolution of the clock.                   *)
THEOREM ClocksAgree == Spec => []GuardsAgree
  BY InvariantHolds, AgreeingGuards, PTL

(* Nothing is sent for a link that has been revoked or has expired by then.  *)
THEOREM NothingSentLate == Spec => NothingAfterTheEnd
  <1>1. ASSUME IInv, [Next]_vars
        PROVE  [\A r \in released' \ released :
                  ~share[r.share].revoked /\ share[r.share].expires > now]_vars
    BY <1>1, SentWhileLive
  <1> QED
    BY <1>1, InvariantHolds, PTL DEF Spec, NothingAfterTheEnd
=============================================================================
