------------------------------ MODULE GlobCache ------------------------------
(***************************************************************************)
(* The listing cache behind glob (packages/core/src/ops/glob-cache.ts):    *)
(* one object-store listing per (org, drive, prefix) is shared by the      *)
(* readers that overlap, kept for a short time, and dropped when a write   *)
(* to the drive is about to be recorded (createVersion, mv, cp).           *)
(*                                                                         *)
(* A listing is the set of store mutations it reflects.  A mutation takes  *)
(* effect in the store while its caller awaits it; the caller then         *)
(* invalidates, or fails with the effect in place.  A paginated listing    *)
(* reflects at least what its first page saw, which is what is kept here.  *)
(***************************************************************************)
EXTENDS Integers, FiniteSets

CONSTANTS
    Drives, Keys,   \* drives, and the (drive, prefix) pairs listed
    DriveOf,        \* the drive of a key
    Readers,        \* concurrent callers of glob
    TTL,            \* TTL_MS
    MaxEntries,     \* MAX_ENTRIES
    MaxWrites,      \* bound: store mutations
    MaxFails,       \* bound: listings that fail
    None            \* no pending request

ASSUME DriveAssumption == DriveOf \in [Keys -> Drives]
ASSUME BoundAssumption == /\ TTL \in Nat \ {0} /\ MaxEntries \in Nat /\ MaxWrites \in Nat
                          /\ MaxFails \in Nat
ASSUME NoneAssumption == None \notin Readers

VARIABLES
    store,      \* per drive, the mutations in effect
    awaiting,   \* mutations in effect whose caller has not resumed
    published,  \* per drive, the mutations whose caller has invalidated
    cache,      \* per key, the cached listing and its time to live
    rank,       \* per key, its place in the Map's order, 0 the most recent
    pending,    \* per key, the reader whose request is shared, or None
    load,       \* per reader, the request it started
    reader,     \* per reader, the request it waits for
    writes, fails  \* bound counters

vars == <<store, awaiting, published, cache, rank, pending, load, reader, writes, fails>>

Mutations == 1..MaxWrites
Entry == [cached : {"no", "yes"}, listing : SUBSET Mutations, ttl : 0..TTL]
Request == [phase : {"none", "called", "listed"}, key : Keys, invalidated : {"no", "yes"},
            listing : SUBSET Mutations]
(* seen: what was published when the reader called glob (history).           *)
Waiting == [on : Readers \cup {None}, seen : SUBSET Mutations]

NoEntry == [cached |-> "no", listing |-> {}, ttl |-> 0]
NotWaiting == [on |-> None, seen |-> {}]

Init ==
    /\ store = [d \in Drives |-> {}]
    /\ awaiting = {}
    /\ published = [d \in Drives |-> {}]
    /\ cache = [k \in Keys |-> NoEntry]
    /\ rank \in {f \in [Keys -> 0..(Cardinality(Keys) - 1)] :
                    \A j, k \in Keys : f[j] = f[k] => j = k}
    /\ pending = [k \in Keys |-> None]
    /\ load \in [Readers -> {q \in Request : q.phase = "none" /\ q.invalidated = "no" /\ q.listing = {}}]
    /\ reader = [p \in Readers |-> NotWaiting]
    /\ writes = 0
    /\ fails = 0
-----------------------------------------------------------------------------
(* Writers. *)

(* putObject, copyObject or deleteObject takes effect. *)
StoreEffect(d) ==
    /\ writes < MaxWrites
    /\ writes' = writes + 1
    /\ store' = [store EXCEPT ![d] = @ \cup {writes + 1}]
    /\ awaiting' = awaiting \cup {writes + 1}
    /\ UNCHANGED <<published, cache, rank, pending, load, reader, fails>>

Disowned(request) == [phase |-> request.phase, key |-> request.key, invalidated |-> "yes",
                      listing |-> request.listing]

FlagOnly(d) ==   \* mutant: a flagged request can still be joined
    /\ cache' = [k \in Keys |-> IF DriveOf[k] = d THEN NoEntry ELSE cache[k]]
    /\ pending' = pending
    /\ load' = [p \in Readers |->
                  IF \E k \in Keys : DriveOf[k] = d /\ pending[k] = p
                  THEN Disowned(load[p]) ELSE load[p]]

(* Drop the drive's cached listings, and disown the ones in flight.          *)
invalidateDriveGlobListings(d) ==
    /\ cache' = [k \in Keys |-> IF DriveOf[k] = d THEN NoEntry ELSE cache[k]]
    /\ pending' = [k \in Keys |-> IF DriveOf[k] = d THEN None ELSE pending[k]]
    /\ load' = [p \in Readers |->
                  IF \E k \in Keys : DriveOf[k] = d /\ pending[k] = p
                  THEN Disowned(load[p]) ELSE load[p]]

(* createVersion, mv, cp: the caller resumes after its storage write.        *)
Publish(d, m) ==
    /\ m \in awaiting /\ m \in store[d]
    /\ awaiting' = awaiting \ {m}
    /\ published' = [published EXCEPT ![d] = @ \cup {m}]
    /\ invalidateDriveGlobListings(d)
    /\ UNCHANGED <<store, rank, reader, writes, fails>>

(* The call took effect and failed (a lost answer, a timeout): the operation *)
(* throws before it invalidates.                                             *)
WriteFails(m) ==
    /\ m \in awaiting
    /\ awaiting' = awaiting \ {m}
    /\ UNCHANGED <<store, published, cache, rank, pending, load, reader, writes, fails>>
-----------------------------------------------------------------------------
(* Readers: getCachedDriveListing. *)

Fresh(k) == cache[k].cached = "yes" /\ cache[k].ttl > 0

(* The key moves to the end of the Map's insertion order. *)
Touched(k) == [j \in Keys |-> IF j = k THEN 0
                              ELSE IF rank[j] < rank[k] THEN rank[j] + 1 ELSE rank[j]]

Hit(p, k) ==
    /\ reader[p].on = None
    /\ Fresh(k)
    /\ rank' = Touched(k)
    /\ UNCHANGED <<store, awaiting, published, cache, pending, load, reader, writes, fails>>

Wait(p, o, k) ==
    /\ cache' = [cache EXCEPT ![k] = NoEntry]
    /\ reader' = [reader EXCEPT ![p] = [on |-> o, seen |-> published[DriveOf[k]]]]
    /\ UNCHANGED <<store, awaiting, published, rank, writes, fails>>

(* An expired entry is dropped, and a request in flight is shared ...        *)
Join(p, k) ==
    /\ reader[p].on = None
    /\ ~Fresh(k)
    /\ pending[k] # None
    /\ Wait(p, pending[k], k)
    /\ UNCHANGED <<pending, load>>

(* ... or started. *)
Miss(p, k) ==
    /\ reader[p].on = None
    /\ ~Fresh(k)
    /\ pending[k] = None
    /\ Wait(p, p, k)
    /\ pending' = [pending EXCEPT ![k] = p]
    /\ load' = [load EXCEPT ![p] = [phase |-> "called", key |-> k, invalidated |-> "no",
                                    listing |-> {}]]

(* The store answers ListObjects. *)
listObjects(p) ==
    /\ load[p].phase = "called"
    /\ load' = [load EXCEPT ![p] = [phase |-> "listed", key |-> @.key,
                                    invalidated |-> @.invalidated,
                                    listing |-> store[DriveOf[load[p].key]]]]
    /\ UNCHANGED <<store, awaiting, published, cache, rank, pending, reader, writes, fails>>

AlwaysForget(p) ==   \* mutant: the finally clause forgets whoever is pending
    pending' = [pending EXCEPT ![load[p].key] = None]

(* The finally clause: only the request that is still the pending one goes.  *)
Forget(p) ==
    pending' = [k \in Keys |-> IF pending[k] = p THEN None ELSE pending[k]]

Settle(p) ==
    /\ load' = [load EXCEPT ![p] = [phase |-> "none", key |-> @.key, invalidated |-> "no",
                                    listing |-> {}]]
    /\ reader' = [q \in Readers |-> IF reader[q].on = p THEN NotWaiting ELSE reader[q]]
    /\ Forget(p)

NoEviction(present, order) == {}   \* mutant: the Map grows

(* Once the new entry is in, the oldest entries beyond MAX_ENTRIES go.       *)
Evicted(present, order) ==
    {k \in present : Cardinality({j \in present : order[j] < order[k]}) >= MaxEntries}

(* expiresAt, counted from now. *)
TimeToLive == TTL

EvenDisowned(p) == TRUE   \* mutant: a disowned listing is cached

Cacheable(p) == load[p].invalidated = "no"

(* The request resolves; it is cached unless a write disowned it.            *)
Resolve(p) ==
    /\ load[p].phase = "listed"
    /\ \/ /\ Cacheable(p)
          /\ rank' = Touched(load[p].key)
          /\ LET k == load[p].key
                 gone == Evicted({j \in Keys : cache[j].cached = "yes"} \cup {k}, Touched(k))
             IN  cache' = [j \in Keys |->
                             IF j \in gone THEN NoEntry
                             ELSE IF j = k
                                  THEN [cached |-> "yes", listing |-> load[p].listing, ttl |-> TimeToLive]
                             ELSE cache[j]]
       \/ /\ ~Cacheable(p)
          /\ UNCHANGED <<rank, cache>>
    /\ Settle(p)
    /\ UNCHANGED <<store, awaiting, published, writes, fails>>

(* The listing fails, for every reader that shares it. *)
LoadFails(p) ==
    /\ load[p].phase # "none"
    /\ fails < MaxFails
    /\ fails' = fails + 1
    /\ Settle(p)
    /\ UNCHANGED <<store, awaiting, published, cache, rank, writes>>

Advance ==
    /\ cache' = [k \in Keys |->
                   [cached |-> cache[k].cached, listing |-> cache[k].listing,
                    ttl |-> IF cache[k].ttl > 0 THEN cache[k].ttl - 1 ELSE 0]]
    /\ UNCHANGED <<store, awaiting, published, rank, pending, load, reader, writes, fails>>

Next ==
    \/ \E d \in Drives : StoreEffect(d) \/ \E m \in Mutations : Publish(d, m)
    \/ \E m \in Mutations : WriteFails(m)
    \/ \E p \in Readers, k \in Keys : Hit(p, k) \/ Join(p, k) \/ Miss(p, k)
    \/ \E p \in Readers : listObjects(p) \/ Resolve(p) \/ LoadFails(p)
    \/ Advance

Spec == Init /\ [][Next]_vars
-----------------------------------------------------------------------------
(* Properties. *)

TypeOK ==
    /\ store \in [Drives -> SUBSET Mutations]
    /\ awaiting \subseteq Mutations
    /\ published \in [Drives -> SUBSET Mutations]
    /\ cache \in [Keys -> Entry]
    /\ rank \in [Keys -> Int]
    /\ pending \in [Keys -> Readers \cup {None}]
    /\ load \in [Readers -> Request]
    /\ reader \in [Readers -> Waiting]
    /\ writes \in 0..MaxWrites
    /\ fails \in 0..MaxFails

(* A cached listing reflects every write that was recorded (or is about to   *)
(* be): a listing that was already in flight when the write invalidated      *)
(* never comes back into the cache.                                          *)
CacheFresh ==
    \A k \in Keys : cache[k].cached = "yes" => published[DriveOf[k]] \subseteq cache[k].listing

(* Read your writes: the listing a reader will get, its own or one it        *)
(* shares, reflects every write recorded before the reader called glob.      *)
WaitersSeeCommitted ==
    \A p \in Readers :
       reader[p].on # None => LET o == reader[p].on IN
          load[o].phase = "listed" => reader[p].seen \subseteq load[o].listing

(* A burst of identical globs makes one ListObjects call: of the requests in *)
(* flight for one key at most one was not overtaken by a write.              *)
SingleFlight ==
    \A p, q \in Readers :
       /\ load[p].phase # "none" /\ load[q].phase # "none"
       /\ load[p].invalidated = "no" /\ load[q].invalidated = "no"
       /\ load[p].key = load[q].key
       => p = q

(* The cache never holds more than MAX_ENTRIES listings.                     *)
CacheBounded == Cardinality({k \in Keys : cache[k].cached = "yes"}) <= MaxEntries
-----------------------------------------------------------------------------
(* The inductive invariant. *)

PublishedInStore == \A d \in Drives : published[d] \subseteq store[d]

(* pending holds exactly the requests in flight that no write disowned, and  *)
(* those reflect everything published so far.                                *)
PendingExact ==
    \A p \in Readers, k \in Keys :
       pending[k] = p <=> /\ load[p].phase # "none" /\ load[p].key = k
                          /\ load[p].invalidated = "no"

PendingFresh ==
    \A p \in Readers :
       load[p].phase = "listed" /\ load[p].invalidated = "no"
          => published[DriveOf[load[p].key]] \subseteq load[p].listing

WaitersWithinStore ==
    \A p \in Readers :
       reader[p].on # None => /\ load[reader[p].on].phase # "none"
                              /\ reader[p].seen \subseteq store[DriveOf[load[reader[p].on].key]]

(* A reader that started a request waits for it. *)
OwnersWait == \A p \in Readers : load[p].phase # "none" => reader[p].on = p

IInv ==
    /\ TypeOK
    /\ CacheFresh
    /\ WaitersSeeCommitted
    /\ PublishedInStore
    /\ PendingExact
    /\ PendingFresh
    /\ WaitersWithinStore
    /\ OwnersWait
-----------------------------------------------------------------------------
(* What bounds the cache: the insertion order of the Map is strict, so that  *)
(* the entry beyond the last place is the only one there.                    *)

Present == {k \in Keys : cache[k].cached = "yes"}

OrderStrict ==
    /\ \A k \in Keys : rank[k] \in Nat
    /\ \A j, k \in Keys : rank[j] = rank[k] => j = k

BInv ==
    /\ OrderStrict
    /\ IsFiniteSet(Present)
    /\ CacheBounded
=============================================================================
