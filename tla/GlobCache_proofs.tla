--------------------------- MODULE GlobCache_proofs ---------------------------
(* Theorems about GlobCache, for any number of drives, prefixes, readers and  *)
(* writes.                                                                    *)
EXTENDS GlobCache, FiniteSetTheorems, TLAPS

LEMMA InitHolds == Init => IInv
  <1> SUFFICES ASSUME Init PROVE IInv
    OBVIOUS
  <1>1. TypeOK
    <2>1. cache \in [Keys -> Entry]
      BY BoundAssumption DEF Init, NoEntry, Entry
    <2>2. rank \in [Keys -> Int]
      BY DEF Init
    <2>3. reader \in [Readers -> Waiting]
      BY DEF Init, NotWaiting, Waiting
    <2> QED
      BY <2>1, <2>2, <2>3, BoundAssumption DEF Init, TypeOK, Request
  <1>2. CacheFresh /\ WaitersSeeCommitted /\ PublishedInStore /\ PendingFresh /\ WaitersWithinStore /\ OwnersWait
    BY DEF Init, NoEntry, NotWaiting, CacheFresh, WaitersSeeCommitted, PublishedInStore, PendingFresh, WaitersWithinStore, OwnersWait
  <1>3. PendingExact
    BY NoneAssumption DEF Init, PendingExact
  <1> QED
    BY <1>1, <1>2, <1>3 DEF IInv

(* A store effect only adds to the store. *)
LEMMA StoreEffectKeeps == ASSUME IInv, NEW d \in Drives, StoreEffect(d) PROVE IInv'
  <1>1. writes + 1 \in Mutations /\ writes' \in 0..MaxWrites
    BY BoundAssumption DEF IInv, TypeOK, StoreEffect, Mutations
  <1>2. \A e \in Drives : store[e] \subseteq store'[e]
    BY DEF IInv, TypeOK, StoreEffect
  <1>3. TypeOK'
    BY <1>1 DEF IInv, TypeOK, StoreEffect
  <1>4. CacheFresh' /\ WaitersSeeCommitted' /\ PendingExact' /\ PendingFresh' /\ OwnersWait'
    BY DEF IInv, StoreEffect, CacheFresh, WaitersSeeCommitted, PendingExact, PendingFresh, OwnersWait
  <1>5. PublishedInStore'
    BY <1>2 DEF IInv, StoreEffect, PublishedInStore
  <1>6. \A p \in Readers : reader[p].on # None => DriveOf[load[reader[p].on].key] \in Drives
    BY DriveAssumption DEF IInv, TypeOK, Waiting, Request
  <1>7. WaitersWithinStore'
    BY <1>2, <1>6 DEF IInv, StoreEffect, WaitersWithinStore
  <1> QED
    BY <1>3, <1>4, <1>5, <1>7 DEF IInv

(* Publishing drops what the drive has cached and disowns what is in flight, *)
(* so nothing older than the write remains to be served or shared.           *)
LEMMA PublishKeeps == ASSUME IInv, NEW d \in Drives, NEW m \in Mutations, Publish(d, m) PROVE IInv'
  <1>1. /\ published' = [published EXCEPT ![d] = @ \cup {m}] /\ m \in store[d]
        /\ cache' = [k \in Keys |-> IF DriveOf[k] = d THEN NoEntry ELSE cache[k]]
        /\ pending' = [k \in Keys |-> IF DriveOf[k] = d THEN None ELSE pending[k]]
        /\ load' = [p \in Readers |->
                      IF \E k \in Keys : DriveOf[k] = d /\ pending[k] = p
                      THEN Disowned(load[p]) ELSE load[p]]
        /\ UNCHANGED <<store, rank, reader, writes, fails>>
    BY DEF Publish, invalidateDriveGlobListings
  <1>2. \A p \in Readers : /\ load'[p].phase = load[p].phase /\ load'[p].key = load[p].key
                           /\ load'[p].listing = load[p].listing /\ load'[p] \in Request
                           /\ load[p] \in Request
    BY <1>1 DEF IInv, TypeOK, Disowned, Request
  <1>3. \A p \in Readers :
           load'[p].invalidated = "no" <=> /\ load[p].invalidated = "no"
                                           /\ ~ \E k \in Keys : DriveOf[k] = d /\ pending[k] = p
    BY <1>1 DEF Disowned
  <1>4. TypeOK'
    <2>1. cache' \in [Keys -> Entry]
      BY <1>1, BoundAssumption DEF IInv, TypeOK, NoEntry, Entry
    <2>2. load' \in [Readers -> Request]
      BY <1>1, <1>2
    <2>3. awaiting' \subseteq Mutations
      BY DEF IInv, TypeOK, Publish
    <2> QED
      BY <1>1, <2>1, <2>2, <2>3 DEF IInv, TypeOK
  <1>5. CacheFresh'
    BY <1>1, DriveAssumption DEF IInv, TypeOK, CacheFresh, NoEntry
  <1>6. PublishedInStore'
    BY <1>1 DEF IInv, TypeOK, PublishedInStore
  <1>7. WaitersSeeCommitted' /\ WaitersWithinStore' /\ OwnersWait'
    BY <1>1, <1>2 DEF IInv, TypeOK, Waiting, WaitersSeeCommitted, WaitersWithinStore, OwnersWait
  <1>8. PendingExact'
    BY <1>1, <1>2, <1>3, NoneAssumption DEF IInv, PendingExact
  <1>9. PendingFresh'
    <2> SUFFICES ASSUME NEW p \in Readers, load'[p].phase = "listed", load'[p].invalidated = "no"
                 PROVE  published'[DriveOf[load'[p].key]] \subseteq load'[p].listing
      BY DEF PendingFresh
    <2>1. /\ load[p].phase = "listed" /\ load[p].invalidated = "no" /\ load[p].key \in Keys
          /\ ~ \E k \in Keys : DriveOf[k] = d /\ pending[k] = p
      BY <1>2, <1>3 DEF Request
    <2>2. pending[load[p].key] = p
      BY <2>1 DEF IInv, PendingExact
    <2>3. DriveOf[load[p].key] # d /\ DriveOf[load[p].key] \in Drives
      BY <2>1, <2>2, DriveAssumption
    <2> QED
      BY <1>1, <1>2, <2>1, <2>3 DEF IInv, TypeOK, PendingFresh
  <1> QED
    BY <1>4, <1>5, <1>6, <1>7, <1>8, <1>9 DEF IInv

(* A failed write stays in the store, unpublished. *)
LEMMA WriteFailsKeeps == ASSUME IInv, NEW m \in Mutations, WriteFails(m) PROVE IInv'
  <1>1. TypeOK'
    BY DEF IInv, TypeOK, WriteFails
  <1>2. /\ CacheFresh' /\ WaitersSeeCommitted' /\ PublishedInStore' /\ PendingExact'
        /\ PendingFresh' /\ WaitersWithinStore' /\ OwnersWait'
    BY DEF IInv, WriteFails, CacheFresh, WaitersSeeCommitted, PublishedInStore, PendingExact,
           PendingFresh, WaitersWithinStore, OwnersWait
  <1> QED
    BY <1>1, <1>2 DEF IInv

LEMMA TouchedType == ASSUME TypeOK, NEW k \in Keys PROVE Touched(k) \in [Keys -> Int]
  BY DEF TypeOK, Touched

(* A hit changes the order of the Map only. *)
LEMMA HitKeeps == ASSUME IInv, NEW p \in Readers, NEW k \in Keys, Hit(p, k) PROVE IInv'
  <1>1. rank' \in [Keys -> Int]
    BY TouchedType DEF IInv, Hit
  <1>2. TypeOK'
    BY <1>1 DEF IInv, TypeOK, Hit
  <1>3. /\ CacheFresh' /\ WaitersSeeCommitted' /\ PublishedInStore' /\ PendingExact'
        /\ PendingFresh' /\ WaitersWithinStore' /\ OwnersWait'
    BY DEF IInv, Hit, CacheFresh, WaitersSeeCommitted, PublishedInStore, PendingExact,
           PendingFresh, WaitersWithinStore, OwnersWait
  <1> QED
    BY <1>2, <1>3 DEF IInv

(* A new waiter drops an expired entry and remembers what was published.     *)
LEMMA WaitTypes ==
  ASSUME IInv, NEW p \in Readers, NEW o \in Readers, NEW k \in Keys, Wait(p, o, k)
  PROVE  /\ cache' \in [Keys -> Entry] /\ CacheFresh'
         /\ reader' \in [Readers -> Waiting]
         /\ reader'[p].on = o /\ reader'[p].seen = published[DriveOf[k]]
         /\ \A q \in Readers \ {p} : reader'[q] = reader[q]
         /\ published[DriveOf[k]] \subseteq store[DriveOf[k]]
  <1>1. cache' \in [Keys -> Entry]
    BY BoundAssumption DEF IInv, TypeOK, Wait, NoEntry, Entry
  <1>2. CacheFresh'
    BY DEF IInv, TypeOK, Wait, NoEntry, CacheFresh
  <1>3. DriveOf[k] \in Drives /\ published[DriveOf[k]] \in SUBSET Mutations
    BY DriveAssumption DEF IInv, TypeOK
  <1>4. [on |-> o, seen |-> published[DriveOf[k]]] \in Waiting
    BY <1>3 DEF Waiting
  <1>5. reader' \in [Readers -> Waiting]
    BY <1>4 DEF IInv, TypeOK, Wait
  <1>6. /\ reader'[p].on = o /\ reader'[p].seen = published[DriveOf[k]]
        /\ \A q \in Readers \ {p} : reader'[q] = reader[q]
    BY DEF IInv, TypeOK, Wait
  <1> QED
    BY <1>1, <1>2, <1>3, <1>5, <1>6 DEF IInv, PublishedInStore

(* Joining: the pending request reflects what is published, or will.         *)
LEMMA JoinKeeps == ASSUME IInv, NEW p \in Readers, NEW k \in Keys, Join(p, k) PROVE IInv'
  <1> DEFINE o == pending[k]
  <1>1. o \in Readers /\ Wait(p, o, k)
    BY DEF IInv, TypeOK, Join
  <1> HIDE DEF o
  <1>2. load[o].phase # "none" /\ load[o].key = k /\ load[o].invalidated = "no"
    BY <1>1 DEF IInv, PendingExact, o
  <1>3. load' = load /\ pending' = pending /\ store' = store /\ published' = published
    BY <1>1 DEF Join, Wait
  <1>4. TypeOK'
    BY <1>1, <1>3, WaitTypes DEF IInv, TypeOK, Wait
  <1>5. CacheFresh'
    BY <1>1, WaitTypes
  <1>6. WaitersSeeCommitted'
    <2> SUFFICES ASSUME NEW q \in Readers, reader'[q].on # None,
                        load'[reader'[q].on].phase = "listed"
                 PROVE  reader'[q].seen \subseteq load'[reader'[q].on].listing
      BY DEF WaitersSeeCommitted
    <2>1. CASE q = p
      <3>1. reader'[q].on = o /\ reader'[q].seen = published[DriveOf[k]]
        BY <1>1, <2>1, WaitTypes
      <3> QED
        BY <1>1, <1>2, <1>3, <3>1 DEF IInv, PendingFresh
    <2>2. CASE q # p
      <3>1. reader'[q] = reader[q]
        BY <1>1, <2>2, WaitTypes
      <3> QED
        BY <1>3, <3>1 DEF IInv, WaitersSeeCommitted
    <2> QED
      BY <2>1, <2>2
  <1>7. PublishedInStore' /\ PendingExact' /\ PendingFresh'
    BY <1>3 DEF IInv, PublishedInStore, PendingExact, PendingFresh
  <1>8. WaitersWithinStore'
    <2> SUFFICES ASSUME NEW q \in Readers, reader'[q].on # None
                 PROVE  /\ load'[reader'[q].on].phase # "none"
                        /\ reader'[q].seen \subseteq store'[DriveOf[load'[reader'[q].on].key]]
      BY DEF WaitersWithinStore
    <2>1. CASE q = p
      <3>1. reader'[q].on = o /\ reader'[q].seen \subseteq store[DriveOf[k]]
        BY <1>1, <2>1, WaitTypes
      <3> QED
        BY <1>2, <1>3, <3>1
    <2>2. CASE q # p
      <3>1. reader'[q] = reader[q]
        BY <1>1, <2>2, WaitTypes
      <3> QED
        BY <1>3, <3>1 DEF IInv, WaitersWithinStore
    <2> QED
      BY <2>1, <2>2
  <1>9. OwnersWait'
    <2>1. load[p].phase = "none"
      BY NoneAssumption DEF IInv, OwnersWait, Join
    <2> QED
      BY <1>1, <1>3, <2>1, WaitTypes DEF IInv, OwnersWait
  <1> QED
    BY <1>4, <1>5, <1>6, <1>7, <1>8, <1>9 DEF IInv

(* Starting: the request will see the store as it is now, or later.          *)
LEMMA MissKeeps == ASSUME IInv, NEW p \in Readers, NEW k \in Keys, Miss(p, k) PROVE IInv'
  <1>1. Wait(p, p, k) /\ store' = store /\ published' = published
    BY DEF Miss, Wait
  <1>2. load[p].phase = "none"
    BY NoneAssumption DEF IInv, OwnersWait, Miss
  <1>3. /\ load'[p] = [phase |-> "called", key |-> k, invalidated |-> "no", listing |-> {}]
        /\ \A q \in Readers \ {p} : load'[q] = load[q]
    BY DEF IInv, TypeOK, Miss
  <1>4. load' \in [Readers -> Request]
    <2>1. [phase |-> "called", key |-> k, invalidated |-> "no", listing |-> {}] \in Request
      BY DEF Request
    <2> QED
      BY <2>1 DEF IInv, TypeOK, Miss
  <1>5. /\ pending' \in [Keys -> Readers \cup {None}]
        /\ pending'[k] = p /\ \A j \in Keys \ {k} : pending'[j] = pending[j]
    BY DEF IInv, TypeOK, Miss
  <1>6. TypeOK'
    BY <1>1, <1>4, <1>5, WaitTypes DEF IInv, TypeOK, Wait
  <1>7. CacheFresh'
    BY <1>1, WaitTypes
  <1>8. \A q \in Readers : reader'[q].on = p => q = p
    <2> SUFFICES ASSUME NEW q \in Readers, q # p, reader'[q].on = p PROVE FALSE
      OBVIOUS
    <2>1. reader[q].on = p
      BY <1>1, WaitTypes
    <2> QED
      BY <1>2, <2>1, NoneAssumption DEF IInv, WaitersWithinStore
  <1>9. \A q \in Readers \ {p} : /\ reader'[q] = reader[q] /\ reader[q].on # p
                                 /\ reader[q].on \in Readers \cup {None}
    BY <1>1, <1>8, WaitTypes DEF IInv, TypeOK, Waiting
  <1>10. reader'[p].on = p /\ reader'[p].seen \subseteq store[DriveOf[k]]
    BY <1>1, WaitTypes
  <1>11. WaitersSeeCommitted'
    BY <1>3, <1>9, <1>10 DEF IInv, WaitersSeeCommitted
  <1>12. WaitersWithinStore'
    BY <1>1, <1>3, <1>9, <1>10 DEF IInv, WaitersWithinStore
  <1>13. PublishedInStore' /\ PendingFresh' /\ OwnersWait'
    BY <1>1, <1>3, <1>9, <1>10 DEF IInv, PublishedInStore, PendingFresh, OwnersWait
  <1>14. PendingExact'
    <2> SUFFICES ASSUME NEW q \in Readers, NEW j \in Keys
                 PROVE  pending'[j] = q <=> /\ load'[q].phase # "none" /\ load'[q].key = j
                                            /\ load'[q].invalidated = "no"
      BY DEF PendingExact
    <2>1. pending[k] = None
      BY DEF Miss
    <2>2. pending[j] = q <=> /\ load[q].phase # "none" /\ load[q].key = j
                             /\ load[q].invalidated = "no"
      BY DEF IInv, PendingExact
    <2>3. pending[j] # p
      BY <1>2 DEF IInv, PendingExact
    <2>4. CASE q = p
      BY <1>3, <1>5, <2>3, <2>4
    <2>5. CASE q # p
      BY <1>3, <1>5, <2>1, <2>2, <2>5, NoneAssumption
    <2> QED
      BY <2>4, <2>5
  <1> QED
    BY <1>6, <1>7, <1>11, <1>12, <1>13, <1>14 DEF IInv

(* The listing is the store as it is, so it reflects all that is published.  *)
LEMMA ListKeeps == ASSUME IInv, NEW p \in Readers, listObjects(p) PROVE IInv'
  <1>1. UNCHANGED <<store, awaiting, published, cache, rank, pending, reader, writes, fails>>
    BY DEF listObjects
  <1>2. load[p] \in Request /\ DriveOf[load[p].key] \in Drives /\ load[p].phase = "called"
    BY DriveAssumption DEF IInv, TypeOK, Request, listObjects
  <1>3. /\ load'[p] = [phase |-> "listed", key |-> load[p].key,
                       invalidated |-> load[p].invalidated,
                       listing |-> store[DriveOf[load[p].key]]]
        /\ \A q \in Readers \ {p} : load'[q] = load[q]
        /\ load' = [load EXCEPT ![p] = load'[p]]
    BY DEF IInv, TypeOK, listObjects
  <1>4. load'[p] \in Request
    BY <1>2, <1>3 DEF IInv, TypeOK, Request
  <1>5. TypeOK'
    BY <1>1, <1>3, <1>4 DEF IInv, TypeOK
  <1>6. CacheFresh' /\ PublishedInStore'
    BY <1>1 DEF IInv, CacheFresh, PublishedInStore
  <1>7. \A q \in Readers : /\ load'[q].key = load[q].key
                           /\ load'[q].invalidated = load[q].invalidated
                           /\ (load'[q].phase = "none" <=> load[q].phase = "none")
    BY <1>2, <1>3
  <1>8. PendingExact' /\ OwnersWait'
    BY <1>1, <1>7 DEF IInv, PendingExact, OwnersWait
  <1>9. PendingFresh'
    BY <1>1, <1>2, <1>3 DEF IInv, PublishedInStore, PendingFresh
  <1>10. \A q \in Readers : reader[q].on \in Readers \cup {None}
    BY DEF IInv, TypeOK, Waiting
  <1>11. WaitersWithinStore'
    BY <1>1, <1>7, <1>10 DEF IInv, WaitersWithinStore
  <1>12. WaitersSeeCommitted'
    BY <1>1, <1>2, <1>3, <1>10 DEF IInv, WaitersWithinStore, WaitersSeeCommitted
  <1> QED
    BY <1>5, <1>6, <1>8, <1>9, <1>11, <1>12 DEF IInv


(* A request that settles leaves with all its waiters; the ones that remain  *)
(* keep their facts.                                                         *)
LEMMA SettleKeeps ==
  ASSUME IInv, NEW p \in Readers, Settle(p), load[p].phase # "none",
         store' = store, published' = published
  PROVE  /\ pending' \in [Keys -> Readers \cup {None}]
         /\ load' \in [Readers -> Request]
         /\ reader' \in [Readers -> Waiting]
         /\ WaitersSeeCommitted' /\ PublishedInStore' /\ PendingExact' /\ PendingFresh'
         /\ WaitersWithinStore' /\ OwnersWait'
  <1>1. load[p] \in Request /\ load[p].key \in Keys
    BY DEF IInv, TypeOK, Request
  <1>2. /\ load'[p] = [phase |-> "none", key |-> load[p].key, invalidated |-> "no", listing |-> {}]
        /\ \A q \in Readers \ {p} : load'[q] = load[q]
        /\ load' = [load EXCEPT ![p] = load'[p]]
    BY DEF IInv, TypeOK, Settle
  <1>3. load'[p] \in Request
    BY <1>1, <1>2 DEF Request
  <1>4. load' \in [Readers -> Request]
    BY <1>2, <1>3 DEF IInv, TypeOK
  <1>5. /\ reader' \in [Readers -> Waiting]
        /\ \A q \in Readers : \/ reader[q].on = p /\ reader'[q] = NotWaiting
                              \/ reader[q].on # p /\ reader'[q] = reader[q]
    BY DEF IInv, TypeOK, Settle, NotWaiting, Waiting
  <1>6. pending' = [k \in Keys |-> IF pending[k] = p THEN None ELSE pending[k]]
    BY DEF Settle, Forget
  <1>7. pending' \in [Keys -> Readers \cup {None}]
    BY <1>6 DEF IInv, TypeOK
  <1>8. \A q \in Readers : reader'[q].on # None =>
           /\ reader'[q] = reader[q] /\ reader[q].on \in Readers \ {p}
           /\ load'[reader[q].on] = load[reader[q].on]
    BY <1>2, <1>5 DEF IInv, TypeOK, Waiting, NotWaiting
  <1>9. WaitersSeeCommitted'
    BY <1>8 DEF IInv, WaitersSeeCommitted
  <1>10. WaitersWithinStore'
    BY <1>8 DEF IInv, WaitersWithinStore
  <1>11. PublishedInStore' /\ PendingFresh'
    BY <1>2 DEF IInv, PublishedInStore, PendingFresh
  <1>12. OwnersWait'
    BY <1>2, <1>5 DEF IInv, OwnersWait
  <1>13. PendingExact'
    <2> SUFFICES ASSUME NEW q \in Readers, NEW k \in Keys
                 PROVE  pending'[k] = q <=> /\ load'[q].phase # "none" /\ load'[q].key = k
                                            /\ load'[q].invalidated = "no"
      BY DEF PendingExact
    <2>1. pending[k] = q <=> /\ load[q].phase # "none" /\ load[q].key = k
                             /\ load[q].invalidated = "no"
      BY DEF IInv, PendingExact
    <2>2. CASE q = p
      BY <1>2, <1>6, <2>2, NoneAssumption
    <2>3. CASE q # p
      BY <1>2, <1>6, <2>1, <2>3, NoneAssumption
    <2> QED
      BY <2>2, <2>3
  <1> QED
    BY <1>4, <1>5, <1>7, <1>9, <1>10, <1>11, <1>12, <1>13

(* Only a request no write disowned enters the cache, and that one is fresh. *)
LEMMA ResolveKeeps == ASSUME IInv, NEW p \in Readers, Resolve(p) PROVE IInv'
  <1>1. /\ load[p].phase = "listed" /\ Settle(p)
        /\ UNCHANGED <<store, awaiting, published, writes, fails>>
    BY DEF Resolve
  <1>2. load[p] \in Request /\ load[p].key \in Keys /\ load[p].listing \in SUBSET Mutations
    BY DEF IInv, TypeOK, Request
  <1>3. /\ pending' \in [Keys -> Readers \cup {None}]
        /\ load' \in [Readers -> Request]
        /\ reader' \in [Readers -> Waiting]
        /\ WaitersSeeCommitted' /\ PublishedInStore' /\ PendingExact' /\ PendingFresh'
        /\ WaitersWithinStore' /\ OwnersWait'
    BY <1>1, SettleKeeps
  <1>4. rank' \in [Keys -> Int] /\ cache' \in [Keys -> Entry] /\ CacheFresh'
    <2>1. CASE load[p].invalidated = "no"
      <3> DEFINE k == load[p].key
                 new == [cached |-> "yes", listing |-> load[p].listing, ttl |-> TimeToLive]
                 gone == Evicted({j \in Keys : cache[j].cached = "yes"} \cup {k}, Touched(k))
      <3>1. /\ rank' = Touched(k)
            /\ cache' = [j \in Keys |-> IF j \in gone THEN NoEntry
                                        ELSE IF j = k THEN new ELSE cache[j]]
        BY <2>1 DEF Resolve, Cacheable
      <3>2. new \in Entry /\ NoEntry \in Entry
        BY <1>2, BoundAssumption DEF Entry, NoEntry, TimeToLive
      <3>3. published[DriveOf[k]] \subseteq new.listing
        BY <1>1, <2>1 DEF IInv, PendingFresh
      <3>4. rank' \in [Keys -> Int]
        BY <1>2, <3>1, TouchedType DEF IInv
      <3> HIDE DEF k, new, gone
      <3>5. cache' \in [Keys -> Entry]
        BY <3>1, <3>2 DEF IInv, TypeOK
      <3>6. CacheFresh'
        BY <1>1, <3>1, <3>3 DEF IInv, CacheFresh, NoEntry
      <3> QED
        BY <3>4, <3>5, <3>6
    <2>2. CASE load[p].invalidated = "yes"
      <3>1. UNCHANGED <<rank, cache, published>>
        BY <2>2 DEF Resolve, Cacheable
      <3> QED
        BY <3>1 DEF IInv, TypeOK, CacheFresh
    <2> QED
      BY <1>2, <2>1, <2>2 DEF Request
  <1>5. TypeOK'
    BY <1>1, <1>3, <1>4 DEF IInv, TypeOK
  <1> QED
    BY <1>3, <1>4, <1>5 DEF IInv

LEMMA LoadFailsKeeps == ASSUME IInv, NEW p \in Readers, LoadFails(p) PROVE IInv'
  <1>1. /\ load[p].phase # "none" /\ Settle(p)
        /\ UNCHANGED <<store, awaiting, published, cache, rank, writes>>
    BY DEF LoadFails
  <1>2. fails' \in 0..MaxFails
    BY BoundAssumption DEF IInv, TypeOK, LoadFails
  <1>3. /\ pending' \in [Keys -> Readers \cup {None}]
        /\ load' \in [Readers -> Request]
        /\ reader' \in [Readers -> Waiting]
        /\ WaitersSeeCommitted' /\ PublishedInStore' /\ PendingExact' /\ PendingFresh'
        /\ WaitersWithinStore' /\ OwnersWait'
    BY <1>1, SettleKeeps
  <1>4. TypeOK'
    BY <1>1, <1>2, <1>3 DEF IInv, TypeOK
  <1>5. CacheFresh'
    BY <1>1 DEF IInv, CacheFresh
  <1> QED
    BY <1>3, <1>4, <1>5 DEF IInv

(* Time changes no listing. *)
LEMMA AdvanceKeeps == ASSUME IInv, Advance PROVE IInv'
  <1>1. UNCHANGED <<store, awaiting, published, rank, pending, load, reader, writes, fails>>
    BY DEF Advance
  <1>2. \A k \in Keys :
           /\ cache[k].cached \in {"no", "yes"} /\ cache[k].listing \in SUBSET Mutations
           /\ (IF cache[k].ttl > 0 THEN cache[k].ttl - 1 ELSE 0) \in 0..TTL
    BY BoundAssumption DEF IInv, TypeOK, Entry
  <1>3. cache' \in [Keys -> Entry]
    BY <1>2 DEF Advance, Entry
  <1>4. TypeOK'
    BY <1>1, <1>3 DEF IInv, TypeOK
  <1>5. CacheFresh'
    BY <1>1 DEF IInv, CacheFresh, Advance
  <1>6. /\ WaitersSeeCommitted' /\ PublishedInStore' /\ PendingExact' /\ PendingFresh'
        /\ WaitersWithinStore' /\ OwnersWait'
    BY <1>1 DEF IInv, WaitersSeeCommitted, PublishedInStore, PendingExact, PendingFresh,
                WaitersWithinStore, OwnersWait
  <1> QED
    BY <1>4, <1>5, <1>6 DEF IInv

LEMMA NextKeeps == IInv /\ [Next]_vars => IInv'
  <1> SUFFICES ASSUME IInv, [Next]_vars PROVE IInv'
    OBVIOUS
  <1>1. ASSUME NEW d \in Drives, StoreEffect(d) PROVE IInv'
    BY <1>1, StoreEffectKeeps
  <1>2. ASSUME NEW d \in Drives, NEW m \in Mutations, Publish(d, m) PROVE IInv'
    BY <1>2, PublishKeeps
  <1>3. ASSUME NEW m \in Mutations, WriteFails(m) PROVE IInv'
    BY <1>3, WriteFailsKeeps
  <1>4. ASSUME NEW p \in Readers, NEW k \in Keys, Hit(p, k) PROVE IInv'
    BY <1>4, HitKeeps
  <1>5. ASSUME NEW p \in Readers, NEW k \in Keys, Join(p, k) PROVE IInv'
    BY <1>5, JoinKeeps
  <1>6. ASSUME NEW p \in Readers, NEW k \in Keys, Miss(p, k) PROVE IInv'
    BY <1>6, MissKeeps
  <1>7. ASSUME NEW p \in Readers, listObjects(p) PROVE IInv'
    BY <1>7, ListKeeps
  <1>8. ASSUME NEW p \in Readers, Resolve(p) PROVE IInv'
    BY <1>8, ResolveKeeps
  <1>9. ASSUME NEW p \in Readers, LoadFails(p) PROVE IInv'
    BY <1>9, LoadFailsKeeps
  <1>10. CASE Advance
    BY <1>10, AdvanceKeeps
  <1>11. CASE UNCHANGED vars
    <2>1. TypeOK'
      BY <1>11 DEF IInv, TypeOK, vars
    <2>2. CacheFresh' /\ PublishedInStore' /\ PendingExact' /\ PendingFresh'
      BY <1>11 DEF IInv, vars, CacheFresh, PublishedInStore, PendingExact, PendingFresh
    <2>3. WaitersSeeCommitted' /\ WaitersWithinStore' /\ OwnersWait'
      BY <1>11 DEF IInv, vars, WaitersSeeCommitted, WaitersWithinStore, OwnersWait
    <2> QED
      BY <2>1, <2>2, <2>3 DEF IInv
  <1> QED
    BY <1>1, <1>2, <1>3, <1>4, <1>5, <1>6, <1>7, <1>8, <1>9, <1>10, <1>11 DEF Next
-----------------------------------------------------------------------------
(* The invariant of the cache: what is shared and what is cached reflects    *)
(* everything published, what is disowned is neither (glob-cache.ts).        *)
THEOREM InductiveInvariant == Spec => []IInv
  BY InitHolds, NextKeeps, PTL DEF Spec

(* No cached listing is older than a write createVersion, mv or cp has       *)
(* invalidated for, whatever was in flight at that time.                     *)
THEOREM CachedListingsFresh == Spec => []CacheFresh
  <1>1. IInv => CacheFresh
    BY DEF IInv
  <1> QED
    BY <1>1, InductiveInvariant, PTL

(* A glob called after a write was recorded gets a listing with that write,  *)
(* even when it shares a request another reader started.                     *)
THEOREM ReadYourWrites == Spec => []WaitersSeeCommitted
  <1>1. IInv => WaitersSeeCommitted
    BY DEF IInv
  <1> QED
    BY <1>1, InductiveInvariant, PTL

(* At most one ListObjects request per key is in flight and not overtaken:   *)
(* the finally clause never forgets another reader's request.                *)
THEOREM OneLoadPerKey == Spec => []SingleFlight
  <1>1. ASSUME IInv PROVE SingleFlight
    <2> SUFFICES ASSUME NEW p \in Readers, NEW q \in Readers,
                        load[p].phase # "none", load[q].phase # "none",
                        load[p].invalidated = "no", load[q].invalidated = "no",
                        load[p].key = load[q].key
                 PROVE  p = q
      BY DEF SingleFlight
    <2>1. load[p].key \in Keys
      BY <1>1 DEF IInv, TypeOK, Request
    <2> QED
      BY <1>1, <2>1 DEF IInv, PendingExact
  <1> QED
    BY <1>1, InductiveInvariant, PTL
-----------------------------------------------------------------------------
(* The size of the cache. *)

(* Moving one key to the end of the order keeps it strict. *)
LEMMA TouchedStrict ==
  ASSUME TypeOK, OrderStrict, NEW k \in Keys
  PROVE  /\ Touched(k) \in [Keys -> Nat]
         /\ \A i, j \in Keys : Touched(k)[i] = Touched(k)[j] => i = j
  <1>1. \A j \in Keys : Touched(k)[j] = IF j = k THEN 0
                                        ELSE IF rank[j] < rank[k] THEN rank[j] + 1 ELSE rank[j]
    BY DEF Touched
  <1>2. \A j \in Keys : rank[j] \in Nat
    BY DEF OrderStrict
  <1>3. Touched(k) \in [Keys -> Nat]
    BY <1>2 DEF Touched
  <1>4. ASSUME NEW i \in Keys, NEW j \in Keys, Touched(k)[i] = Touched(k)[j] PROVE i = j
    <2>1. (rank[i] = rank[j] => i = j) /\ (rank[i] = rank[k] => i = k) /\ (rank[j] = rank[k] => j = k)
      BY DEF OrderStrict
    <2>2. rank[i] \in Nat /\ rank[j] \in Nat /\ rank[k] \in Nat
      BY <1>2
    <2>3. /\ Touched(k)[i] = IF i = k THEN 0 ELSE IF rank[i] < rank[k] THEN rank[i] + 1 ELSE rank[i]
          /\ Touched(k)[j] = IF j = k THEN 0 ELSE IF rank[j] < rank[k] THEN rank[j] + 1 ELSE rank[j]
      BY <1>1
    <2>4. PICK a, b, c : a = rank[i] /\ b = rank[j] /\ c = rank[k]
      OBVIOUS
    <2>a. a \in Nat /\ b \in Nat /\ c \in Nat
      BY <2>2, <2>4
    <2>b. ASSUME NEW x \in Nat, x # c PROVE 0 # IF x < c THEN x + 1 ELSE x
      BY <2>a, <2>b
    <2>c. CASE i = k /\ j # k
      BY <1>4, <2>1, <2>3, <2>4, <2>a, <2>b, <2>c
    <2>d. CASE j = k /\ i # k
      BY <1>4, <2>1, <2>3, <2>4, <2>a, <2>b, <2>d
    <2>5. CASE i = k \/ j = k
      BY <2>5, <2>c, <2>d
    <2>6. CASE i # k /\ j # k
      <3>1. a \in Nat /\ b \in Nat /\ c \in Nat /\ a # c /\ b # c
        BY <2>1, <2>2, <2>4, <2>6
      <3>2. (IF a < c THEN a + 1 ELSE a) = (IF b < c THEN b + 1 ELSE b)
        BY <1>4, <2>3, <2>4, <2>6
      <3>3. a = b
        BY <3>1, <3>2
      <3> QED
        BY <2>1, <2>4, <3>3
    <2> QED
      BY <2>5, <2>6
  <1> QED
    BY <1>3, <1>4

(* One entry too many has, in a strict order, one that is beyond the last    *)
(* place: otherwise two entries would have the same place.                   *)
LEMMA OneTooMany ==
  ASSUME NEW P, IsFiniteSet(P), Cardinality(P) = MaxEntries + 1, NEW order,
         \A k \in P : order[k] \in Nat,
         \A j, k \in P : order[j] = order[k] => j = k
  PROVE  Evicted(P, order) # {}
  <1> SUFFICES ASSUME Evicted(P, order) = {} PROVE FALSE
    OBVIOUS
  <1> DEFINE Below(k) == {j \in P : order[j] < order[k]}
             place == [k \in P |-> Cardinality(Below(k))]
  <1>1. \A k \in P : Below(k) \in SUBSET P
    OBVIOUS
  <1>2. \A k \in P : IsFiniteSet(Below(k)) /\ Cardinality(Below(k)) \in Nat
    BY <1>1, FS_Subset, FS_CardinalityType
  <1>3. ASSUME NEW k \in P PROVE Cardinality(Below(k)) \in 0 .. MaxEntries - 1
    <2>1. ~(Cardinality(Below(k)) >= MaxEntries)
      BY DEF Evicted
    <2>2. Cardinality(Below(k)) \in Nat
      BY <1>2
    <2> HIDE DEF Below
    <2> QED
      BY <2>1, <2>2, BoundAssumption
  <1>4. place \in [P -> 0 .. MaxEntries - 1]
    <2> HIDE DEF Below
    <2> QED
      BY <1>3
  <1>5. IsFiniteSet(0 .. MaxEntries - 1) /\ Cardinality(0 .. MaxEntries - 1) = MaxEntries
    BY FS_Interval, BoundAssumption
  <1> HIDE DEF place
  <1>6. PICK x \in P, y \in P : x # y /\ place[x] = place[y]
    BY <1>4, <1>5, FS_PigeonHole, BoundAssumption
  <1> USE DEF place
  <1>7. ASSUME NEW a \in P, NEW b \in P, order[a] < order[b]
        PROVE  Cardinality(Below(a)) # Cardinality(Below(b))
    <2>1. Below(a) \in SUBSET Below(b) /\ a \in Below(b) /\ a \notin Below(a)
      BY <1>7
    <2> HIDE DEF Below
    <2> QED
      BY <1>2, <2>1, FS_Subset
  <1>8. order[x] < order[y] \/ order[y] < order[x]
    BY <1>6
  <1> QED
    BY <1>6, <1>7, <1>8

(* An insertion evicts what is too much. *)
LEMMA InsertionBounded ==
  ASSUME NEW S, IsFiniteSet(S), Cardinality(S) <= MaxEntries, NEW k, NEW order,
         \A j \in S \cup {k} : order[j] \in Nat,
         \A i, j \in S \cup {k} : order[i] = order[j] => i = j,
         NEW T, T \subseteq (S \cup {k}) \ Evicted(S \cup {k}, order)
  PROVE  IsFiniteSet(T) /\ Cardinality(T) <= MaxEntries
  <1> DEFINE P == S \cup {k}
             gone == Evicted(P, order)
  <1>1. /\ IsFiniteSet(P) /\ Cardinality(P) \in Nat /\ Cardinality(S) \in Nat
        /\ Cardinality(P) <= MaxEntries \/ Cardinality(P) = MaxEntries + 1
    BY FS_AddElement, FS_CardinalityType, BoundAssumption
  <1> HIDE DEF P
  <1>2. T \in SUBSET P /\ T \cap gone = {} /\ gone \subseteq P
    BY DEF P, Evicted
  <1>3. IsFiniteSet(T) /\ Cardinality(T) <= Cardinality(P) /\ (Cardinality(P) = Cardinality(T) => P = T)
    BY <1>1, <1>2, FS_Subset
  <1>4. Cardinality(T) \in Nat
    BY <1>3, FS_CardinalityType
  <1>5. Cardinality(P) = MaxEntries + 1 => gone # {}
    BY <1>1, OneTooMany DEF P
  <1> QED
    BY <1>1, <1>2, <1>3, <1>4, <1>5, BoundAssumption

LEMMA PresentShrinks ==
  ASSUME BInv, Present' \subseteq Present
  PROVE  IsFiniteSet(Present') /\ CacheBounded'
  <1>1. IsFiniteSet(Present) /\ Cardinality(Present) <= MaxEntries
    BY DEF BInv, CacheBounded, Present
  <1> DEFINE T == Present'
  <1>2. IsFiniteSet(T) /\ Cardinality(T) <= Cardinality(Present)
    BY <1>1, FS_Subset
  <1>3. Cardinality(T) \in Nat /\ Cardinality(Present) \in Nat
    BY <1>1, <1>2, FS_CardinalityType
  <1> QED
    BY <1>1, <1>2, <1>3, BoundAssumption DEF CacheBounded, Present

LEMMA ResolveBounded ==
  ASSUME IInv, BInv, NEW p \in Readers, Resolve(p), Cacheable(p)
  PROVE  OrderStrict' /\ IsFiniteSet(Present)' /\ CacheBounded'
  <1>1. PICK k : k = load[p].key
    OBVIOUS
  <1>2. k \in Keys
    BY <1>1 DEF IInv, TypeOK, Request
  <1> DEFINE gone == Evicted(Present \cup {k}, Touched(k))
  <1>3. /\ rank' = Touched(k)
        /\ cache' = [j \in Keys |-> IF j \in gone THEN NoEntry
                                    ELSE IF j = k
                                         THEN [cached |-> "yes", listing |-> load[p].listing, ttl |-> TimeToLive]
                                    ELSE cache[j]]
    BY <1>1 DEF Resolve, Present
  <1>4. /\ Touched(k) \in [Keys -> Nat]
        /\ \A i, j \in Keys : Touched(k)[i] = Touched(k)[j] => i = j
    BY <1>2, TouchedStrict DEF IInv, BInv
  <1>5. OrderStrict'
    BY <1>3, <1>4 DEF OrderStrict
  <1>6. IsFiniteSet(Present) /\ Cardinality(Present) <= MaxEntries /\ Present \cup {k} \subseteq Keys
    BY <1>2 DEF BInv, CacheBounded, Present
  <1> DEFINE T == {j \in Keys : cache'[j].cached = "yes"}
  <1>7. T \subseteq (Present \cup {k}) \ gone
    <2> HIDE DEF gone
    <2> QED
      BY <1>3 DEF Present, NoEntry
  <1> HIDE DEF T
  <1>8. IsFiniteSet(T) /\ Cardinality(T) <= MaxEntries
    BY <1>4, <1>6, <1>7, InsertionBounded
  <1> QED
    BY <1>5, <1>8 DEF T, Present, CacheBounded

LEMMA NextBounded == ASSUME IInv, BInv, [Next]_vars PROVE BInv'
  <1>1. OrderStrict' /\ (Present' \subseteq Present \/ (IsFiniteSet(Present)' /\ CacheBounded'))
    <2>1. CASE UNCHANGED <<rank, cache>>
      BY <2>1 DEF BInv, OrderStrict, Present
    <2>2. ASSUME NEW d \in Drives, NEW m \in Mutations, Publish(d, m)
          PROVE  OrderStrict' /\ Present' \subseteq Present
      BY <2>2 DEF BInv, OrderStrict, Present, Publish, invalidateDriveGlobListings, NoEntry
    <2>3. ASSUME NEW p \in Readers, NEW k \in Keys, Hit(p, k)
          PROVE  OrderStrict' /\ Present' \subseteq Present
      <3>1. rank' = Touched(k) /\ cache' = cache
        BY <2>3 DEF Hit
      <3>2. OrderStrict'
        BY <3>1, TouchedStrict DEF IInv, BInv, OrderStrict
      <3> QED
        BY <3>1, <3>2 DEF Present
    <2>4. ASSUME NEW p \in Readers, NEW k \in Keys, Join(p, k) \/ Miss(p, k)
          PROVE  OrderStrict' /\ Present' \subseteq Present
      BY <2>4 DEF IInv, TypeOK, BInv, OrderStrict, Present, Join, Miss, Wait, NoEntry
    <2>5. CASE Advance
      BY <2>5 DEF BInv, OrderStrict, Present, Advance
    <2>6. ASSUME NEW p \in Readers, Resolve(p), Cacheable(p)
          PROVE  OrderStrict' /\ IsFiniteSet(Present)' /\ CacheBounded'
      BY <2>6, ResolveBounded
    <2>7. \/ UNCHANGED <<rank, cache>> \/ Advance
          \/ \E d \in Drives, m \in Mutations : Publish(d, m)
          \/ \E p \in Readers, k \in Keys : Hit(p, k) \/ Join(p, k) \/ Miss(p, k)
          \/ \E p \in Readers : Resolve(p) /\ Cacheable(p)
      BY DEF Next, vars, StoreEffect, WriteFails, listObjects, LoadFails, Resolve
    <2> QED
      BY <2>1, <2>2, <2>3, <2>4, <2>5, <2>6, <2>7
  <1> QED
    BY <1>1, PresentShrinks DEF BInv

(* The Map never holds more than MAX_ENTRIES listings: an insertion is       *)
(* followed by the eviction of the oldest (getCachedDriveListing).            *)
THEOREM CacheStaysBounded == Spec => []CacheBounded
  <1>1. Init => BInv
    <2> SUFFICES ASSUME Init PROVE BInv
      OBVIOUS
    <2>1. Present = {}
      BY DEF Init, Present, NoEntry
    <2>2. OrderStrict
      BY DEF Init, OrderStrict
    <2> QED
      BY <2>1, <2>2, FS_EmptySet, BoundAssumption DEF BInv, CacheBounded, Present
  <1>2. IInv /\ BInv /\ [Next]_vars => BInv'
    BY NextBounded
  <1>3. BInv => CacheBounded
    BY DEF BInv
  <1> QED
    BY <1>1, <1>2, <1>3, InductiveInvariant, PTL DEF Spec
===============================================================================
