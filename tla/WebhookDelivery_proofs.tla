----------------------- MODULE WebhookDelivery_proofs -----------------------
(* Theorems about WebhookDelivery, for every set of hooks, events and admins, *)
(* every schedule and every bound.                                            *)
EXTENDS WebhookDelivery, TLAPS

LEMMA DeliveryParts ==
    /\ \A r \in Deliveries : r[1] \in Hooks /\ r[2] \in Events
    /\ Len(Schedule) \in Nat
  BY ScheduleAssumption DEF Deliveries

LEMMA ElapsedLeaseType ==
    \A l \in Nat \cup {Null, Past} : ElapsedLease(l) \in Nat \cup {Null, Past}
  BY DEF ElapsedLease, Null, Past

LEMMA AgedType == \A row \in Delivery : Aged(row) \in Delivery
  <1> SUFFICES ASSUME NEW row \in Delivery PROVE Aged(row) \in Delivery
    OBVIOUS
  <1>1. CASE row.status = "none"
    BY <1>1 DEF Aged
  <1>2. CASE row.status # "none"
    <2>1. ElapsedLease(row.lease) \in Nat \cup {Null, Past}
      BY ElapsedLeaseType DEF Delivery
    <2>2. Elapsed(row.wait) \in Nat
      BY DEF Delivery, Elapsed
    <2>3. Older(row.age, Retention + 1) \in Nat
      BY TimesAssumption DEF Delivery, Older
    <2> QED
      BY <1>2, <2>1, <2>2, <2>3 DEF Aged, Row, Delivery
  <1> QED
    BY <1>1, <1>2

LEMMA InitHolds == Init => IInv
  <1> SUFFICES ASSUME Init PROVE IInv
    OBVIOUS
  <1>1. TypeOK
    BY LimitsAssumption DEF Init, TypeOK, Hook, Delivery, Claim, Update, NoRow, Row, NoClaim, Null, Past
  <1>2. OnlyEnabledOwed
    BY DEF Init, OnlyEnabledOwed, NoRow, Row
  <1>3. AttemptsAccounted
    BY DeliveryParts DEF Init, AttemptsAccounted, NoRow, Row
  <1>4. ClaimsMatch /\ DownIsIdle
    BY DEF Init, ClaimsMatch, DownIsIdle, Idle, InFlight, NoClaim
  <1>5. AttemptLeft
    BY DEF Init, AttemptLeft, NoRow, Row
  <1>6. FailingWithinQuiet
    BY DEF Init, FailingWithinQuiet, Null
  <1> QED
    BY <1>1, <1>2, <1>3, <1>4, <1>5, <1>6 DEF IInv

(* Time changes no status and no count, moves a lease and the claim that     *)
(* holds it together, and ages failing_since no faster than quiet.           *)
LEMMA AdvanceKeeps == ASSUME IInv, Advance PROVE IInv'
  <1> USE DEF Null, Past
  <1>1. TypeOK'
    <2>1. rows' \in [Deliveries -> Delivery]
      BY AgedType DEF IInv, TypeOK, Advance
    <2>2. claims' \in [Deliveries -> Claim]
      BY ElapsedLeaseType DEF IInv, TypeOK, Advance, Claim
    <2>3. hooks' \in [Hooks -> Hook]
      BY TimesAssumption DEF IInv, TypeOK, Advance, Hook, Older
    <2>4. quiet' \in [Hooks -> Nat]
      BY TimesAssumption DEF IInv, TypeOK, Advance, Older
    <2> QED
      BY <2>1, <2>2, <2>3, <2>4 DEF IInv, TypeOK, Advance
  <1>2. /\ \A r \in Deliveries : /\ rows'[r].status = rows[r].status
                                 /\ rows'[r].attempts = rows[r].attempts
                                 /\ rows[r].status = "pending"
                                       => rows'[r].lease = ElapsedLease(rows[r].lease)
                                 /\ claims'[r].inFlight = claims[r].inFlight
                                 /\ claims'[r].attempts = claims[r].attempts
                                 /\ claims'[r].lease = ElapsedLease(claims[r].lease)
        /\ \A h \in Hooks : hooks'[h].state = hooks[h].state
    BY DEF IInv, TypeOK, Advance, Aged, Row, Delivery, Claim, Hook
  <1>3. OnlyEnabledOwed'
    BY <1>2, DeliveryParts DEF IInv, OnlyEnabledOwed
  <1>4. AttemptsAccounted'
    BY <1>2 DEF IInv, AttemptsAccounted, Advance
  <1>5. ClaimsMatch'
    BY <1>2 DEF IInv, TypeOK, Delivery, Claim, ClaimsMatch, InFlight, ElapsedLease
  <1>6. DownIsIdle'
    BY <1>2 DEF IInv, DownIsIdle, Idle, Advance
  <1>7. AttemptLeft'
    BY <1>2 DEF IInv, TypeOK, Delivery, Claim, AttemptLeft, InFlight, Fenced, ElapsedLease, Advance
  <1>8. FailingWithinQuiet'
    BY <1>2, TimesAssumption DEF IInv, TypeOK, Hook, FailingWithinQuiet, Exists, Older, Advance
  <1> QED
    BY <1>1, <1>3, <1>4, <1>5, <1>6, <1>7, <1>8 DEF IInv

LEMMA EnqueueKeeps == ASSUME IInv, NEW e \in Events, Enqueue(e) PROVE IInv'
  <1> USE DEF Null, Past
  <1>1. TypeOK'
    BY DEF IInv, TypeOK, Enqueue, NewDelivery, Row, Delivery
  <1>2. \A r \in Deliveries : rows'[r] = rows[r] \/ (rows'[r] = NewDelivery /\ hooks[r[1]].state = "enabled")
    BY DEF IInv, TypeOK, Enqueue
  <1>3. OnlyEnabledOwed'
    BY <1>2 DEF IInv, OnlyEnabledOwed, Enqueue
  <1>4. AttemptsAccounted' /\ AttemptLeft'
    BY <1>2, DeliveryParts DEF IInv, TypeOK, AttemptsAccounted, AttemptLeft, InFlight, Fenced, Enqueue, NewDelivery, Row
  <1>5. ClaimsMatch' /\ DownIsIdle'
    BY <1>2 DEF IInv, ClaimsMatch, DownIsIdle, Idle, InFlight, Enqueue, NewDelivery, Row
  <1>6. FailingWithinQuiet'
    BY DEF IInv, FailingWithinQuiet, Exists, Enqueue
  <1> QED
    BY <1>1, <1>3, <1>4, <1>5, <1>6 DEF IInv

(* disableSubscription leaves no row of the hook queued and touches no other. *)
LEMMA DisableRows ==
    ASSUME NEW table \in [Deliveries -> Delivery], NEW h \in Hooks
    PROVE  /\ RowsDisabled(table, h) \in [Deliveries -> Delivery]
           /\ \A r \in Deliveries :
                 /\ RowsDisabled(table, h)[r].attempts = table[r].attempts
                 /\ r[1] = h => RowsDisabled(table, h)[r].status # "pending"
                 /\ r[1] # h => RowsDisabled(table, h)[r] = table[r]
                 /\ RowsDisabled(table, h)[r].status # "pending" \/ RowsDisabled(table, h)[r] = table[r]
  <1>1. \A row \in Delivery : /\ FailedByDisable(row) \in Delivery
                              /\ FailedByDisable(row).attempts = row.attempts
                              /\ FailedByDisable(row).status # "pending"
    BY DEF FailedByDisable, Row, Delivery, Null, Past
  <1> QED
    BY <1>1 DEF RowsDisabled

LEMMA CreateKeeps == ASSUME IInv, NEW h \in Hooks, webhookCreate(h) PROVE IInv'
  <1> USE DEF Null, Past
  <1>1. TypeOK'
    BY LimitsAssumption DEF IInv, TypeOK, webhookCreate, Hook
  <1>2. OnlyEnabledOwed'
    BY DeliveryParts DEF IInv, TypeOK, OnlyEnabledOwed, webhookCreate
  <1>3. AttemptsAccounted' /\ AttemptLeft'
    BY DEF IInv, AttemptsAccounted, AttemptLeft, InFlight, Fenced, webhookCreate
  <1>4. ClaimsMatch' /\ DownIsIdle'
    BY DEF IInv, ClaimsMatch, DownIsIdle, Idle, InFlight, webhookCreate
  <1>5. FailingWithinQuiet'
    BY DEF IInv, TypeOK, Hook, FailingWithinQuiet, Exists, webhookCreate
  <1> QED
    BY <1>1, <1>2, <1>3, <1>4, <1>5 DEF IInv

(* The write of an update keeps the invariant whatever the handler had seen. *)
LEMMA ApplyUpdateKeeps ==
    ASSUME IInv, NEW h \in Hooks, NEW enable, NEW rotate, NEW seen,
           ApplyUpdate(h, enable, rotate, seen),
           UNCHANGED <<happened, worker, claims, faults, cuts, redeliveries>>,
           upd' \in [Admins -> Update], ops' \in 0..MaxOps
    PROVE  IInv'
  <1> USE DEF Null, Past
  <1> DEFINE off == enable = "off" /\ seen = "enabled"
  <1>1. rows' \in [Deliveries -> Delivery]
    BY DisableRows DEF IInv, TypeOK, ApplyUpdate
  <1>2. \A r \in Deliveries :
           /\ rows'[r].attempts = rows[r].attempts
           /\ rows'[r].status # "pending" \/ rows'[r] = rows[r]
           /\ off /\ r[1] = h => rows'[r].status # "pending"
    BY DisableRows DEF IInv, TypeOK, ApplyUpdate
  <1>3. hooks' \in [Hooks -> Hook] /\ quiet' \in [Hooks -> Nat]
    BY DEF IInv, TypeOK, ApplyUpdate, Hook, Disabled
  <1>4. TypeOK'
    BY <1>1, <1>3 DEF IInv, TypeOK, ApplyUpdate
  <1>5. \A g \in Hooks : (g # h \/ ~off) /\ hooks[g].state = "enabled" => hooks'[g].state = "enabled"
    BY DEF IInv, TypeOK, Hook, ApplyUpdate, Exists
  <1>6. OnlyEnabledOwed'
    BY <1>2, <1>5, DeliveryParts DEF IInv, OnlyEnabledOwed
  <1>7. AttemptsAccounted' /\ AttemptLeft'
    BY <1>2 DEF IInv, AttemptsAccounted, AttemptLeft, InFlight, Fenced
  <1>8. ClaimsMatch' /\ DownIsIdle'
    BY <1>2 DEF IInv, ClaimsMatch, DownIsIdle, Idle, InFlight
  <1>9. FailingWithinQuiet'
    BY DEF IInv, TypeOK, Hook, FailingWithinQuiet, Exists, ApplyUpdate, Disabled
  <1> QED
    BY <1>4, <1>6, <1>7, <1>8, <1>9 DEF IInv

LEMMA UpdateKeeps ==
    ASSUME IInv, NEW h \in Hooks, NEW enable, NEW rotate, webhookUpdate(h, enable, rotate)
    PROVE  IInv'
  <1>1. upd' \in [Admins -> Update] /\ ops' \in 0..MaxOps
    BY LimitsAssumption DEF IInv, TypeOK, webhookUpdate
  <1> QED
    BY <1>1, ApplyUpdateKeeps DEF webhookUpdate

LEMMA UpdateWritesKeeps == ASSUME IInv, NEW a \in Admins, UpdateWrites(a) PROVE IInv'
  <1>1. upd[a].hook \in Hooks
    BY DEF IInv, TypeOK, Update
  <1>2. upd' \in [Admins -> Update] /\ ops' \in 0..MaxOps
    BY DEF IInv, TypeOK, UpdateWrites, Answered, Update
  <1> QED
    BY <1>1, <1>2, ApplyUpdateKeeps DEF UpdateWrites

(* Actions that leave the tables, the claims and the histories alone.        *)
LEMMA FrameKeeps ==
    ASSUME IInv, UNCHANGED <<hooks, rows, claims, worker, happened, quiet, cuts, redeliveries>>,
           upd' \in [Admins -> Update], unreadable' \subseteq Hooks,
           faults' \in 0..MaxFaults, ops' \in 0..MaxOps
    PROVE  IInv'
  <1>1. TypeOK'
    BY DEF IInv, TypeOK
  <1>2. OnlyEnabledOwed' /\ AttemptsAccounted' /\ AttemptLeft'
    BY DEF IInv, OnlyEnabledOwed, AttemptsAccounted, AttemptLeft, InFlight, Fenced
  <1>3. ClaimsMatch' /\ DownIsIdle' /\ FailingWithinQuiet'
    BY DEF IInv, ClaimsMatch, DownIsIdle, Idle, InFlight, FailingWithinQuiet, Exists
  <1> QED
    BY <1>1, <1>2, <1>3 DEF IInv

LEMMA UpdateReadsKeeps ==
    ASSUME IInv, NEW a \in Admins, NEW h \in Hooks, NEW enable \in {"keep", "on", "off"},
           NEW rotate \in {"no", "yes"}, UpdateReads(a, h, enable, rotate)
    PROVE  IInv'
  <1>1. hooks[h].state \in {"enabled", "disabled"}
    BY DEF UpdateReads, Exists
  <1>2. upd' \in [Admins -> Update]
    BY <1>1 DEF IInv, TypeOK, UpdateReads, Update
  <1>3. ops' \in 0..MaxOps
    BY LimitsAssumption DEF IInv, TypeOK, UpdateReads
  <1> QED
    BY <1>2, <1>3, FrameKeeps DEF IInv, TypeOK, UpdateReads

LEMMA UpdateRefusedKeeps == ASSUME IInv, NEW a \in Admins, UpdateRefused(a) PROVE IInv'
  <1>1. upd' \in [Admins -> Update]
    BY DEF IInv, TypeOK, UpdateRefused, Answered, Update
  <1> QED
    BY <1>1, FrameKeeps DEF IInv, TypeOK, UpdateRefused

LEMMA KeyKeeps ==
    ASSUME IInv, NEW h \in Hooks, LoseKey(h) \/ RestoreKey(h)
    PROVE  IInv'
  <1>1. CASE LoseKey(h)
    <2>1. faults' \in 0..MaxFaults
      BY <1>1, LimitsAssumption DEF IInv, TypeOK, LoseKey
    <2> QED
      BY <1>1, <2>1, FrameKeeps DEF IInv, TypeOK, LoseKey
  <1>2. CASE RestoreKey(h)
    BY <1>2, FrameKeeps DEF IInv, TypeOK, RestoreKey
  <1> QED
    BY <1>1, <1>2

LEMMA DeleteKeeps == ASSUME IInv, NEW h \in Hooks, webhookDelete(h) PROVE IInv'
  <1> USE DEF Null, Past
  <1>1. TypeOK'
    BY LimitsAssumption DEF IInv, TypeOK, webhookDelete, Hook, NoRow, Row, Delivery
  <1>2. \A r \in Deliveries : rows'[r] = NoRow \/ (rows'[r] = rows[r] /\ hooks'[r[1]] = hooks[r[1]])
    BY DeliveryParts DEF IInv, TypeOK, webhookDelete
  <1>3. OnlyEnabledOwed'
    BY <1>2 DEF IInv, OnlyEnabledOwed, NoRow, Row
  <1>4. AttemptsAccounted' /\ AttemptLeft'
    BY <1>2, DeliveryParts DEF IInv, TypeOK, AttemptsAccounted, AttemptLeft, InFlight, Fenced, NoRow, Row, webhookDelete
  <1>5. ClaimsMatch' /\ DownIsIdle'
    BY <1>2 DEF IInv, ClaimsMatch, DownIsIdle, Idle, InFlight, NoRow, Row, webhookDelete
  <1>6. FailingWithinQuiet'
    BY DEF IInv, TypeOK, Hook, FailingWithinQuiet, Exists, webhookDelete
  <1> QED
    BY <1>1, <1>3, <1>4, <1>5, <1>6 DEF IInv

LEMMA RedeliverKeeps == ASSUME IInv, NEW r \in Deliveries, webhookRedeliver(r) PROVE IInv'
  <1> USE DEF Null, Past
  <1>1. TypeOK'
    BY LimitsAssumption DEF IInv, TypeOK, webhookRedeliver, Row, Delivery
  <1>2. /\ rows'[r].status = "pending" /\ rows'[r].lease = Null
        /\ rows'[r].attempts = rows[r].attempts
        /\ redeliveries'[r] = redeliveries[r] + 1
        /\ \A q \in Deliveries \ {r} : rows'[q] = rows[q] /\ redeliveries'[q] = redeliveries[q]
    BY DEF IInv, TypeOK, webhookRedeliver, Row
  <1>3. OnlyEnabledOwed'
    BY <1>2 DEF IInv, OnlyEnabledOwed, webhookRedeliver, Redeliverable
  <1>4. rows[r].attempts \in Nat /\ cuts[r] \in Nat /\ redeliveries[r] \in Nat
    BY DEF IInv, TypeOK, Delivery
  <1>5. AttemptsAccounted' /\ AttemptLeft'
    <2>1. claims' = claims /\ cuts' = cuts
      BY DEF webhookRedeliver
    <2>2. rows'[r].attempts <= Len(Schedule) + cuts'[r] + redeliveries'[r]
      BY <1>2, <1>4, <2>1, DeliveryParts DEF IInv, AttemptsAccounted
    <2>3. rows'[r].attempts <= Len(Schedule) + 1 + cuts'[r] + redeliveries'[r]
      BY <1>2, <1>4, <2>1, <2>2, DeliveryParts
    <2>4. AttemptsAccounted'
      BY <1>2, <2>1, <2>3 DEF IInv, AttemptsAccounted
    <2>5. AttemptLeft'
      BY <1>2, <2>1, <2>2 DEF IInv, AttemptLeft, InFlight, Fenced
    <2> QED
      BY <2>4, <2>5
  <1>6. ClaimsMatch' /\ DownIsIdle'
    BY <1>2 DEF IInv, ClaimsMatch, DownIsIdle, Idle, InFlight, webhookRedeliver
  <1>7. FailingWithinQuiet'
    BY DEF IInv, FailingWithinQuiet, Exists, webhookRedeliver
  <1> QED
    BY <1>1, <1>3, <1>5, <1>6, <1>7 DEF IInv

(* Pruning removes settled rows only. *)
LEMMA PruneRows ==
    ASSUME IInv
    PROVE  /\ Pruned(rows) \in [Deliveries -> Delivery]
           /\ \A r \in Deliveries :
                 \/ Pruned(rows)[r] = rows[r]
                 \/ Pruned(rows)[r] = NoRow /\ rows[r].status # "pending"
  BY DEF IInv, TypeOK, Pruned, Prunable, NoRow, Row, Delivery, Null, Past

LEMMA PruneKeeps == ASSUME IInv, Prune PROVE IInv'
  <1> USE DEF Null, Past
  <1>1. TypeOK'
    BY PruneRows DEF IInv, TypeOK, Prune
  <1>2. \A r \in Deliveries : rows'[r] = rows[r] \/ rows'[r] = NoRow
    BY PruneRows DEF Prune
  <1>3. OnlyEnabledOwed'
    BY <1>2 DEF IInv, OnlyEnabledOwed, NoRow, Row, Prune
  <1>4. AttemptsAccounted' /\ AttemptLeft'
    <2>1. \A r \in Deliveries : cuts[r] \in Nat /\ redeliveries[r] \in Nat
      BY DEF IInv, TypeOK
    <2>2. NoRow.status = "none" /\ NoRow.attempts = 0
      BY DEF NoRow, Row
    <2>3. AttemptsAccounted'
      BY <1>2, <2>1, <2>2, DeliveryParts DEF IInv, AttemptsAccounted, Prune
    <2>4. AttemptLeft'
      BY <1>2, <2>2 DEF IInv, AttemptLeft, InFlight, Fenced, Prune
    <2> QED
      BY <2>3, <2>4
  <1>5. ClaimsMatch' /\ DownIsIdle' /\ FailingWithinQuiet'
    BY <1>2 DEF IInv, ClaimsMatch, DownIsIdle, Idle, InFlight, NoRow, Row, FailingWithinQuiet, Exists, Prune
  <1> QED
    BY <1>1, <1>3, <1>4, <1>5 DEF IInv

(* A claim by an idle worker, on the table as it is or just pruned: every    *)
(* claimed row had an attempt left, and a deferred row gets it back.         *)
LEMMA ClaimsKeep ==
    ASSUME IInv, Idle, NEW table \in [Deliveries -> Delivery], NEW S \in SUBSET Due(table),
           \A r \in Deliveries : table[r] = rows[r] \/ (table[r] = NoRow /\ rows[r].status # "pending"),
           Claims(table, S), worker' = "running",
           UNCHANGED <<hooks, happened, upd, unreadable, faults, ops, quiet, cuts, redeliveries>>
    PROVE  IInv'
  <1> USE DEF Null, Past
  <1>1. \A r \in S : /\ r \in Deliveries /\ rows[r].status = "pending" /\ table[r] = rows[r]
                     /\ rows[r].attempts <= Len(Schedule) + cuts[r] + redeliveries[r]
    BY DEF IInv, AttemptLeft, Due, Claimable, NoRow, Row, Idle, InFlight
  <1>2. \A row \in Delivery :
           /\ Claimed(row) \in Delivery
           /\ Claimed(row).status = row.status /\ Claimed(row).attempts = row.attempts + 1
           /\ Claimed(row).lease = LeaseTime
           /\ Deferred(Claimed(row)) \in Delivery
           /\ Deferred(Claimed(row)).status = row.status /\ Deferred(Claimed(row)).attempts = row.attempts
    BY TimesAssumption DEF Claimed, Deferred, Row, Delivery
  <1>3. \A r \in Deliveries : rows[r] \in Delivery /\ cuts[r] \in Nat /\ redeliveries[r] \in Nat
                              /\ rows[r].attempts \in Nat
    BY DEF IInv, TypeOK, Delivery
  <1>4. \A r \in Deliveries :
           \/ rows'[r] = table[r] /\ claims'[r] = NoClaim
           \/ r \in S /\ rows'[r] = Deferred(Claimed(rows[r])) /\ claims'[r] = NoClaim
           \/ /\ r \in S /\ rows'[r] = Claimed(rows[r])
              /\ claims'[r] = [inFlight |-> "yes", lease |-> LeaseTime, attempts |-> rows[r].attempts + 1]
    BY <1>1, <1>2, <1>3 DEF Claims
  <1>5. ASSUME NEW r \in Deliveries
        PROVE  /\ rows'[r] \in Delivery /\ claims'[r] \in Claim
               /\ rows'[r].status = "pending" => rows[r].status = "pending"
               /\ rows'[r].attempts <= Len(Schedule) + 1 + cuts[r] + redeliveries[r]
               /\ claims'[r].inFlight = "yes" =>
                     /\ claims'[r].lease # Null /\ rows'[r].lease = claims'[r].lease
                     /\ rows'[r].attempts = claims'[r].attempts
               /\ rows'[r].status = "pending" /\ claims'[r].inFlight # "yes" =>
                     rows'[r].attempts <= Len(Schedule) + cuts[r] + redeliveries[r]
    <2>1. /\ rows[r] \in Delivery /\ rows[r].attempts \in Nat
          /\ cuts[r] \in Nat /\ redeliveries[r] \in Nat /\ Len(Schedule) \in Nat
          /\ rows[r].attempts <= Len(Schedule) + 1 + cuts[r] + redeliveries[r]
          /\ rows[r].status = "pending" =>
                rows[r].attempts <= Len(Schedule) + cuts[r] + redeliveries[r]
      BY <1>3, DeliveryParts DEF IInv, AttemptsAccounted, AttemptLeft, Idle, InFlight
    <2>2. NoClaim \in Claim /\ NoClaim.inFlight = "no" /\ NoRow.status = "none" /\ NoRow.attempts = 0
      BY DEF NoClaim, Claim, NoRow, Row
    <2>3. CASE rows'[r] = table[r] /\ claims'[r] = NoClaim
      BY <2>1, <2>2, <2>3
    <2>4. CASE r \in S /\ rows'[r] = Deferred(Claimed(rows[r])) /\ claims'[r] = NoClaim
      BY <1>1, <1>2, <2>1, <2>2, <2>4
    <2>5. CASE /\ r \in S /\ rows'[r] = Claimed(rows[r])
               /\ claims'[r] = [inFlight |-> "yes", lease |-> LeaseTime, attempts |-> rows[r].attempts + 1]
      <3>1. claims'[r] \in Claim /\ claims'[r].lease = LeaseTime /\ claims'[r].inFlight = "yes"
            /\ claims'[r].attempts = rows[r].attempts + 1
        BY <2>1, <2>5, TimesAssumption DEF Claim
      <3>2. /\ rows'[r] \in Delivery /\ rows'[r].status = rows[r].status
            /\ rows'[r].attempts = rows[r].attempts + 1 /\ rows'[r].lease = LeaseTime
        BY <1>2, <2>1, <2>5
      <3>3. rows'[r].attempts <= Len(Schedule) + 1 + cuts[r] + redeliveries[r]
        <4>1. rows[r].attempts <= Len(Schedule) + cuts[r] + redeliveries[r]
          BY <1>1, <2>5
        <4> QED
          BY <2>1, <3>2, <4>1
      <3>4. claims'[r].lease # Null
        BY <3>1, TimesAssumption
      <3> QED
        BY <3>1, <3>2, <3>3, <3>4
    <2> QED
      BY <1>4, <2>3, <2>4, <2>5
  <1>6. TypeOK'
    <2>1. rows' \in [Deliveries -> Delivery] /\ claims' \in [Deliveries -> Claim]
      BY <1>5 DEF Claims
    <2> QED
      BY <2>1 DEF IInv, TypeOK
  <1>7. OnlyEnabledOwed' /\ AttemptsAccounted'
    BY <1>5 DEF IInv, OnlyEnabledOwed, AttemptsAccounted
  <1>8. ClaimsMatch'
    BY <1>5 DEF ClaimsMatch, InFlight
  <1>9. AttemptLeft'
    BY <1>5 DEF AttemptLeft, InFlight, Fenced
  <1>10. DownIsIdle' /\ FailingWithinQuiet'
    BY DEF IInv, DownIsIdle, FailingWithinQuiet, Exists
  <1> QED
    BY <1>6, <1>7, <1>8, <1>9, <1>10 DEF IInv

LEMMA TickKeeps == ASSUME IInv, Tick PROVE IInv'
  <1>1. PICK S \in Batches(Due(rows)) : Claims(rows, S)
    BY DEF Tick
  <1>2. S \in SUBSET Due(rows)
    BY DEF Batches
  <1>3. rows \in [Deliveries -> Delivery]
    BY DEF IInv, TypeOK
  <1> QED
    BY <1>1, <1>2, <1>3, ClaimsKeep DEF Tick

LEMMA StartKeeps == ASSUME IInv, Start PROVE IInv'
  <1>1. PICK S \in Batches(Due(Pruned(rows))) : Claims(Pruned(rows), S)
    BY DEF Start
  <1>2. S \in SUBSET Due(Pruned(rows))
    BY DEF Batches
  <1>3. Idle
    BY DEF IInv, DownIsIdle, Start
  <1> QED
    BY <1>1, <1>2, <1>3, PruneRows, ClaimsKeep DEF Start

(* What every recorded result of a fenced claim has in common: the claim     *)
(* ends, the row was leased to it and had counted its attempt.               *)
LEMMA ResultKeeps ==
    ASSUME IInv, NEW r \in Deliveries, InFlight(r), Released(r),
           rows' \in [Deliveries -> Delivery], hooks' \in [Hooks -> Hook],
           quiet' \in [Hooks -> Nat], cuts' \in [Deliveries -> Nat], faults' \in 0..MaxFaults,
           UNCHANGED <<happened, worker, upd, unreadable, ops, redeliveries>>,
           \A q \in Deliveries \ {r} :
              cuts'[q] = cuts[q] /\ (rows'[q] = rows[q] \/ (rows'[q].status # "pending" /\ rows'[q].attempts = rows[q].attempts)),
           rows'[r].attempts = rows[r].attempts, cuts'[r] >= cuts[r],
           rows'[r].status = "pending" => rows[r].attempts <= Len(Schedule) + cuts'[r] + redeliveries[r],
           OnlyEnabledOwed', FailingWithinQuiet'
    PROVE  IInv'
  <1> USE DEF Null, Past
  <1>1. /\ claims' \in [Deliveries -> Claim] /\ claims'[r] = NoClaim
        /\ \A q \in Deliveries \ {r} : claims'[q] = claims[q]
    BY DEF IInv, TypeOK, Released, NoClaim, Claim
  <1>2. TypeOK'
    BY <1>1 DEF IInv, TypeOK
  <1>3. rows[r].attempts \in Nat /\ cuts[r] \in Nat /\ cuts'[r] \in Nat /\ redeliveries[r] \in Nat
    BY DEF IInv, TypeOK, Delivery
  <1>4. AttemptsAccounted'
    <2>1. \A q \in Deliveries \ {r} : rows'[q].attempts = rows[q].attempts /\ cuts'[q] = cuts[q]
      OBVIOUS
    <2>2. rows[r].attempts <= Len(Schedule) + 1 + cuts'[r] + redeliveries[r]
      BY <1>3, DeliveryParts DEF IInv, AttemptsAccounted
    <2> QED
      BY <2>1, <2>2 DEF IInv, AttemptsAccounted
  <1>5. AttemptLeft'
    BY <1>1, <1>3 DEF IInv, AttemptLeft, InFlight, Fenced, NoClaim
  <1>6. ClaimsMatch'
    <2> SUFFICES ASSUME NEW q \in Deliveries, claims'[q].inFlight = "yes"
                 PROVE  /\ claims'[q].lease # Null
                        /\ rows'[q].status = "pending" /\ rows'[q].lease # Null
                              => rows'[q].lease = claims'[q].lease /\ rows'[q].attempts = claims'[q].attempts
      BY DEF ClaimsMatch, InFlight
    <2>1. q # r
      BY <1>1 DEF NoClaim
    <2>2. claims'[q] = claims[q] /\ (rows'[q] = rows[q] \/ rows'[q].status # "pending")
      BY <1>1, <2>1
    <2> QED
      BY <2>2 DEF IInv, ClaimsMatch, InFlight
  <1>7. DownIsIdle'
    BY DEF IInv, DownIsIdle, Idle, InFlight
  <1> QED
    BY <1>2, <1>4, <1>5, <1>6, <1>7 DEF IInv

(* A fenced claim belongs to an enabled hook and counted the row's attempt.  *)
LEMMA FencedClaim ==
    ASSUME IInv, NEW r \in Deliveries, InFlight(r), Fenced(r)
    PROVE  /\ r[1] \in Hooks /\ hooks[r[1]] \in Hook /\ hooks[r[1]].state = "enabled"
           /\ rows[r] \in Delivery /\ claims[r].attempts = rows[r].attempts
           /\ rows[r].attempts \in Nat /\ cuts[r] \in Nat /\ redeliveries[r] \in Nat
           /\ rows[r].attempts <= Len(Schedule) + 1 + cuts[r] + redeliveries[r]
           /\ hooks[r[1]].failing # Null => hooks[r[1]].failing <= quiet[r[1]]
  BY DeliveryParts DEF IInv, TypeOK, Delivery, OnlyEnabledOwed, ClaimsMatch, Fenced, AttemptsAccounted, FailingWithinQuiet

(* Clearing a lease with a new status or wait. *)
LEMMA UnleasedRow ==
    ASSUME NEW row \in Delivery, NEW status \in {"pending", "delivered", "failed"}, NEW wait \in Nat
    PROVE  /\ Unleased(row, status, wait) \in Delivery
           /\ Unleased(row, status, wait).status = status
           /\ Unleased(row, status, wait).attempts = row.attempts
  BY DEF Unleased, Row, Delivery, Null, Past

LEMMA DeliveredKeeps == ASSUME IInv, NEW r \in Deliveries, Delivered(r) PROVE IInv'
  <1> USE DEF Null, Past
  <1>0. InFlight(r) /\ Fenced(r) /\ Released(r)
    BY DEF Delivered
  <1>1. rows[r].wait \in Nat /\ "delivered" \in {"pending", "delivered", "failed"}
    BY DEF IInv, TypeOK, Delivery
  <1>2. /\ rows' \in [Deliveries -> Delivery]
        /\ rows'[r].status = "delivered" /\ rows'[r].attempts = rows[r].attempts
        /\ \A q \in Deliveries \ {r} : rows'[q] = rows[q]
    <2> DEFINE new == Unleased(rows[r], "delivered", rows[r].wait)
    <2>1. rows[r] \in Delivery /\ rows \in [Deliveries -> Delivery]
      BY DEF IInv, TypeOK
    <2>2. new \in Delivery /\ new.status = "delivered" /\ new.attempts = rows[r].attempts
      BY <1>1, <2>1, UnleasedRow
    <2>3. rows' = [rows EXCEPT ![r] = new]
      BY DEF Delivered
    <2> HIDE DEF new
    <2> QED
      BY <2>1, <2>2, <2>3
  <1>3. /\ hooks' \in [Hooks -> Hook]
        /\ hooks'[r[1]].state = hooks[r[1]].state /\ hooks'[r[1]].failing = Null
        /\ \A h \in Hooks \ {r[1]} : hooks'[h] = hooks[h]
    BY <1>0, FencedClaim DEF IInv, TypeOK, Delivered, AfterSuccess, Hook
  <1>4. quiet' \in [Hooks -> Nat] /\ \A h \in Hooks \ {r[1]} : quiet'[h] = quiet[h]
    BY DEF IInv, TypeOK, Delivered
  <1>5. OnlyEnabledOwed'
    BY <1>2, <1>3, DeliveryParts DEF IInv, OnlyEnabledOwed
  <1>6. FailingWithinQuiet'
    BY <1>3, <1>4 DEF IInv, FailingWithinQuiet, Exists
  <1>7. cuts' \in [Deliveries -> Nat] /\ faults' \in 0..MaxFaults /\ cuts'[r] >= cuts[r]
    BY DEF IInv, TypeOK, Delivered
  <1>8. UNCHANGED <<happened, worker, upd, unreadable, ops, redeliveries, cuts>>
    BY DEF Delivered
  <1> QED
    BY <1>0, <1>2, <1>3, <1>4, <1>5, <1>6, <1>7, <1>8, ResultKeeps

(* Cutting an attempt keeps an attempt in hand: the last one is given back.  *)
LEMMA CutLeaves ==
    ASSUME IInv, NEW r \in Deliveries
    PROVE  /\ Cut(r) \in Nat /\ Cut(r) >= cuts[r]
           /\ rows[r].attempts <= Len(Schedule) + Cut(r) + redeliveries[r]
  <1>1. /\ rows[r].attempts \in Nat /\ cuts[r] \in Nat /\ redeliveries[r] \in Nat
        /\ rows[r].attempts <= Len(Schedule) + 1 + cuts[r] + redeliveries[r]
    BY DEF IInv, TypeOK, Delivery, AttemptsAccounted
  <1>2. Len(Schedule) \in Nat
    BY ScheduleAssumption
  <1>3. CASE rows[r].attempts > Len(Schedule)
    BY <1>1, <1>2, <1>3 DEF Cut
  <1>4. CASE ~(rows[r].attempts > Len(Schedule))
    BY <1>1, <1>2, <1>4 DEF Cut
  <1> QED
    BY <1>3, <1>4

LEMMA ReleasedByStopKeeps == ASSUME IInv, NEW r \in Deliveries, ReleasedByStop(r) PROVE IInv'
  <1> USE DEF Null, Past
  <1>0. InFlight(r) /\ Fenced(r) /\ Released(r)
    BY DEF ReleasedByStop
  <1>1. rows[r].wait \in Nat /\ "pending" \in {"pending", "delivered", "failed"}
    BY DEF IInv, TypeOK, Delivery
  <1>2. /\ rows' \in [Deliveries -> Delivery]
        /\ rows'[r].status = "pending" /\ rows'[r].attempts = rows[r].attempts
        /\ \A q \in Deliveries \ {r} : rows'[q] = rows[q]
    <2> DEFINE new == Unleased(rows[r], "pending", rows[r].wait)
    <2>1. rows[r] \in Delivery /\ rows \in [Deliveries -> Delivery]
      BY DEF IInv, TypeOK
    <2>2. new \in Delivery /\ new.status = "pending" /\ new.attempts = rows[r].attempts
      BY <1>1, <2>1, UnleasedRow
    <2>3. rows' = [rows EXCEPT ![r] = new]
      BY DEF ReleasedByStop
    <2> HIDE DEF new
    <2> QED
      BY <2>1, <2>2, <2>3
  <1>3. /\ cuts' \in [Deliveries -> Nat] /\ cuts'[r] = Cut(r)
        /\ \A q \in Deliveries \ {r} : cuts'[q] = cuts[q]
    BY CutLeaves DEF IInv, TypeOK, ReleasedByStop
  <1>4. OnlyEnabledOwed'
    BY <1>0, <1>2, FencedClaim DEF IInv, OnlyEnabledOwed, ReleasedByStop
  <1>5. FailingWithinQuiet'
    BY DEF IInv, FailingWithinQuiet, Exists, ReleasedByStop
  <1>6. /\ cuts'[r] >= cuts[r]
        /\ rows[r].attempts <= Len(Schedule) + cuts'[r] + redeliveries[r]
    BY <1>3, CutLeaves
  <1>7. /\ UNCHANGED <<happened, worker, upd, unreadable, ops, redeliveries>>
        /\ hooks' \in [Hooks -> Hook] /\ quiet' \in [Hooks -> Nat] /\ faults' \in 0..MaxFaults
    BY DEF IInv, TypeOK, ReleasedByStop
  <1> QED
    BY <1>0, <1>2, <1>3, <1>4, <1>5, <1>6, <1>7, ResultKeeps

LEMMA RecordErrorKeeps == ASSUME IInv, NEW r \in Deliveries, RecordError(r) PROVE IInv'
  <1>0. InFlight(r) /\ Fenced(r) /\ Released(r)
    BY DEF RecordError
  <1>1. /\ cuts' \in [Deliveries -> Nat] /\ cuts'[r] = Cut(r)
        /\ \A q \in Deliveries \ {r} : cuts'[q] = cuts[q]
    BY CutLeaves DEF IInv, TypeOK, RecordError
  <1>2. OnlyEnabledOwed' /\ FailingWithinQuiet'
    BY DEF IInv, OnlyEnabledOwed, FailingWithinQuiet, Exists, RecordError
  <1>3. /\ cuts'[r] >= cuts[r]
        /\ rows[r].attempts <= Len(Schedule) + cuts'[r] + redeliveries[r]
    BY <1>1, CutLeaves
  <1>4. faults' \in 0..MaxFaults
    BY LimitsAssumption DEF IInv, TypeOK, RecordError
  <1>5. /\ UNCHANGED <<happened, worker, upd, unreadable, ops, redeliveries, rows>>
        /\ hooks' \in [Hooks -> Hook] /\ quiet' \in [Hooks -> Nat]
        /\ rows' \in [Deliveries -> Delivery]
    BY DEF IInv, TypeOK, RecordError
  <1> QED
    BY <1>0, <1>1, <1>2, <1>3, <1>4, <1>5, ResultKeeps

LEMMA GoneKeeps == ASSUME IInv, NEW r \in Deliveries, Gone(r) PROVE IInv'
  <1> USE DEF Null, Past
  <1>0. InFlight(r) /\ Fenced(r) /\ Released(r) /\ r[1] \in Hooks
    BY DeliveryParts DEF Gone
  <1>1. /\ rows' \in [Deliveries -> Delivery]
        /\ \A q \in Deliveries : /\ rows'[q].attempts = rows[q].attempts
                                 /\ q[1] = r[1] => rows'[q].status # "pending"
                                 /\ q[1] # r[1] => rows'[q] = rows[q]
                                 /\ rows'[q].status # "pending" \/ rows'[q] = rows[q]
    BY <1>0, DisableRows DEF IInv, TypeOK, Gone
  <1>2. /\ hooks' \in [Hooks -> Hook]
        /\ hooks'[r[1]].state = "disabled" /\ hooks'[r[1]].failing = hooks[r[1]].failing
        /\ \A h \in Hooks \ {r[1]} : hooks'[h] = hooks[h]
    BY <1>0 DEF IInv, TypeOK, Gone, Disabled, Hook
  <1>3. OnlyEnabledOwed'
    BY <1>1, <1>2, DeliveryParts DEF IInv, OnlyEnabledOwed
  <1>4. FailingWithinQuiet'
    BY <1>2 DEF IInv, FailingWithinQuiet, Exists, Gone
  <1>5. /\ UNCHANGED <<happened, worker, upd, unreadable, ops, redeliveries, cuts>>
        /\ quiet' \in [Hooks -> Nat] /\ cuts' \in [Deliveries -> Nat] /\ cuts'[r] >= cuts[r]
        /\ faults' \in 0..MaxFaults
    BY DEF IInv, TypeOK, Gone
  <1> QED
    BY <1>0, <1>1, <1>2, <1>3, <1>4, <1>5, ResultKeeps

LEMMA StaleResultKeeps == ASSUME IInv, NEW r \in Deliveries, StaleResult(r) PROVE IInv'
  <1>0. InFlight(r) /\ Released(r)
    BY DEF StaleResult
  <1>1. OnlyEnabledOwed' /\ FailingWithinQuiet'
    BY DEF IInv, OnlyEnabledOwed, FailingWithinQuiet, Exists, StaleResult
  <1>2. rows[r].status = "pending" => rows[r].attempts <= Len(Schedule) + cuts[r] + redeliveries[r]
    BY DEF IInv, AttemptLeft, StaleResult
  <1>3. /\ UNCHANGED <<hooks, rows, happened, worker, upd, unreadable, faults, ops, quiet, cuts, redeliveries>>
        /\ hooks \in [Hooks -> Hook] /\ quiet \in [Hooks -> Nat] /\ cuts \in [Deliveries -> Nat]
        /\ rows \in [Deliveries -> Delivery] /\ faults \in 0..MaxFaults /\ cuts[r] >= cuts[r]
    BY DEF IInv, TypeOK, StaleResult
  <1> QED
    BY <1>0, <1>1, <1>2, <1>3, ResultKeeps

(* A failed attempt that is retried had at most Len(Schedule) attempts.      *)
LEMMA AttemptFailedKeeps == ASSUME IInv, NEW r \in Deliveries, AttemptFailed(r) PROVE IInv'
  <1> USE DEF Null, Past
  <1>0. InFlight(r) /\ Fenced(r) /\ Released(r)
    BY DEF AttemptFailed
  <1>1. PICK delay \in Delays(claims[r].attempts) :
           LET recorded == IF Retries(claims[r].attempts)
                           THEN [rows EXCEPT ![r] = Unleased(@, "pending", delay)]
                           ELSE [rows EXCEPT ![r] = Unleased(@, "failed", @.wait)]
               blamed == AfterFailure(hooks[r[1]])
               disable == blamed.state = "enabled" /\ blamed.failing >= AutoDisable
           IN  /\ hooks' = [hooks EXCEPT ![r[1]] = IF disable THEN Disabled(blamed, "failing")
                                                   ELSE blamed]
               /\ rows' = IF disable THEN RowsDisabled(recorded, r[1]) ELSE recorded
    BY DEF AttemptFailed
  <1> DEFINE kept == Retries(claims[r].attempts)
             new == IF kept THEN Unleased(rows[r], "pending", delay)
                            ELSE Unleased(rows[r], "failed", rows[r].wait)
             recorded == [rows EXCEPT ![r] = new]
             blamed == AfterFailure(hooks[r[1]])
             disable == blamed.state = "enabled" /\ blamed.failing >= AutoDisable
  <1>2. /\ hooks' = [hooks EXCEPT ![r[1]] = IF disable THEN Disabled(blamed, "failing") ELSE blamed]
        /\ rows' = IF disable THEN RowsDisabled(recorded, r[1]) ELSE recorded
    BY <1>1
  <1>3. delay \in Nat
    <2>1. CASE claims[r].attempts \in DOMAIN Schedule
      BY <2>1, ScheduleAssumption DEF Delays, webhookRetryJitter
    <2>2. CASE claims[r].attempts \notin DOMAIN Schedule
      BY <2>2 DEF Delays
    <2> QED
      BY <2>1, <2>2
  <1>4. rows \in [Deliveries -> Delivery] /\ rows[r] \in Delivery /\ rows[r].wait \in Nat
    BY DEF IInv, TypeOK, Delivery
  <1>5. /\ new \in Delivery /\ new.attempts = rows[r].attempts
        /\ new.status = "pending" => kept
    <2>1. /\ Unleased(rows[r], "pending", delay) \in Delivery
          /\ Unleased(rows[r], "pending", delay).attempts = rows[r].attempts
          /\ Unleased(rows[r], "failed", rows[r].wait) \in Delivery
          /\ Unleased(rows[r], "failed", rows[r].wait).attempts = rows[r].attempts
          /\ Unleased(rows[r], "failed", rows[r].wait).status = "failed"
      BY <1>3, <1>4, UnleasedRow
    <2>2. CASE kept
      BY <2>1, <2>2
    <2>3. CASE ~kept
      BY <2>1, <2>3
    <2> QED
      BY <2>2, <2>3
  <1>6. /\ blamed \in Hook /\ blamed.state = "enabled"
        /\ blamed.failing \in Nat /\ blamed.failing <= quiet[r[1]]
    <2>1. /\ hooks[r[1]] \in Hook /\ hooks[r[1]].state = "enabled" /\ quiet[r[1]] \in Nat
          /\ hooks[r[1]].failing # Null => hooks[r[1]].failing <= quiet[r[1]]
      BY <1>0, FencedClaim DEF IInv, TypeOK
    <2> QED
      BY <2>1 DEF AfterFailure, Hook
  <1>7. kept => rows[r].attempts <= Len(Schedule) + cuts[r] + redeliveries[r]
    <2>1. /\ claims[r].attempts = rows[r].attempts /\ rows[r].attempts \in Nat
          /\ cuts[r] \in Nat /\ redeliveries[r] \in Nat
      BY <1>0, FencedClaim
    <2> QED
      BY <2>1, DeliveryParts DEF Retries
  <1> HIDE DEF kept, new, blamed
  <1>8. /\ recorded \in [Deliveries -> Delivery] /\ recorded[r] = new
        /\ \A q \in Deliveries \ {r} : recorded[q] = rows[q]
    BY <1>4, <1>5
  <1>9. r[1] \in Hooks
    BY DeliveryParts
  <1> HIDE DEF recorded
  <1>10. /\ rows' \in [Deliveries -> Delivery]
         /\ \A q \in Deliveries : /\ rows'[q].attempts = recorded[q].attempts
                                  /\ rows'[q].status # "pending" \/ rows'[q] = recorded[q]
                                  /\ disable /\ q[1] = r[1] => rows'[q].status # "pending"
    BY <1>2, <1>8, <1>9, DisableRows
  <1>11. /\ hooks' \in [Hooks -> Hook]
         /\ hooks'[r[1]].state \in {"enabled", "disabled"} /\ hooks'[r[1]].failing = blamed.failing
         /\ ~disable => hooks'[r[1]].state = "enabled"
         /\ \A h \in Hooks \ {r[1]} : hooks'[h] = hooks[h]
    <2>1. hooks \in [Hooks -> Hook]
      BY DEF IInv, TypeOK
    <2>2. Disabled(blamed, "failing") \in Hook /\ Disabled(blamed, "failing").state = "disabled"
          /\ Disabled(blamed, "failing").failing = blamed.failing
      BY <1>6 DEF Disabled, Hook
    <2>3. CASE disable
      BY <1>2, <1>9, <2>1, <2>2, <2>3
    <2>4. CASE ~disable
      BY <1>2, <1>6, <1>9, <2>1, <2>4
    <2> QED
      BY <2>3, <2>4
  <1> HIDE DEF disable
  <1>12. OnlyEnabledOwed'
    <2> SUFFICES ASSUME NEW q \in Deliveries, rows'[q].status = "pending"
                 PROVE  hooks'[q[1]].state = "enabled"
      BY DEF OnlyEnabledOwed
    <2>1. CASE q[1] = r[1]
      BY <1>10, <1>11, <2>1
    <2>2. CASE q[1] # r[1]
      <3>1. rows[q].status = "pending" /\ q[1] \in Hooks
        BY <1>8, <1>10, <2>2, DeliveryParts
      <3> QED
        BY <1>11, <2>2, <3>1 DEF IInv, OnlyEnabledOwed
    <2> QED
      BY <2>1, <2>2
  <1>13. UNCHANGED <<happened, worker, upd, unreadable, faults, ops, quiet, cuts, redeliveries>>
    BY DEF AttemptFailed
  <1>14. FailingWithinQuiet'
    BY <1>6, <1>11, <1>13 DEF IInv, FailingWithinQuiet, Exists
  <1>15. /\ quiet' \in [Hooks -> Nat] /\ cuts' \in [Deliveries -> Nat] /\ cuts'[r] >= cuts[r]
         /\ faults' \in 0..MaxFaults
    BY <1>13 DEF IInv, TypeOK
  <1>16. /\ rows'[r].attempts = rows[r].attempts
         /\ rows'[r].status = "pending" => rows[r].attempts <= Len(Schedule) + cuts'[r] + redeliveries[r]
         /\ \A q \in Deliveries \ {r} :
               rows'[q] = rows[q] \/ (rows'[q].status # "pending" /\ rows'[q].attempts = rows[q].attempts)
    BY <1>5, <1>7, <1>8, <1>10, <1>13
  <1> QED
    BY <1>0, <1>10, <1>11, <1>12, <1>13, <1>14, <1>15, <1>16, ResultKeeps

LEMMA StopKeeps == ASSUME IInv, Stop \/ Stopped PROVE IInv'
  <1>1. worker' \in {"down", "stopping"} /\ (worker' = "down" => Idle)
    BY DEF Stop, Stopped
  <1>2. UNCHANGED <<hooks, rows, happened, claims, upd, unreadable, ops, quiet, cuts, redeliveries>>
    BY DEF Stop, Stopped
  <1>3. faults' \in 0..MaxFaults
    BY LimitsAssumption DEF IInv, TypeOK, Stop, Stopped
  <1>4. TypeOK'
    BY <1>1, <1>2, <1>3 DEF IInv, TypeOK
  <1>5. DownIsIdle'
    BY <1>1, <1>2 DEF DownIsIdle, Idle
  <1>6. OnlyEnabledOwed' /\ AttemptsAccounted' /\ AttemptLeft'
    BY <1>2 DEF IInv, OnlyEnabledOwed, AttemptsAccounted, AttemptLeft, InFlight, Fenced
  <1>7. ClaimsMatch' /\ FailingWithinQuiet'
    BY <1>2 DEF IInv, ClaimsMatch, InFlight, FailingWithinQuiet, Exists
  <1> QED
    BY <1>4, <1>5, <1>6, <1>7 DEF IInv

(* A crash forgets the claims; each last attempt it cuts is counted in cuts. *)
LEMMA CrashKeeps == ASSUME IInv, Crash PROVE IInv'
  <1> USE DEF Null, Past
  <1>1. UNCHANGED <<hooks, rows, happened, upd, unreadable, ops, quiet, redeliveries>>
    BY DEF Crash
  <1>2. \A r \in Deliveries : claims'[r] = NoClaim /\ claims'[r].inFlight = "no"
    BY DEF Crash, NoClaim
  <1>3. TypeOK'
    <2>1. faults' \in 0..MaxFaults
      BY LimitsAssumption DEF IInv, TypeOK, Crash
    <2>2. claims' \in [Deliveries -> Claim]
      BY DEF Crash, NoClaim, Claim
    <2>3. cuts' \in [Deliveries -> Nat]
      BY CutLeaves DEF IInv, TypeOK, Crash
    <2> QED
      BY <1>1, <2>1, <2>2, <2>3 DEF IInv, TypeOK, Crash
  <1>4. ASSUME NEW r \in Deliveries
        PROVE  /\ rows[r].attempts <= Len(Schedule) + 1 + cuts'[r] + redeliveries[r]
               /\ rows[r].status = "pending" =>
                     rows[r].attempts <= Len(Schedule) + cuts'[r] + redeliveries[r]
    <2>1. /\ rows[r].attempts \in Nat /\ cuts[r] \in Nat /\ redeliveries[r] \in Nat
          /\ rows[r].attempts <= Len(Schedule) + 1 + cuts[r] + redeliveries[r]
      BY DEF IInv, TypeOK, Delivery, AttemptsAccounted
    <2>2. CASE InFlight(r) /\ Fenced(r)
      <3>1. cuts'[r] = Cut(r)
        BY <2>2 DEF Crash
      <3> QED
        BY <2>1, <3>1, CutLeaves, DeliveryParts
    <2>3. CASE ~(InFlight(r) /\ Fenced(r))
      <3>1. cuts'[r] = cuts[r]
        BY <2>3 DEF Crash
      <3>2. rows[r].status = "pending" => rows[r].attempts <= Len(Schedule) + cuts[r] + redeliveries[r]
        BY <2>3 DEF IInv, AttemptLeft
      <3> QED
        BY <2>1, <3>1, <3>2
    <2> QED
      BY <2>2, <2>3
  <1>5. AttemptsAccounted' /\ AttemptLeft'
    BY <1>1, <1>4 DEF AttemptsAccounted, AttemptLeft
  <1>6. ClaimsMatch' /\ DownIsIdle'
    BY <1>2 DEF ClaimsMatch, DownIsIdle, Idle, InFlight
  <1>7. OnlyEnabledOwed' /\ FailingWithinQuiet'
    BY <1>1 DEF IInv, OnlyEnabledOwed, FailingWithinQuiet, Exists
  <1> QED
    BY <1>3, <1>5, <1>6, <1>7 DEF IInv

LEMMA StutterKeeps == ASSUME IInv, UNCHANGED vars PROVE IInv'
  <1>1. /\ UNCHANGED <<hooks, rows, claims, worker, happened, quiet, cuts, redeliveries>>
        /\ upd' \in [Admins -> Update] /\ unreadable' \subseteq Hooks
        /\ faults' \in 0..MaxFaults /\ ops' \in 0..MaxOps
    BY DEF IInv, TypeOK, vars
  <1> QED
    BY <1>1, FrameKeeps

LEMMA NextKeeps == ASSUME IInv, [Next]_vars PROVE IInv'
  <1>1. CASE Advance
    BY <1>1, AdvanceKeeps
  <1>2. CASE \E e \in Events : Enqueue(e)
    BY <1>2, EnqueueKeeps
  <1>3. CASE \E h \in Hooks : webhookCreate(h) \/ webhookDelete(h) \/ LoseKey(h) \/ RestoreKey(h)
    BY <1>3, CreateKeeps, DeleteKeeps, KeyKeeps
  <1>4. CASE \E h \in Hooks, enable \in {"keep", "on", "off"}, rotate \in {"no", "yes"} :
                \/ webhookUpdate(h, enable, rotate)
                \/ \E a \in Admins : UpdateReads(a, h, enable, rotate)
    BY <1>4, UpdateKeeps, UpdateReadsKeeps
  <1>5. CASE \E a \in Admins : UpdateWrites(a) \/ UpdateRefused(a)
    BY <1>5, UpdateWritesKeeps, UpdateRefusedKeeps
  <1>6. CASE \E r \in Deliveries : webhookRedeliver(r) \/ RecordError(r)
    BY <1>6, RedeliverKeeps, RecordErrorKeeps
  <1>7. CASE \E r \in Deliveries : Finish(r)
    BY <1>7, DeliveredKeeps, ReleasedByStopKeeps, GoneKeeps, AttemptFailedKeeps, StaleResultKeeps DEF Finish
  <1>8. CASE Tick \/ Prune \/ Start
    BY <1>8, TickKeeps, PruneKeeps, StartKeeps
  <1>9. CASE Stop \/ Stopped \/ Crash
    BY <1>9, StopKeeps, CrashKeeps
  <1>10. CASE UNCHANGED vars
    BY <1>10, StutterKeeps
  <1> QED
    BY <1>1, <1>2, <1>3, <1>4, <1>5, <1>6, <1>7, <1>8, <1>9, <1>10 DEF Next

(* The inductive invariant holds in every reachable state. *)
THEOREM InductiveInvariant == Spec => []IInv
  <1>1. Init => IInv
    BY InitHolds
  <1>2. IInv /\ [Next]_vars => IInv'
    BY NextKeeps
  <1> QED
    BY <1>1, <1>2, PTL DEF Spec

(* Every variable keeps its type; in particular no deferral of an            *)
(* undecryptable hook ever takes attempts below zero.                        *)
THEOREM TypeCorrect == Spec => []TypeOK
  BY InductiveInvariant, PTL DEF IInv

(* Only an enabled hook has queued deliveries, for any number of hooks,      *)
(* events, admins with stale updates, and crashes.                           *)
THEOREM DisabledOwesNothing == Spec => []OnlyEnabledOwed
  BY InductiveInvariant, PTL DEF IInv

(* No delivery is attempted more often than the schedule, its redeliveries   *)
(* and its cut attempts account for, whatever the schedule.                  *)
THEOREM RetryBudget == Spec => []AttemptsAccounted
  BY InductiveInvariant, PTL DEF IInv
-----------------------------------------------------------------------------
(* What a step may do to one queued delivery. *)
SettledWithCause(r) ==
    \/ rows'[r].status \in {"pending", "delivered"}
    \/ rows'[r].status = "failed" /\ hooks'[r[1]].state = "disabled"
    \/ rows'[r].status = "failed" /\ rows[r].attempts > Len(Schedule)
    \/ rows'[r].status = "none" /\ hooks'[r[1]].state = "deleted"

LEMMA UpdateSettles ==
    ASSUME IInv, NEW r \in Deliveries, rows[r].status = "pending",
           NEW h \in Hooks, NEW enable, NEW rotate, NEW seen, ApplyUpdate(h, enable, rotate, seen)
    PROVE  SettledWithCause(r)
  <1>1. r[1] \in Hooks /\ hooks[r[1]].state = "enabled"
    BY DeliveryParts DEF IInv, OnlyEnabledOwed
  <1>2. CASE enable = "off" /\ seen = "enabled" /\ r[1] = h
    <2>1. rows'[r].status = "failed"
      BY <1>2 DEF IInv, TypeOK, ApplyUpdate, RowsDisabled, FailedByDisable, Row
    <2>2. hooks'[r[1]].state = "disabled"
      BY <1>1, <1>2 DEF IInv, TypeOK, ApplyUpdate, Exists, Disabled
    <2> QED
      BY <2>1, <2>2 DEF SettledWithCause
  <1>3. CASE ~(enable = "off" /\ seen = "enabled" /\ r[1] = h)
    BY <1>3 DEF IInv, TypeOK, ApplyUpdate, RowsDisabled, SettledWithCause
  <1> QED
    BY <1>2, <1>3

LEMMA ClaimsSettle ==
    ASSUME NEW r \in Deliveries, NEW table, NEW S, table[r].status = "pending", Claims(table, S)
    PROVE  SettledWithCause(r)
  BY DEF Claims, Claimed, Deferred, Row, SettledWithCause

LEMMA GoneSettles ==
    ASSUME IInv, NEW r \in Deliveries, rows[r].status = "pending", NEW q \in Deliveries, Gone(q)
    PROVE  SettledWithCause(r)
  <1>1. r[1] \in Hooks /\ q[1] \in Hooks
    BY DeliveryParts
  <1>2. CASE r[1] = q[1]
    <2>1. rows'[r].status = "failed"
      BY <1>2 DEF Gone, RowsDisabled, FailedByDisable, Row
    <2>2. hooks'[r[1]].state = "disabled"
      BY <1>1, <1>2 DEF IInv, TypeOK, Gone, Disabled
    <2> QED
      BY <2>1, <2>2 DEF SettledWithCause
  <1>3. CASE r[1] # q[1]
    BY <1>3 DEF Gone, RowsDisabled, SettledWithCause
  <1> QED
    BY <1>2, <1>3

LEMMA AttemptFailedSettles ==
    ASSUME IInv, NEW r \in Deliveries, rows[r].status = "pending", NEW q \in Deliveries, AttemptFailed(q)
    PROVE  SettledWithCause(r)
  <1>0. InFlight(q) /\ Fenced(q)
    BY DEF AttemptFailed
  <1>1. PICK delay \in Delays(claims[q].attempts) :
           LET recorded == IF Retries(claims[q].attempts)
                           THEN [rows EXCEPT ![q] = Unleased(@, "pending", delay)]
                           ELSE [rows EXCEPT ![q] = Unleased(@, "failed", @.wait)]
               blamed == AfterFailure(hooks[q[1]])
               disable == blamed.state = "enabled" /\ blamed.failing >= AutoDisable
           IN  /\ hooks' = [hooks EXCEPT ![q[1]] = IF disable THEN Disabled(blamed, "failing")
                                                   ELSE blamed]
               /\ rows' = IF disable THEN RowsDisabled(recorded, q[1]) ELSE recorded
    BY DEF AttemptFailed
  <1> DEFINE recorded == IF Retries(claims[q].attempts)
                         THEN [rows EXCEPT ![q] = Unleased(@, "pending", delay)]
                         ELSE [rows EXCEPT ![q] = Unleased(@, "failed", @.wait)]
             blamed == AfterFailure(hooks[q[1]])
             disable == blamed.state = "enabled" /\ blamed.failing >= AutoDisable
  <1>2. /\ hooks' = [hooks EXCEPT ![q[1]] = IF disable THEN Disabled(blamed, "failing") ELSE blamed]
        /\ rows' = IF disable THEN RowsDisabled(recorded, q[1]) ELSE recorded
    BY <1>1
  <1>3. \/ recorded[r].status = "pending"
        \/ recorded[r].status = "failed" /\ r = q /\ rows[r].attempts > Len(Schedule)
    <2>1. claims[q].attempts = rows[q].attempts /\ rows[q].attempts \in Nat
      BY <1>0, FencedClaim
    <2>2. CASE r # q
      BY <2>2 DEF IInv, TypeOK
    <2>3. CASE r = q /\ Retries(claims[q].attempts)
      BY <2>3 DEF IInv, TypeOK, Unleased, Row
    <2>4. CASE r = q /\ ~Retries(claims[q].attempts)
      <3>1. recorded[r].status = "failed"
        BY <2>4 DEF IInv, TypeOK, Unleased, Row
      <3>2. rows[r].attempts > Len(Schedule)
        BY <2>1, <2>4, DeliveryParts DEF Retries
      <3> QED
        BY <2>4, <3>1, <3>2
    <2> QED
      BY <2>2, <2>3, <2>4
  <1>4. r[1] \in Hooks /\ q[1] \in Hooks /\ hooks \in [Hooks -> Hook]
    BY DeliveryParts DEF IInv, TypeOK
  <1> HIDE DEF recorded
  <1>5. CASE disable /\ r[1] = q[1]
    <2>1. hooks'[r[1]].state = "disabled"
      BY <1>2, <1>4, <1>5 DEF Disabled
    <2>2. rows'[r] = FailedByDisable(recorded[r])
      BY <1>2, <1>5 DEF RowsDisabled
    <2>3. rows'[r].status = "failed"
      BY <1>3, <2>2 DEF FailedByDisable, Row
    <2> QED
      BY <2>1, <2>3 DEF SettledWithCause
  <1>6. CASE ~(disable /\ r[1] = q[1])
    <2>1. rows'[r] = recorded[r]
      BY <1>2, <1>6 DEF RowsDisabled
    <2> QED
      BY <1>3, <2>1 DEF SettledWithCause
  <1> QED
    BY <1>5, <1>6

LEMMA NextSettles ==
    ASSUME IInv, [Next]_vars, NEW r \in Deliveries, rows[r].status = "pending"
    PROVE  SettledWithCause(r)
  <1>1. CASE Advance
    BY <1>1 DEF Advance, Aged, Row, SettledWithCause
  <1>2. CASE \E e \in Events : Enqueue(e)
    BY <1>2 DEF Enqueue, NewDelivery, Row, SettledWithCause
  <1>3. CASE \E h \in Hooks : webhookDelete(h)
    <2>1. PICK h \in Hooks : webhookDelete(h)
      BY <1>3
    <2>2. CASE r[1] = h
      BY <2>1, <2>2 DEF IInv, TypeOK, webhookDelete, NoRow, Row, SettledWithCause
    <2>3. CASE r[1] # h
      BY <2>1, <2>3 DEF webhookDelete, SettledWithCause
    <2> QED
      BY <2>2, <2>3
  <1>4. CASE \E h \in Hooks, enable \in {"keep", "on", "off"}, rotate \in {"no", "yes"} :
                webhookUpdate(h, enable, rotate)
    BY <1>4, UpdateSettles DEF webhookUpdate
  <1>5. CASE \E a \in Admins : UpdateWrites(a)
    <2>1. PICK a \in Admins : UpdateWrites(a)
      BY <1>5
    <2>2. upd[a].hook \in Hooks
      BY DEF IInv, TypeOK, Update
    <2> QED
      BY <2>1, <2>2, UpdateSettles DEF UpdateWrites
  <1>6. CASE \E q \in Deliveries : webhookRedeliver(q)
    BY <1>6 DEF IInv, TypeOK, webhookRedeliver, Row, SettledWithCause
  <1>7. CASE \E q \in Deliveries : Delivered(q) \/ ReleasedByStop(q)
    <2>1. PICK q \in Deliveries : Delivered(q) \/ ReleasedByStop(q)
      BY <1>7
    <2>2. CASE Delivered(q)
      BY <2>2 DEF IInv, TypeOK, Delivered, Unleased, Row, SettledWithCause
    <2>3. CASE ReleasedByStop(q)
      BY <2>3 DEF IInv, TypeOK, ReleasedByStop, Unleased, Row, SettledWithCause
    <2> QED
      BY <2>1, <2>2, <2>3
  <1>8. CASE \E q \in Deliveries : Gone(q) \/ AttemptFailed(q)
    BY <1>8, GoneSettles, AttemptFailedSettles
  <1>9. CASE Tick
    BY <1>9, ClaimsSettle DEF Tick
  <1>10. CASE Start
    BY <1>10, PruneRows, ClaimsSettle DEF Start
  <1>11. CASE Prune
    BY <1>11, PruneRows DEF Prune, SettledWithCause
  <1>12. CASE rows' = rows
    BY <1>12 DEF SettledWithCause
  <1>13. \/ rows' = rows
         \/ Advance \/ Tick \/ Start \/ Prune
         \/ \E e \in Events : Enqueue(e)
         \/ \E h \in Hooks : webhookDelete(h)
         \/ \E h \in Hooks, enable \in {"keep", "on", "off"}, rotate \in {"no", "yes"} :
               webhookUpdate(h, enable, rotate)
         \/ \E a \in Admins : UpdateWrites(a)
         \/ \E q \in Deliveries : \/ webhookRedeliver(q) \/ Delivered(q) \/ ReleasedByStop(q)
                                   \/ Gone(q) \/ AttemptFailed(q)
    BY DEF Next, vars, Finish, webhookCreate, LoseKey, RestoreKey, UpdateReads, UpdateRefused, StaleResult, RecordError, Stop, Stopped, Crash
  <1> QED
    BY <1>1, <1>2, <1>3, <1>4, <1>5, <1>6, <1>7, <1>8, <1>9, <1>10, <1>11, <1>12, <1>13

(* Nothing owed is lost: for every schedule, any number of hooks and events, *)
(* and any interleaving of admins, results, stops and crashes, a queued      *)
(* delivery leaves the queue only delivered, given up for a reason, or with  *)
(* its hook.                                                                 *)
THEOREM NothingOwedIsLost == Spec => OwedUntilSettled
  <1>1. IInv /\ [Next]_vars =>
           [\A r \in Deliveries :
               rows[r].status = "pending" =>
                  \/ rows'[r].status \in {"pending", "delivered"}
                  \/ rows'[r].status = "failed" /\ hooks'[r[1]].state = "disabled"
                  \/ rows'[r].status = "failed" /\ rows[r].attempts > Len(Schedule)
                  \/ rows'[r].status = "none" /\ hooks'[r[1]].state = "deleted"]_vars
    BY NextSettles DEF SettledWithCause
  <1> QED
    BY <1>1, InductiveInvariant, PTL DEF Spec, OwedUntilSettled

(* Only a failed attempt sets the reason "failing", and then failing_since,  *)
(* which is no older than quiet, is at least the window old.                 *)
LEMMA FailingIsJustified ==
    ASSUME IInv, [Next]_vars, NEW h \in Hooks,
           hooks[h].reason # "failing", hooks'[h].reason = "failing"
    PROVE  quiet[h] >= AutoDisable
  <1> USE DEF Null, Past
  <1>1. \A a \in Admins : upd[a].hook \in Hooks
    BY DEF IInv, TypeOK, Update
  <1>2. hooks \in [Hooks -> Hook] /\ \A r \in Deliveries : r[1] \in Hooks
    BY DeliveryParts DEF IInv, TypeOK
  <1>3. ASSUME NEW g \in Hooks, NEW enable, NEW rotate, NEW seen, ApplyUpdate(g, enable, rotate, seen)
        PROVE  FALSE
    BY <1>2, <1>3 DEF ApplyUpdate, Disabled
  <1>4. ASSUME NEW r \in Deliveries, Delivered(r) \/ Gone(r) PROVE FALSE
    BY <1>2, <1>4 DEF Delivered, Gone, AfterSuccess, Disabled
  <1>5. ASSUME NEW g \in Hooks, webhookCreate(g) \/ webhookDelete(g) PROVE FALSE
    BY <1>2, <1>5 DEF webhookCreate, webhookDelete
  <1>6. ASSUME Advance PROVE FALSE
    BY <1>2, <1>6 DEF Advance
  <1>7. hooks' # hooks
    OBVIOUS
  <1>8. PICK r \in Deliveries : AttemptFailed(r)
    <2>1. \/ Advance
          \/ \E g \in Hooks : webhookCreate(g) \/ webhookDelete(g)
          \/ \E g \in Hooks, enable \in {"keep", "on", "off"}, rotate \in {"no", "yes"} :
                webhookUpdate(g, enable, rotate)
          \/ \E a \in Admins : UpdateWrites(a)
          \/ \E r \in Deliveries : Delivered(r) \/ Gone(r) \/ AttemptFailed(r)
      BY <1>7 DEF Next, vars, Finish, Enqueue, LoseKey, RestoreKey, UpdateReads, UpdateRefused, webhookRedeliver, ReleasedByStop, StaleResult, RecordError, Tick, Prune, Start, Stop, Stopped, Crash
    <2>2. ~ \E g \in Hooks, enable \in {"keep", "on", "off"}, rotate \in {"no", "yes"} :
                webhookUpdate(g, enable, rotate)
      BY <1>3 DEF webhookUpdate
    <2>3. ~ \E a \in Admins : UpdateWrites(a)
      BY <1>1, <1>3 DEF UpdateWrites
    <2> QED
      BY <1>4, <1>5, <1>6, <2>1, <2>2, <2>3
  <1> DEFINE blamed == AfterFailure(hooks[r[1]])
             disable == blamed.state = "enabled" /\ blamed.failing >= AutoDisable
  <1>9. hooks' = [hooks EXCEPT ![r[1]] = IF disable THEN Disabled(blamed, "failing") ELSE blamed]
    BY <1>8 DEF AttemptFailed
  <1>10. h = r[1] /\ disable
    <2>1. blamed.reason = hooks[r[1]].reason
      BY DEF AfterFailure
    <2> HIDE DEF blamed, disable
    <2> QED
      BY <1>2, <1>9, <2>1
  <1>11. /\ hooks[h] \in Hook /\ quiet[h] \in Nat
         /\ hooks[h].failing # Null => hooks[h].failing <= quiet[h]
    BY DEF IInv, TypeOK, FailingWithinQuiet
  <1> QED
    BY <1>10, <1>11, TimesAssumption DEF AfterFailure, Hook

(* A hook is never disabled as failing within the window after a success, a  *)
(* creation or a re-enable, for every window and every schedule.             *)
THEOREM FailingWindow == Spec => AutoDisableJustified
  <1>1. IInv /\ [Next]_vars =>
           [\A h \in Hooks :
               hooks[h].reason # "failing" /\ hooks'[h].reason = "failing"
                  => quiet[h] >= AutoDisable]_vars
    BY FailingIsJustified
  <1> QED
    BY <1>1, InductiveInvariant, PTL DEF Spec, AutoDisableJustified

(* A row that is not pending is rewritten only by the event it belongs to, a *)
(* redelivery, the pruning or the deletion of its hook: everything else asks *)
(* for a pending row first.                                                  *)
Untouched(r) == rows'[r].status \in {rows[r].status, "none"}

LEMMA DisableLeavesSettled ==
    ASSUME NEW table, NEW h, NEW r \in Deliveries, table[r].status # "pending"
    PROVE  RowsDisabled(table, h)[r] = table[r]
  BY DEF RowsDisabled, FailedByDisable

LEMMA ClaimsLeaveSettled ==
    ASSUME NEW table, NEW S \in Batches(Due(table)), Claims(table, S), NEW r \in Deliveries,
           table[r].status # "pending"
    PROVE  rows'[r] = table[r]
  <1>1. r \notin S
    BY DEF Batches, Due, Claimable
  <1> QED
    BY <1>1 DEF Claims

LEMMA ResultLeavesSettled ==
    ASSUME IInv, NEW r \in Deliveries, rows[r].status # "pending", NEW q \in Deliveries,
           Delivered(q) \/ ReleasedByStop(q) \/ Gone(q) \/ AttemptFailed(q)
    PROVE  rows'[r] = rows[r]
  <1>1. q # r /\ rows \in [Deliveries -> Delivery]
    BY DEF Delivered, ReleasedByStop, Gone, AttemptFailed, Fenced, IInv, TypeOK
  <1>2. CASE Delivered(q) \/ ReleasedByStop(q)
    BY <1>1, <1>2 DEF Delivered, ReleasedByStop
  <1>3. CASE Gone(q)
    BY <1>3, DisableLeavesSettled DEF Gone
  <1>4. CASE AttemptFailed(q)
    <2>1. PICK recorded : /\ recorded[r] = rows[r]
                          /\ rows' = RowsDisabled(recorded, q[1]) \/ rows' = recorded
      BY <1>1, <1>4 DEF AttemptFailed
    <2>2. RowsDisabled(recorded, q[1])[r] = recorded[r]
      BY <2>1, DisableLeavesSettled
    <2> QED
      BY <2>1, <2>2
  <1> QED
    BY <1>2, <1>3, <1>4

LEMMA NextLeavesSettled ==
    ASSUME IInv, [Next]_vars, NEW r \in Deliveries, rows[r].status # "pending"
    PROVE  \/ Untouched(r)
           \/ redeliveries'[r] > redeliveries[r]
           \/ r[2] \in happened' \ happened
  <1>1. CASE Advance
    BY <1>1 DEF Advance, Aged, Row, Untouched
  <1>2. CASE \E e \in Events : Enqueue(e)
    BY <1>2 DEF Enqueue, Untouched
  <1>3. CASE \E h \in Hooks : webhookDelete(h)
    BY <1>3 DEF webhookDelete, NoRow, Row, Untouched
  <1>4. ASSUME NEW h, NEW enable, NEW rotate, NEW seen, ApplyUpdate(h, enable, rotate, seen)
        PROVE  Untouched(r)
    BY <1>4, DisableLeavesSettled DEF ApplyUpdate, Untouched
  <1>5. CASE \E q \in Deliveries : webhookRedeliver(q)
    <2>1. PICK q \in Deliveries : webhookRedeliver(q)
      BY <1>5
    <2>2. CASE q = r
      BY <2>1, <2>2 DEF webhookRedeliver, IInv, TypeOK
    <2>3. CASE q # r
      BY <2>1, <2>3 DEF webhookRedeliver, IInv, TypeOK, Untouched
    <2> QED
      BY <2>2, <2>3
  <1>6. CASE \E q \in Deliveries : Delivered(q) \/ ReleasedByStop(q) \/ Gone(q) \/ AttemptFailed(q)
    BY <1>6, ResultLeavesSettled DEF Untouched
  <1>7. CASE Tick
    BY <1>7, ClaimsLeaveSettled DEF Tick, Untouched
  <1>8. Pruned(rows)[r].status \in {rows[r].status, "none"}
    BY DEF Pruned, NoRow, Row
  <1>9. CASE Start
    <2>1. PICK S \in Batches(Due(Pruned(rows))) : Claims(Pruned(rows), S)
      BY <1>9 DEF Start
    <2>2. rows'[r] = Pruned(rows)[r]
      BY <1>8, <2>1, ClaimsLeaveSettled
    <2> QED
      BY <1>8, <2>2 DEF Untouched
  <1>10. CASE Prune
    BY <1>8, <1>10 DEF Prune, Untouched
  <1>11. CASE rows' = rows
    BY <1>11 DEF Untouched
  <1>12. \/ rows' = rows
         \/ Advance \/ Tick \/ Start \/ Prune
         \/ \E e \in Events : Enqueue(e)
         \/ \E h \in Hooks : webhookDelete(h)
         \/ \E h \in Hooks, enable \in {"keep", "on", "off"}, rotate \in {"no", "yes"} :
               webhookUpdate(h, enable, rotate)
         \/ \E a \in Admins : UpdateWrites(a)
         \/ \E q \in Deliveries : \/ webhookRedeliver(q) \/ Delivered(q) \/ ReleasedByStop(q)
                                   \/ Gone(q) \/ AttemptFailed(q)
    BY DEF Next, vars, Finish, webhookCreate, LoseKey, RestoreKey, UpdateReads, UpdateRefused, StaleResult, RecordError, Stop, Stopped, Crash
  <1> QED
    BY <1>1, <1>2, <1>3, <1>4, <1>5, <1>6, <1>7, <1>9, <1>10, <1>11, <1>12 DEF webhookUpdate, UpdateWrites

(* A settled delivery is never rewritten by a late result, a claim or a      *)
(* disable: the lease fence of recordResult, for every interleaving.         *)
THEOREM SettledIsFinal == Spec => SettledStaysSettled
  <1>1. IInv /\ [Next]_vars =>
           [\A r \in Deliveries :
               rows[r].status # "pending" =>
                  \/ rows'[r].status \in {rows[r].status, "none"}
                  \/ redeliveries'[r] > redeliveries[r]
                  \/ r[2] \in happened' \ happened]_vars
    BY NextLeavesSettled DEF Untouched
  <1> QED
    BY <1>1, InductiveInvariant, PTL DEF Spec, SettledStaysSettled
=============================================================================
