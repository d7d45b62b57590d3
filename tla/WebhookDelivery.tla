--------------------------- MODULE WebhookDelivery ---------------------------
(***************************************************************************)
(* Outbound webhooks: the subscriptions an admin manages (ops/webhook.ts,  *)
(* webhooks/subscriptions.ts), the transactional outbox of deliveries      *)
(* (webhooks/outbox.ts) and the one worker process that claims, sends and  *)
(* settles them (webhooks/worker.ts).                                      *)
(*                                                                         *)
(* Every action is one SQLite transaction or one synchronous stretch of    *)
(* the event loop.  Two things straddle an await and take two actions: a   *)
(* send (Tick claims, then one of the outcomes records) and an update that *)
(* changes the URL (it reads the hook, resolves the host, then writes).    *)
(*                                                                         *)
(* Times are kept relative to now: a column next_attempt_at is the time    *)
(* left until it is due, a lease the time left until it expires, an age    *)
(* the time since.  Advance moves all of them; none grows without bound.   *)
(***************************************************************************)
EXTENDS Integers, Sequences, FiniteSets

CONSTANTS
    Hooks,        \* subscription ids (random UUIDs, never reused)
    Events,       \* events.id of the changes that may be announced
    Wants,        \* the pairs <<hook, event>> that match on type, drive and prefix
    Admins,       \* callers of webhook-update
    Schedule,     \* retryScheduleMs: the delay before each retry
    LeaseTime,    \* LEASE_MS
    ServerRetry,  \* SERVER_ERROR_RETRY_MS
    AutoDisable,  \* AUTO_DISABLE_AFTER_MS
    Retention,    \* DELIVERY_RETENTION_MS
    Batch,        \* most deliveries claimed by one tick
    MaxHooks,     \* MAX_SUBSCRIPTIONS_PER_ORG
    MaxFaults,    \* bound: stops, crashes, lost keys and failed writes
    MaxOps        \* bound: admin operations

ASSUME WantsAssumption == Wants \subseteq Hooks \X Events
ASSUME ScheduleAssumption == Schedule \in Seq(Nat)
ASSUME TimesAssumption ==
    LeaseTime \in Nat /\ ServerRetry \in Nat /\ AutoDisable \in Nat /\ Retention \in Nat
ASSUME LimitsAssumption ==
    Batch \in Nat \ {0} /\ MaxHooks \in Nat /\ MaxFaults \in Nat /\ MaxOps \in Nat

VARIABLES
    hooks,        \* webhook_subscriptions
    rows,         \* webhook_deliveries, by (subscription, event)
    happened,     \* the events announced so far
    worker,       \* the worker loop: "down", "running" or "stopping"
    claims,       \* the claims of the tick in progress
    upd,          \* per admin, the webhook-update waiting for assertWebhookUrl
    unreadable,   \* hooks whose signing secret the server cannot decrypt
    faults, ops,  \* bound counters
    quiet,        \* history: time since the hook's last success, enable or creation
    cuts,         \* history: last attempts cut by a stop, a crash or a failed write
    redeliveries  \* history: redeliveries of the row

vars == <<hooks, rows, happened, worker, claims, upd, unreadable, faults, ops,
          quiet, cuts, redeliveries>>
-----------------------------------------------------------------------------
(* Rows. *)

Deliveries == Hooks \X Events

Null == -2   \* SQL NULL: no lease, not failing
Past == -1   \* lease_until < now, however long ago

(* A hook is created once and stays deleted: "unborn", then "enabled" or     *)
(* "disabled", then "deleted".  failing is the age of failing_since.         *)
Hook == [state : {"unborn", "enabled", "disabled", "deleted"},
         reason : {"none", "gone", "failing", "manual"},
         failing : Nat \cup {Null}]

(* status "none": no such row.  wait: time until next_attempt_at, 0 when due. *)
Delivery == [status : {"none", "pending", "delivered", "failed"}, attempts : Nat,
             wait : Nat, lease : Nat \cup {Null, Past}, age : Nat]

Claim == [inFlight : {"no", "yes"}, lease : Nat \cup {Null, Past}, attempts : Nat]

(* enable: the parameter `enabled` ("keep" when not passed); seen: what the  *)
(* handler read before its await.                                            *)
Update == [enable : {"idle", "keep", "on", "off"}, rotate : {"no", "yes"},
           hook : Hooks, seen : {"enabled", "disabled"}]

Row(status, attempts, wait, lease, age) ==
    [status |-> status, attempts |-> attempts, wait |-> wait, lease |-> lease, age |-> age]

NoRow == Row("none", 0, 0, Null, 0)
NoClaim == [inFlight |-> "no", lease |-> Null, attempts |-> 0]

Exists(h) == hooks[h].state \in {"enabled", "disabled"}
Idle == \A r \in Deliveries : claims[r].inFlight = "no"

Init ==
    /\ hooks = [h \in Hooks |-> [state |-> "unborn", reason |-> "none", failing |-> Null]]
    /\ rows = [r \in Deliveries |-> NoRow]
    /\ happened = {}
    /\ worker = "down"
    /\ claims = [r \in Deliveries |-> NoClaim]
    /\ upd \in [Admins -> {u \in Update : u.enable = "idle" /\ u.rotate = "no" /\ u.seen = "disabled"}]
    /\ unreadable = {}
    /\ faults = 0
    /\ ops = 0
    /\ quiet = [h \in Hooks |-> 0]
    /\ cuts = [r \in Deliveries |-> 0]
    /\ redeliveries = [r \in Deliveries |-> 0]
-----------------------------------------------------------------------------
(* Time. *)

Elapsed(time) == IF time > 0 THEN time - 1 ELSE 0
ElapsedLease(lease) == IF lease \in {Null, Past} THEN lease ELSE lease - 1
Older(age, cap) == IF age < cap THEN age + 1 ELSE age

Aged(row) ==
    IF row.status = "none" THEN row
    ELSE Row(row.status, row.attempts, Elapsed(row.wait), ElapsedLease(row.lease),
             Older(row.age, Retention + 1))

Advance ==
    /\ rows' = [r \in Deliveries |-> Aged(rows[r])]
    /\ claims' = [r \in Deliveries |->
                    [inFlight |-> claims[r].inFlight, lease |-> ElapsedLease(claims[r].lease),
                     attempts |-> claims[r].attempts]]
    /\ hooks' = [h \in Hooks |->
                   [state |-> hooks[h].state, reason |-> hooks[h].reason,
                    failing |-> IF hooks[h].failing = Null THEN Null
                                ELSE Older(hooks[h].failing, AutoDisable)]]
    /\ quiet' = [h \in Hooks |-> IF Exists(h) THEN Older(quiet[h], AutoDisable) ELSE quiet[h]]
    /\ UNCHANGED <<happened, worker, upd, unreadable, faults, ops, cuts, redeliveries>>
-----------------------------------------------------------------------------
(* The outbox. *)

NewDelivery == Row("pending", 0, 0, Null, 0)

(* enqueueCommentWebhooks, enqueueFileWebhooks: in the transaction of the    *)
(* change, one row per enabled matching subscription.                        *)
Enqueue(e) ==
    /\ e \notin happened
    /\ happened' = happened \cup {e}
    /\ rows' = [r \in Deliveries |->
                  IF r[2] = e /\ r \in Wants /\ hooks[r[1]].state = "enabled"
                  THEN NewDelivery ELSE rows[r]]
    /\ UNCHANGED <<hooks, worker, claims, upd, unreadable, faults, ops, quiet, cuts, redeliveries>>
-----------------------------------------------------------------------------
(* Subscriptions. *)

FailedByDisable(row) ==
    IF row.status = "pending" THEN Row("failed", row.attempts, row.wait, Null, row.age) ELSE row

(* disableSubscription *)
Disabled(hook, reason) == [state |-> "disabled", reason |-> reason, failing |-> hook.failing]
RowsDisabled(table, h) ==
    [r \in Deliveries |-> IF r[1] = h THEN FailedByDisable(table[r]) ELSE table[r]]

webhookCreate(h) ==
    /\ hooks[h].state = "unborn"
    /\ Cardinality({g \in Hooks : Exists(g)}) < MaxHooks
    /\ ops < MaxOps
    /\ ops' = ops + 1
    /\ hooks' = [hooks EXCEPT ![h] = [state |-> "enabled", reason |-> "none", failing |-> Null]]
    /\ quiet' = [quiet EXCEPT ![h] = 0]
    /\ UNCHANGED <<rows, happened, worker, claims, upd, unreadable, faults, cuts, redeliveries>>

(* The write of webhook-update, given what it read of the hook before.       *)
ApplyUpdate(h, enable, rotate, seen) ==
    /\ hooks' = [hooks EXCEPT ![h] =
                   IF ~Exists(h) THEN @
                   ELSE IF enable = "on"
                        THEN [state |-> "enabled", reason |-> "none", failing |-> Null]
                   ELSE IF enable = "off" /\ seen = "enabled" THEN Disabled(@, "manual")
                   ELSE @]
    /\ rows' = IF enable = "off" /\ seen = "enabled" THEN RowsDisabled(rows, h) ELSE rows
    /\ quiet' = [quiet EXCEPT ![h] = IF Exists(h) /\ enable = "on" THEN 0 ELSE @]
    /\ unreadable' = IF rotate = "yes" THEN unreadable \ {h} ELSE unreadable

(* Without a new URL the handler never awaits. *)
webhookUpdate(h, enable, rotate) ==
    /\ Exists(h)
    /\ ops < MaxOps
    /\ ops' = ops + 1
    /\ ApplyUpdate(h, enable, rotate, hooks[h].state)
    /\ UNCHANGED <<happened, worker, claims, upd, faults, cuts, redeliveries>>

(* With one it reads the hook first, and awaits assertWebhookUrl ...         *)
UpdateReads(a, h, enable, rotate) ==
    /\ upd[a].enable = "idle"
    /\ Exists(h)
    /\ ops < MaxOps
    /\ ops' = ops + 1
    /\ upd' = [upd EXCEPT ![a] = [enable |-> enable, rotate |-> rotate, hook |-> h,
                                  seen |-> hooks[h].state]]
    /\ UNCHANGED <<hooks, rows, happened, worker, claims, unreadable, faults, quiet, cuts,
                   redeliveries>>

Answered(a) ==
    upd' = [upd EXCEPT ![a] = [enable |-> "idle", rotate |-> "no", hook |-> upd[a].hook,
                               seen |-> "disabled"]]

(* ... then writes what it decided, whatever happened to the hook since.     *)
UpdateWrites(a) ==
    /\ upd[a].enable # "idle"
    /\ ApplyUpdate(upd[a].hook, upd[a].enable, upd[a].rotate, upd[a].seen)
    /\ Answered(a)
    /\ UNCHANGED <<happened, worker, claims, faults, ops, cuts, redeliveries>>

(* assertWebhookUrl refuses the URL. *)
UpdateRefused(a) ==
    /\ upd[a].enable # "idle"
    /\ Answered(a)
    /\ UNCHANGED <<hooks, rows, happened, worker, claims, unreadable, faults, ops, quiet, cuts,
                   redeliveries>>

(* The deliveries go with the hook (ON DELETE CASCADE). *)
webhookDelete(h) ==
    /\ Exists(h)
    /\ ops < MaxOps
    /\ ops' = ops + 1
    /\ hooks' = [hooks EXCEPT ![h] = [state |-> "deleted", reason |-> "none", failing |-> Null]]
    /\ rows' = [r \in Deliveries |-> IF r[1] = h THEN NoRow ELSE rows[r]]
    /\ unreadable' = unreadable \ {h}
    /\ UNCHANGED <<happened, worker, claims, upd, faults, quiet, cuts, redeliveries>>

RedeliverAnyHook(r) ==   \* mutant: the hook's state is not checked
    /\ rows[r].status # "none"
    /\ rows[r].status # "pending" \/ rows[r].lease \in {Null, Past, 0}

(* Refused while the hook is disabled and while the row is being sent.       *)
Redeliverable(r) ==
    /\ rows[r].status # "none"
    /\ hooks[r[1]].state = "enabled"
    /\ rows[r].status # "pending" \/ rows[r].lease \in {Null, Past, 0}

webhookRedeliver(r) ==
    /\ Redeliverable(r)
    /\ ops < MaxOps
    /\ ops' = ops + 1
    /\ rows' = [rows EXCEPT ![r] = Row("pending", @.attempts, 0, Null, @.age)]
    /\ redeliveries' = [redeliveries EXCEPT ![r] = @ + 1]
    /\ UNCHANGED <<hooks, happened, worker, claims, upd, unreadable, faults, quiet, cuts>>
-----------------------------------------------------------------------------
(* The worker: claiming. *)

UnleasedOnly(row) ==   \* mutant: an expired lease is never taken over
    row.status = "pending" /\ row.wait = 0 /\ row.lease = Null

Claimable(row) ==
    row.status = "pending" /\ row.wait = 0 /\ row.lease \in {Null, Past}

Due(table) == {r \in Deliveries : Claimable(table[r]) /\ hooks[r[1]].state = "enabled"}

(* claimDueDeliveries: at most Batch due rows, by next_attempt_at.  How long *)
(* a row is overdue is not kept, so any choice among the due rows is allowed. *)
Batches(due) == {S \in SUBSET due : /\ Cardinality(S) <= Batch
                                    /\ S # due => Cardinality(S) = Batch}

Claimed(row) == Row(row.status, row.attempts + 1, row.wait, LeaseTime, row.age)

(* deferClaim: the attempt is given back, the hook is not blamed.            *)
Deferred(row) == Row(row.status, row.attempts - 1, ServerRetry, Null, row.age)

(* processDueWebhooks up to its sends: claim, and defer what cannot be signed. *)
Claims(table, S) ==
    /\ rows' = [r \in Deliveries |->
                  IF r \notin S THEN table[r]
                  ELSE IF r[1] \in unreadable THEN Deferred(Claimed(table[r]))
                  ELSE Claimed(table[r])]
    /\ claims' = [r \in Deliveries |->
                    IF r \in S /\ r[1] \notin unreadable
                    THEN [inFlight |-> "yes", lease |-> LeaseTime,
                          attempts |-> Claimed(table[r]).attempts]
                    ELSE NoClaim]

(* A tick starts only when the previous one has recorded all its results.    *)
Tick ==
    /\ worker = "running"
    /\ Idle
    /\ Due(rows) # {}
    /\ \E S \in Batches(Due(rows)) : Claims(rows, S)
    /\ UNCHANGED <<hooks, happened, worker, upd, unreadable, faults, ops, quiet, cuts, redeliveries>>

PruneByAge(row) == row.age > Retention   \* mutant: pending rows are pruned too

Prunable(row) == row.status \in {"delivered", "failed"} /\ row.age > Retention

Pruned(table) == [r \in Deliveries |-> IF Prunable(table[r]) THEN NoRow ELSE table[r]]

Prune ==
    /\ worker = "running"
    /\ Pruned(rows) # rows
    /\ rows' = Pruned(rows)
    /\ UNCHANGED <<hooks, happened, worker, claims, upd, unreadable, faults, ops, quiet, cuts,
                   redeliveries>>

(* startWebhookWorker: prunes and ticks at once. *)
Start ==
    /\ worker = "down"
    /\ worker' = "running"
    /\ \E S \in Batches(Due(Pruned(rows))) : Claims(Pruned(rows), S)
    /\ UNCHANGED <<hooks, happened, upd, unreadable, faults, ops, quiet, cuts, redeliveries>>
-----------------------------------------------------------------------------
(* The worker: recording one result (recordResult). *)

InFlight(r) == claims[r].inFlight = "yes"

AnyClaim(r) == InFlight(r)   \* mutant: the fence is forgotten

(* Every write is fenced on the lease of the claim. *)
Fenced(r) == rows[r].status = "pending" /\ rows[r].lease = claims[r].lease

Unleased(row, status, wait) == Row(status, row.attempts, wait, Null, row.age)

Released(r) == claims' = [claims EXCEPT ![r] = NoClaim]

StillFailing(hook) == hook   \* mutant: failing_since survives a success

AfterSuccess(hook) == [state |-> hook.state, reason |-> hook.reason, failing |-> Null]

(* 2xx *)
Delivered(r) ==
    /\ InFlight(r)
    /\ Fenced(r)
    /\ Released(r)
    /\ rows' = [rows EXCEPT ![r] = Unleased(@, "delivered", @.wait)]
    /\ hooks' = [hooks EXCEPT ![r[1]] = AfterSuccess(@)]
    /\ quiet' = [quiet EXCEPT ![r[1]] = 0]
    /\ UNCHANGED <<happened, worker, upd, unreadable, faults, ops, cuts, redeliveries>>

(* An attempt is cut before its result is recorded.  It stays counted in the *)
(* row; if it was the last one of the schedule, the row is sent once more.   *)
Cut(r) == cuts[r] + IF rows[r].attempts > Len(Schedule) THEN 1 ELSE 0

(* The send was cut, or failed, after the stop signal: only the lease goes.  *)
ReleasedByStop(r) ==
    /\ InFlight(r)
    /\ worker = "stopping"
    /\ Fenced(r)
    /\ Released(r)
    /\ rows' = [rows EXCEPT ![r] = Unleased(@, "pending", @.wait)]
    /\ cuts' = [cuts EXCEPT ![r] = Cut(r)]
    /\ UNCHANGED <<hooks, happened, worker, upd, unreadable, faults, ops, quiet, redeliveries>>

(* 410 *)
Gone(r) ==
    /\ InFlight(r)
    /\ worker = "running"
    /\ Fenced(r)
    /\ Released(r)
    /\ hooks' = [hooks EXCEPT ![r[1]] = Disabled(@, "gone")]
    /\ rows' = RowsDisabled(rows, r[1])
    /\ UNCHANGED <<happened, worker, upd, unreadable, faults, ops, quiet, cuts, redeliveries>>

(* round(d * U[0.8, 1.2)) *)
webhookRetryJitter(d) == {w \in 0..(2 * d) : 4 * d <= 5 * w /\ 5 * w <= 6 * d}

OneRetryMore(attempts) == attempts - 1 <= Len(Schedule)   \* mutant: <= for <

Retries(attempts) == attempts - 1 < Len(Schedule)

(* The delays webhook-retry may draw for the attempt; none after the last.   *)
Delays(attempts) ==
    IF attempts \in DOMAIN Schedule THEN webhookRetryJitter(Schedule[attempts]) ELSE {0}

AfterFailure(hook) ==
    [state |-> hook.state, reason |-> hook.reason,
     failing |-> IF hook.failing = Null THEN 0 ELSE hook.failing]

(* Any other failure: retry on schedule or give up; then the hook is blamed, *)
(* and disabled once it has failed for too long.                             *)
AttemptFailed(r) ==
    /\ InFlight(r)
    /\ worker = "running"
    /\ Fenced(r)
    /\ Released(r)
    /\ \E delay \in Delays(claims[r].attempts) :
          LET recorded == IF Retries(claims[r].attempts)
                          THEN [rows EXCEPT ![r] = Unleased(@, "pending", delay)]
                          ELSE [rows EXCEPT ![r] = Unleased(@, "failed", @.wait)]
              blamed == AfterFailure(hooks[r[1]])
              disable == blamed.state = "enabled" /\ blamed.failing >= AutoDisable
          IN  /\ hooks' = [hooks EXCEPT ![r[1]] = IF disable THEN Disabled(blamed, "failing")
                                                  ELSE blamed]
              /\ rows' = IF disable THEN RowsDisabled(recorded, r[1]) ELSE recorded
    /\ UNCHANGED <<happened, worker, upd, unreadable, faults, ops, quiet, cuts, redeliveries>>

(* The row was disabled, requeued or deleted during the send: no effect.     *)
StaleResult(r) ==
    /\ InFlight(r)
    /\ ~Fenced(r)
    /\ Released(r)
    /\ UNCHANGED <<hooks, rows, happened, worker, upd, unreadable, faults, ops, quiet, cuts,
                   redeliveries>>

(* The write fails: the row is left to its lease.  The row of a stale claim  *)
(* already counted its cut or was settled otherwise.                         *)
RecordError(r) ==
    /\ InFlight(r)
    /\ Fenced(r)
    /\ faults < MaxFaults
    /\ faults' = faults + 1
    /\ Released(r)
    /\ cuts' = [cuts EXCEPT ![r] = Cut(r)]
    /\ UNCHANGED <<hooks, rows, happened, worker, upd, unreadable, ops, quiet, redeliveries>>
-----------------------------------------------------------------------------
(* Stopping and crashing. *)

(* stopWebhookWorker aborts the sends and waits for their results ...        *)
Stop ==
    /\ worker = "running"
    /\ faults < MaxFaults
    /\ faults' = faults + 1
    /\ worker' = IF Idle THEN "down" ELSE "stopping"
    /\ UNCHANGED <<hooks, rows, happened, claims, upd, unreadable, ops, quiet, cuts, redeliveries>>

Stopped ==
    /\ worker = "stopping"
    /\ Idle
    /\ worker' = "down"
    /\ UNCHANGED <<hooks, rows, happened, claims, upd, unreadable, faults, ops, quiet, cuts,
                   redeliveries>>

(* ... but the shutdown gives up after two seconds, and a process may die.   *)
Crash ==
    /\ worker \in {"running", "stopping"}
    /\ faults < MaxFaults
    /\ faults' = faults + 1
    /\ worker' = "down"
    /\ claims' = [r \in Deliveries |-> NoClaim]
    /\ cuts' = [r \in Deliveries |->
                  IF InFlight(r) /\ Fenced(r) THEN Cut(r) ELSE cuts[r]]
    /\ UNCHANGED <<hooks, rows, happened, upd, unreadable, ops, quiet, redeliveries>>

(* The key file is lost, or one ciphertext is damaged; and put back.         *)
LoseKey(h) ==
    /\ Exists(h)
    /\ h \notin unreadable
    /\ faults < MaxFaults
    /\ faults' = faults + 1
    /\ unreadable' = unreadable \cup {h}
    /\ UNCHANGED <<hooks, rows, happened, worker, claims, upd, ops, quiet, cuts, redeliveries>>

RestoreKey(h) ==
    /\ h \in unreadable
    /\ unreadable' = unreadable \ {h}
    /\ UNCHANGED <<hooks, rows, happened, worker, claims, upd, faults, ops, quiet, cuts,
                   redeliveries>>
-----------------------------------------------------------------------------
Finish(r) ==
    \/ Delivered(r)
    \/ ReleasedByStop(r)
    \/ Gone(r)
    \/ AttemptFailed(r)
    \/ StaleResult(r)

Next ==
    \/ Advance
    \/ \E e \in Events : Enqueue(e)
    \/ \E h \in Hooks : \/ webhookCreate(h)
                        \/ webhookDelete(h)
                        \/ LoseKey(h)
                        \/ RestoreKey(h)
    \/ \E h \in Hooks, enable \in {"keep", "on", "off"}, rotate \in {"no", "yes"} :
          \/ webhookUpdate(h, enable, rotate)
          \/ \E a \in Admins : UpdateReads(a, h, enable, rotate)
    \/ \E a \in Admins : UpdateWrites(a) \/ UpdateRefused(a)
    \/ \E r \in Deliveries : webhookRedeliver(r) \/ Finish(r) \/ RecordError(r)
    \/ Tick
    \/ Prune
    \/ Start
    \/ Stop
    \/ Stopped
    \/ Crash

Spec == Init /\ [][Next]_vars

(* The loop polls on an interval, a send ends by its timeout at the latest,  *)
(* and time passes.  Nothing promises that a stopped server starts again.    *)
FairSpec ==
    /\ Spec
    /\ WF_vars(Advance)
    /\ WF_vars(Tick)
    /\ \A r \in Deliveries : WF_vars(Finish(r))
    /\ WF_vars(Stopped)
-----------------------------------------------------------------------------
(* Properties. *)

TypeOK ==
    /\ hooks \in [Hooks -> Hook]
    /\ rows \in [Deliveries -> Delivery]
    /\ happened \subseteq Events
    /\ worker \in {"down", "running", "stopping"}
    /\ claims \in [Deliveries -> Claim]
    /\ upd \in [Admins -> Update]
    /\ unreadable \subseteq Hooks
    /\ faults \in 0..MaxFaults
    /\ ops \in 0..MaxOps
    /\ quiet \in [Hooks -> Nat]
    /\ cuts \in [Deliveries -> Nat]
    /\ redeliveries \in [Deliveries -> Nat]

(* Only an enabled hook has queued deliveries: a disable (by an admin, a 410 *)
(* or five days of failures) fails them all, and neither an event nor a      *)
(* redelivery nor a result that arrives late queues one afterwards.          *)
OnlyEnabledOwed ==
    \A r \in Deliveries : rows[r].status = "pending" => hooks[r[1]].state = "enabled"

(* The retry budget: attempts stay within the first send and the scheduled   *)
(* retries, plus one for every redelivery and one for every time the last of *)
(* them was cut before its result was recorded.  An earlier attempt that is  *)
(* cut counts like any other, and a server that cannot decrypt a secret uses *)
(* up none, however often it defers.                                         *)
AttemptsAccounted ==
    \A r \in Deliveries :
       rows[r].attempts <= Len(Schedule) + 1 + cuts[r] + redeliveries[r]

(* docs/webhooks.md:233 and :220: nobody having asked for a redelivery, a    *)
(* delivery is sent as often as the schedule says, a cut attempt included.   *)
CutAttemptsCount ==
    \A r \in Deliveries : redeliveries[r] = 0 => rows[r].attempts <= Len(Schedule) + 1

(* What is owed stays owed until it is settled: a queued delivery ends only  *)
(* delivered, or failed with its hook disabled or its retries used up, or    *)
(* with the deletion of its hook.  Stops, crashes, the pruning of the log    *)
(* and stale results lose none.                                              *)
OwedUntilSettled ==
    [][\A r \in Deliveries :
          rows[r].status = "pending" =>
             \/ rows'[r].status \in {"pending", "delivered"}
             \/ rows'[r].status = "failed" /\ hooks'[r[1]].state = "disabled"
             \/ rows'[r].status = "failed" /\ rows[r].attempts > Len(Schedule)
             \/ rows'[r].status = "none" /\ hooks'[r[1]].state = "deleted"]_vars

(* A settled delivery stays as it is until somebody asks for it again: it is *)
(* redelivered, pruned or deleted with its hook, and a result that comes     *)
(* back after a disable, a redelivery or a delete rewrites nothing.          *)
SettledStaysSettled ==
    [][\A r \in Deliveries :
          rows[r].status # "pending" =>
             \/ rows'[r].status \in {rows[r].status, "none"}
             \/ redeliveries'[r] > redeliveries[r]
             \/ r[2] \in happened' \ happened]_vars

(* A hook is disabled as failing only when no success was recorded for it,   *)
(* and it was not created or enabled, during the whole AutoDisable window.   *)
AutoDisableJustified ==
    [][\A h \in Hooks :
          hooks[h].reason # "failing" /\ hooks'[h].reason = "failing"
             => quiet[h] >= AutoDisable]_vars

(* While the worker stays up and can sign, every queued delivery is settled. *)
(* (A crash leaves a lease, a failed write leaves a lease, a retry waits:    *)
(* each of them ends.)                                                       *)
EverySendSettles ==
    <>[](worker = "running" /\ unreadable = {}) =>
       \A r \in Deliveries : rows[r].status = "pending" ~> rows[r].status # "pending"
-----------------------------------------------------------------------------
(* The inductive invariant. *)

(* While a send is in flight nobody else leases its row: the lease is the    *)
(* claim's own, on the attempt the claim counted, or it was cleared.         *)
ClaimsMatch ==
    \A r \in Deliveries : InFlight(r) =>
       /\ claims[r].lease # Null
       /\ rows[r].status = "pending" /\ rows[r].lease # Null
             => rows[r].lease = claims[r].lease /\ rows[r].attempts = claims[r].attempts

DownIsIdle == worker = "down" => Idle

(* A queued delivery that is not being sent has an attempt left.             *)
AttemptLeft ==
    \A r \in Deliveries :
       rows[r].status = "pending" /\ ~(InFlight(r) /\ Fenced(r))
          => rows[r].attempts <= Len(Schedule) + cuts[r] + redeliveries[r]

FailingWithinQuiet ==
    \A h \in Hooks : hooks[h].failing # Null => Exists(h) /\ hooks[h].failing <= quiet[h]

IInv ==
    /\ TypeOK
    /\ OnlyEnabledOwed
    /\ AttemptsAccounted
    /\ ClaimsMatch
    /\ DownIsIdle
    /\ AttemptLeft
    /\ FailingWithinQuiet
=============================================================================
