# A TLA+ model of agent-fs

agent-fs is a versioned, searchable file system for agents: an HTTP server (and an
IPC server for a FUSE mount) over an object store that holds the bytes and a SQLite
database that holds everything else. This directory models the parts of it whose
correctness depends on the order of events, checks them with TLC on small instances
and proves their most important invariants with TLAPS for every instance.

Paths are relative to `src/packages/core/src/` unless they say otherwise.

## 1. Inventory

| Part | State it keeps | Operations | Hard behaviour | Correct when |
|---|---|---|---|---|
| File operations and versioning (`ops/{write,edit,append,rm,mv,cp,revert,versioning}.ts`) | objects; `file_versions`, `files` | write, writeRaw, edit, append, rm, mv, cp, revert | every operation is a chain of store calls and transactions; nothing locks a path | version numbers are dense, `files` names the head, each version can be read back, a conditional operation lands on the version it names |
| Full-text row, stars, comments of a path (`ops/search-index.ts`, `ops/favorite.ts`, `ops/comment.ts`) | `files_fts_docs`, `favorites`, `comments` | index, clear, star, comment, sweep | they run after the commit, behind an await | they agree with the head once the path is quiet |
| Glob listing cache (`ops/glob-cache.ts`) | two Maps: cached and pending listings | hit, join, load, evict, invalidate | a listing in flight while a write commits | a recorded write is never hidden |
| Webhooks (`webhooks/*.ts`, `ops/webhook.ts`) | `webhook_subscriptions`, `webhook_deliveries`; the claims of a tick | create, update, delete, redeliver, enqueue, claim, send, record, prune, start, stop | crash between claim and record, late results, leases, retries, auto-disable | nothing owed is lost, a disabled hook owes nothing, the retry budget holds |
| Embedding pipeline (`search/pipeline.ts`, `search/image-embedding.ts`, `search/embedding-migration.ts`, `ops/reindex.ts`) | chunks, vectors, two status columns, `meta` markers; semaphores | schedule, embed, replace, fail, reindex, migrate | results of superseded jobs, restart in the middle, slots | chunks are those of the head or the status says otherwise |
| Object stores (`s3/client.ts`, `storage/local-adapter.ts`, `storage/legacy-reserved-keys.ts`) | objects, versions | put, get, copy, delete, list | lost answers, non-atomic copy | the operations above find what they wrote |
| Identity (`identity/*.ts`, `server/src/routes/{orgs,auth}.ts`) | users, orgs, drives, members, invites, API keys | register, invite, accept, grant, demote, remove, mint, reset, revoke | rules over counts, cascades; routes authorize, await the body, then act | every org and drive keeps an admin, nobody joins without consent, no step takes away a key's ground and leaves the key |
| Shares and sites (`ops/share*.ts`, `server/src/routes/{share,site}.ts`) | share rows, view grants | create, revoke, list, view, fetch bytes, presign, browse | expiry, revocation and the last view during a store call; clocks of two resolutions | nothing is sent after a link's end, views are within the limit, bytes follow a view |
| Comments, mentions, notifications (`ops/comment*.ts`) | threads, notifications | add, reply, resolve, delete, read | deletion with the file | a notification names a live comment |
| Presence and events (`presence/registry.ts`, `events/bus.ts`) | in-memory maps, subscribers | announce, expire, subscribe | timers against heartbeats | nobody is shown after their time |
| Migrations (`db/*-migration.ts`) | schema version, `meta` | startup steps | restart in the middle | a second start ends where one start would |
| HTTP and IPC server (`server/src`) | worker handle, rate limit windows | start, route, stop | shutdown races | a stopped server leaves nothing claimed for ever |
| FUSE helper (`fuse-helper/src/*.rs`, `server/src/ipc`) | open handles with working copies, directory cache, pending requests | lookup, open, create, release, readdir, unlink, rename | one event loop, two transports, lost answers, retries, restarts of the daemon, other mounts | a close that reports success has stored the bytes once, on the version it opened |
| Reads, queries, SQL, CLI, MCP, just-bash, telemetry, UI | none that outlives the call | - | - | - |

How they meet: every file operation calls the object store, invalidates the glob
cache, records a version, enqueues webhook deliveries in the transaction of that
version (`webhooks/outbox.ts`), and then indexes the path and schedules its
embedding. The server starts the webhook worker and the migrations. The IPC handlers
and HTTP routes call the same operations. `PROJECT.json` lists each part with its
status, and under `hazards` what is hard to test in it, line by line.

### What is one step

A server process is one JavaScript event loop, so the code between two awaits is one
step, and a synchronous SQLite transaction is one step. Two refinements of this rule:

* `createVersion` is `async` and its caller resumes one microtask after its
  transaction. The model does the caller's synchronous continuation (the read of the
  current version that guards the indexing, rm's clearing of search data, comments and
  stars, mv's removal of the source's text) in the same action. Another commit on the
  same path cannot land in that gap: its number would have been computed before this
  commit, and its insert fails on the UNIQUE index.
* In `glob-cache.ts` the `then` and the `finally` of a request are two microtasks and
  one action. A reader in between either hits the new entry or shares a promise that
  is already settled, an invalidation in between removes both; each equals an order
  the model has.

An expected-version mismatch throws before anything has changed; it is a stutter, so
only a match is a step.

## 2. Modules

### DriveFiles - file operations on an object store and a version log

State: `store` (per path, the object versions; without bucket versioning only the
latest is readable), `rows` (`file_versions`), `files`, `fts`, `stars`, `threads`
(paths with open comments), and per caller `req`, `pc`, `loc`: the request, the await
it is at, and its local variables. `wins`, `clean` are history, read only by properties.

Actions: `Begin` (validation and `assertExpectedVersion`), `Deduped`/`NotDeduped`
(`getHeadContentHash`), `GetObject`, `PutObject`, `CopyObject`, `InspectCopy`,
`DeleteObject`, `Reject`, `NextVersion` (`getNextVersion`), `CommitContent`,
`CommitRemoval`, `CommitMoveTarget`, `CommitMoveSource`, `CommitConflict`
(`createVersion`'s transaction, succeeding or failing at the UNIQUE index, with what
the operation does at once afterwards), `IndexText`, `favoriteAdd`, `commentAdd`,
`ResolvePathKind`, and `Abort`: a store or database error, or a crash, at any await.

Abstractions: content is a short sequence of chunks, its hash is itself; size, content
type, author and message are left out; folder stars are left out; S3's copy is atomic.
Any moved file may be a PDF: then mv indexes the text stored for its source, as it was when
the copy was inspected (`mv.ts:57`, `MovedText`), and not the bytes it moved.

### WebhookDelivery - subscriptions, outbox and worker

State: the two tables, the worker's phase and the claims of the tick in progress, the
`webhook-update` calls that wait for a host lookup, and which secrets cannot be
decrypted. Times are relative to now, so the clock needs no bound. `quiet`, `cuts`,
`redeliveries` are history.

Actions: `Enqueue`, `webhookCreate`, `webhookUpdate` (without a URL), `UpdateReads`
then `UpdateWrites`/`UpdateRefused` (with one), `webhookDelete`, `webhookRedeliver`,
`Tick` (claim a batch, defer what cannot be signed), `Finish` (the outcome of one
send: delivered, retried, failed, gone, released by a stop, or stale),
`RecordError`, `Prune`, `Start`, `Stop`, `Stopped`, `Crash`, `LoseKey`, `RestoreKey`
and `Advance` (time).

Facts used: one worker per database (`docs/webhooks.md:294`,
`server/src/index.ts:150`); deliveries may be enqueued and administered while it is
down; shutdown waits two seconds for it (`server/src/index.ts:224`), then it is a
crash. Any batch of due rows may be claimed: the order among due rows is not kept, nor
are payloads, URLs and the diagnostic columns.

### GlobCache - shared and cached listings

State: `store` and `published` (per drive, the mutations in effect and those whose
caller has invalidated), `awaiting`, `cache`, `rank` (the Map's order), `pending`,
`load` (a reader's own request), `reader` (the request it waits for). A listing is the
set of mutations it reflects; a paginated one reflects at least what its first page
saw, which is what is kept.

Actions: `StoreEffect`, `Publish` (`createVersion`, mv, cp resume and invalidate),
`WriteFails` (the call took effect and threw), `Hit`, `Join`, `Miss`, `listObjects`,
`Resolve`, `LoadFails`, `Advance`.

### Identity and OrgMembership - one organization, its drives, invites and keys

`OrgMembership` is the abstract specification: `role` per person and the `invited`
addresses, with `Invite`, `Withdraw`, `Join` (only by invitation, which it uses up),
`Raise` and `Lower` (never the last admin). `Identity` implements it under
`role <- org`, `invited <- ` the addresses of the open invites, `Alias <- Lower`
(property `ImplementsMembership`).

State of `Identity`: `registered`, `org`, `drives`, `drive` (roles), `invites`,
`primary` and `keys` (API keys), and `req`: a request that has been authorized and
awaits its body (`await c.req.json()` in `server/src/routes/orgs.ts`), during which its
caller may be removed. `late` is history: the creator of a drive who had been removed by then. Actions keep the names of the functions:
`createUser`, `AuthorizeAdmin`/`AuthorizeOrgKey`/`AuthorizeOwnKey`/`AuthorizeDrive`,
then `createDrive`, `createPendingInvite`, `inviteToOrg`, `updateOrgMemberRole`,
`createUserApiKey`, `addDriveMember`, `updateDriveMemberRole` or `Refused`; and in one
step `removeOrgMember`, `removeDriveMember`, `revokeInvite`, `acceptInvite`,
`resetApiKey`, `resetOrgScopedKey`, `revokeUserApiKey`, `Expire`.

Abstractions: one organization beside the personal ones; an email is an account with a
lower-case form; tokens, hashes, names and times are left out, an invite is expired or
not. A role that the PATCH routes do not check is refused by the CHECK of the tables
(`db/raw.ts:161`, `:176`): the call throws and changes nothing, so only the roles are inputs. One process per database: see the hazard at `identity/orgs.ts:121`.

### EmbeddingJobs - jobs, slots, image scan and migration

State: `obj`, `row` (the files row with its two statuses), `text` and `image` (chunks:
the content embedded and the format), `meta` (stored format, exclusion, retry key, image
marker), the semaphore (`permits`, `queue`, `running`), `mig` and `scan` (the migration
of this start and the image job), `call` (client operations), `conf` (the settings of
this start) and `up`. `gap` and `killed` are history: why a path may lag, and which images
a crash interrupted. An interruption stands until something in the code lifts the failure it
leads to: a reindex, a change of format, or an exclusion of images while its marker is set.

Actions: `putObject`, `createVersion`, `indexForSearch`; `deleteObject`, `rm`;
`copyObject`, `mvCommit`, `mvDelete`, `mvGone`, `mvTail`; `reindex`, `reindexRead`,
`reindexDone`; `embedded`, `failed`, `initFailed`; `warmedUp`, `warmupFailed`,
`migrationSelect`, `migrationRead`, `migrationExtract`, `afterMigration`; `imageSlot`,
`imageSelect`, `imageRow`, `embedImageFile`; `callFailed` (a write, rm or mv throws at an
await behind its first effect: mv when the source cannot be deleted, `mv.ts:75`, or its
deletion not recorded, `mv.ts:78`), `Crash`, `Boot`.

Abstractions: a content is an identifier and a kind; chunks are all or none; the version
log is that of DriveFiles reduced to the number of the call that committed, so the races
of `createVersion` itself stay there; the batch of a scan is all that is pending, taken in
the order of the paths. `prepareEmbeddingMigration` is one step: its transactions follow each
other without an await, and a start that is cut between them does the rest at the next. Its
size limit (`embedding-migration.ts:103`, `:120-138`) is left out: a changed limit makes rows
pending the way a changed exclusion does. An image job holds one slot for all pages of a file
where the code takes one per page and gives it back before the transaction
(`image-embedding.ts:133`, `:178-190`): with one slot a text job that gets in between two
pages is not explored, with more slots, which the theorems cover, its order is free.

### FuseMount - the helper, its transports and the daemon's handlers

State: `object` and `rows` (store and version log), `handlers` (requests the daemon is
serving), `up`; per mount `sock`, `connNo`, `draining` (a reader task between dropping
the writer and draining the waiters), `call` (the callback being served), `open`,
`nextFh`, `nextId`, `listing` (the readdir cache). `torn`, `commits`, `closes` and `mine`
are history. `main.rs` leaves `n_threads` unset, so a helper serves one callback at a
time and a callback that never returns is the end of the mount.

Actions: the kernel's `Open` (lookup, then open or create), `Release`, `ReadDir`,
`Unlink`, `Rename`; the transport's `Send`, `SendFails`, `NoticeLoss`, `Drain`, `TimeOut`
(with `with_retry` and `is_idempotent`; the answer "ipc disconnected" made by the drain
is an answer and is not retried); the daemon's `Look`, `GetObject`, `ReadHead`,
`CheckVersion`, `PutObject`, `CopyObject`, `Commit`, `DeleteObject`, `Bury`; the answers
`LookedUp`, `OpenedRead`, `Saved`, `Recorded`, `DirRead`, `Renamed`, `DropAnswer`; the
faults `Disconnect`, `Crash`, `CrashInFrame`, `GiveUp` (an answer over 64 MiB, on which the
reader returns without draining while the daemon is up, or one it cannot decode), `Reject`
(a handler throws at an await, before or after it has changed the store or committed a
version, and answers an error or a conflict), and `Restart`. The constant `Faults` says which
of them an instance has. A remote mount has the same
callbacks over HTTP (`server/src/routes/files.ts`).

Abstractions: a working copy is private until its close, so writes and truncations
through the handle are part of `Release`; `createVersion` and mv's copy with its
inspection are one step each (DriveFiles splits them). Left out: mkdir and rmdir, setattr
without a handle, IPC operations the helper never sends, the sidecar's files, the inode
and drive tables, and the fact that the kernel ignores the result of release.

### Shares - public links

State: `share` (rows), `grants` (`share_view_grants`), `req` (per visitor, the request
and the await it is at), `backend` (S3 can presign, local storage cannot), and `now` in
ticks, `Second` of them to a second, because timestamp columns hold whole seconds and
`Date.now()` does not. `minted` and `released` are history: what visitors were sent.

Actions: `ShareCreate`, `ShareRevoke`; `OpenPage`, `SpendView`/`ViewRefused`
(`openShareView`), `ReleasePage`; `FetchBytes`, `AfterHead`, `ReleaseBytes`,
`ReleaseUrl`; `OpenSite`, `BrowseSite`, `ReleaseSite`; `StoreFails` and `Tick`. The signer
stamps the time it was handed or its own, as `presignedUrlDeadline` suspects.

Abstractions: a token is the link; a file is its preview class; rendering, headers, audit
events and the rate limiter are left out, and so are the pages of the list (100 links each):
`shareList` stands for all of them.

### Other modules

`MC<Module>` gives TLC its symmetry sets and structured constants.
`<Module>_proofs` holds the theorems. A definition marked `\* mutant:` is a plausible
bug of the definition below it; it is used only to show that a property can fail.

## 3. Runs

| Run | Question and answer |
|---|---|
| `files_overlap` | Two callers, three overlapping write, edit, append, revert and rm on one path. Numbers are dense, `files` names the head, the search text of a quiet path is its head's, a conditional operation that ran alone lands on the next version, and one undisturbed operation repairs whatever a race left. |
| `files_faults` | All kinds, stars and comments included, on two paths, one operation cut at any await. Every version can be read back; mv deletes only what it has committed elsewhere; one undisturbed operation leaves object, head version and search text in agreement and no star on a file that is gone. The exception is a move of a PDF, whose target gets the text stored for its source, stale or missing as that may be. |
| `files_one_winner` (violation) | Two writers that expect the same version can both commit. |
| `webhooks` | Two deliveries of one hook, a retry each, an admin, two faults: fencing, auto-disable, nothing lost, attempts within the schedule but for redeliveries and cut last attempts, and every queued delivery settles once the worker stays up, whatever lease a crash, a stop or a failed write left behind. |
| `webhooks_budget` (violation) | A last attempt that is cut is sent once more: the ninth send that `docs/webhooks.md:233` rules out. |
| `glob_cache` | Two readers, three prefixes, two drives, two writes, room for two entries: no recorded write is hidden, one call per key, bounded. |
| `identity` | A founder and two accounts that differ in letter case, two drives, two invites, a key, five calls of which one may await its body while the rest run: the organization implements `OrgMembership`, every drive keeps an admin, a removal ends all access (except to a drive whose creation was in flight at the removal), and no step takes away what backs a key and leaves the key. A key minted on a grant that was lost during the await has no such ground and is not covered. |
| `embedding` | An embedded PDF and two more operations, one slot, a start with a new format or a new exclusion, one crash, embedding failure or call that throws half way: chunks follow the file, deleted files leave none, formats are not mixed, slots are conserved, nothing pending is forgotten beyond the next start, an image that killed the daemon is not tried again. |
| `fuse_close` | A socket mount and a remote mount open, create, close and unlink one file, with one fault, handlers that reject included: a close replaces the version it opened, once; a reported save is stored. |
| `fuse_names` | Listing, unlink and rename of two files in two directories: cached listings agree with the mount's own changes whose callback returned without an error, and every callback returns unless the reader gave up the answer it waits for: cut inside a frame, over-long or undecodable. |
| `fuse_restart` (violation) | An answer cut inside a frame by a stopping daemon leaves the callback waiting for ever. |
| `shares` | Two links, two overlapping requests, both backends, half-second ticks: view limit, revocation, expiry, grants and presigned URLs hold across every await; the three guards agree at every instant. |

Bounds. Two callers and two or three operations suffice for the file races because each
needs one operation to overtake another between two of its awaits, and a third to meet the
result; two paths give mv and cp a source and a target that others write. Webhooks: one
retry separates first, last and further attempts; times of 1 and 2 make a lease, a retry and
the failing window expire in both orders; two events of one hook share its failing window,
and two faults cut an attempt and the one that makes up for it. GlobCache: two prefixes of
one drive and one of another show that invalidation reaches the first two and not the third;
two readers give an owner and a joiner, or an old request and its successor; three keys
exceed the room for two. Identity: a request in flight and four others suffice to remove,
demote or replace its caller and to use the result; the second spelling of an address makes
invitations ambiguous. Embedding: one slot makes a job wait behind another; the seeded file
gives the first of three calls something to race with; two of the five kinds of content are
written, an image (no text) and a text (no image), and the seed is a PDF (both); 2.2 million
states, two and a half minutes. FuseMount: two data values and a seeded file tell a lost
update from a kept one; two directories make a rename touch two listings; open handles and
renames are in different instances, so a rename of a file that is open is not explored; the
faults are divided between the runs to keep them within minutes, a crash of the daemon to
`fuse_close` and late, over-long, undecodable and torn answers to `fuse_names`, while the
theorems are for all of them. Shares: links live two seconds, grants one, ticks are half
seconds and time ends at two seconds, so that a link ends while a URL is being signed; links
without expiry differ only in the value of their end. Without bucket versioning DriveFiles
is covered by the theorems alone. `MaxOps`, `MaxCalls`, `MaxRequests`, `MaxTime`,
`MaxFaults`, `MaxWrites`, `MaxFails` only bound how much happens. `CHECK_DEADLOCK FALSE` is
set for DriveFiles, Identity, EmbeddingJobs, FuseMount and Shares: when the bounded calls
are done, nothing is left to do. Symmetry is used for safety only.

Fairness (`FairSpec` of WebhookDelivery, for `EverySendSettles`): time advances; the
loop polls on an interval (`worker.ts:407-467`); a send ends, by its own timeout at the
latest (`webhooks/sender.ts`); a stop that was begun ends. Nothing promises that a
stopped server is started again or that a lost key comes back, so the property asks
for it: `<>[](running and readable)`.

Fairness of FuseMount (for `ReturnsUnlessTorn` and `MountOutlivesRestart`): the callback's
thread goes on when it can, the reader task notices the end of a stream and drains, the
daemon's event loop serves its handlers and answers while it is up, and the HTTP client's
timer fires (30 s, `fuse-helper/src/ipc.rs`). The kernel is not fair, faults are not,
and nobody has to restart the daemon: a request to a daemon that is down ends with an error.

## 4. Proofs

All theorems are for every value of the constants under the named assumptions in the
modules (`TimesAssumption`, `DriveAssumption`, ...), which only type the constants and
keep the "nothing" values apart from the others. The bounds of the runs are constants as
well, so the theorems hold however much happens. Each proof has one lemma per action and
closes with the three facts Init => IInv, IInv /\ [Next]_vars => IInv', IInv => property;
the inductive invariants, type correctness included, stand at the end of the modules they
are about, and TLC has checked them on instances like those of section 3 before they were
proved.

* `DriveFiles_proofs`: `TypeCorrect`, `VersionsAreDense`, `FilesRowTracksHead`,
  `HistoryIsRetrievable`. A stale version number is harmless because the number an
  operation holds is at most one more than the current head (`PhaseOK`, at `insert`),
  and the UNIQUE index refuses all but exactly one more. Readability needs what each
  operation knows of its object between the put and the commit (`Written`).
* `DriveFilesSolo_proofs`, on top of it: `LoneOperationReconciles`, `SearchIsCurrent`,
  `ConditionIsExact` and the action property `MoveIsSafe`. An operation has a path to itself
  when nobody else who writes it was under way at its start or began since (`PathsApart`);
  then the head stays the one it checked up to its commit (`BaseHolds`), what it has done so
  far is what the path looks like (`SoloState`), and a path such an operation left clean
  agrees with its head until another one touches it (`CleanAgrees`, with `CopyLost` for a
  copy removed before mv reads it back; the target of a moved PDF is clean only if its source
  was, `TextIsSound`). Text that is not indexed yet has an operation on
  its way to index it (`IndexOwed`; without mv and faults, as in the property). mv deletes
  its source only behind the row of its target (`RowRecorded`).
* `WebhookDelivery_proofs`: `TypeCorrect`, `DisabledOwesNothing`, `RetryBudget`,
  `NothingOwedIsLost`, `FailingWindow`, `SettledIsFinal`. The budget needs `ClaimsMatch` (a
  row in flight is leased by its own claim, or not at all) and `AttemptLeft` (a queued row
  that nobody is sending has an attempt left, or its last one was cut); the window needs `FailingWithinQuiet`.
* `GlobCache_proofs`: `CachedListingsFresh`, `ReadYourWrites`, `OneLoadPerKey`,
  `CacheStaysBounded`. The invariant is that `pending` holds exactly the requests in flight
  that no write has disowned (`PendingExact`) and that these reflect everything published
  (`PendingFresh`); a request may be joined or cached only while it is one of them. The
  bound needs that the entries are finitely many and strictly ordered, so that an eviction
  removes exactly one of them.
* `Identity_proofs`: `DrivesKeepAdmins`, `RemovalEndsAccess`, `OneInviteAnAddress`, the
  action property `LossRevokesKeys`, and `MembershipImplemented`: every behaviour of
  `Identity` is one of `OrgMembership` under the mapping of section 2. The invariant adds
  that nobody is on a drive before it is made, that the organization keeps an admin, and
  that an address has one open invite; without the last, a join would not use up exactly
  the invitation it needs.
* `Shares_proofs`: `LimitKept`, `UrlsEndInTime`, `BytesNeedAView`, `ViewsKeepGrants`,
  `ClocksAgree` and the action property `NothingSentLate`. A view belongs to one request
  and then to one page (`OnePageAView`), which bounds the pages by the views counted in the
  row; deadlines are whole seconds, so that the clocks of two resolutions agree
  (`RowsKept`).
* `EmbeddingJobs_proofs`: `SlotsAreConserved`, `KilledNotRetried`, `NoGhosts`. A slot is
  held by a task, and a task by one write, migration or image job (`SlotsOK`); the marker
  names the row the image job is at (`MarkerExact`), so an interrupted image is marked,
  superseded or failed (`KilledSettled`); chunks of a deleted file are on their way with a
  move or were cut off by a crash or a call that threw (`GhostsExplained`). That the scan has a first row rests
  on a lemma that a finite set of numbers has a least one. On top of these:
  - `PendingIsOwned`, from `PInv`: a pending row is owed a job by the call that committed
    it, or held by a task, a batch or a scan that has yet to select its batch. The property
    itself is not inductive (a call that threw leaves its row to the next start): a scan that has its batch does not come back for the rows in
    between, so "ahead of the cursor" has to be said of a scan without a batch.
  - `FormatsAreOne`, from `FInv`: all image chunks and the text of indexed files are in the
    stored format, and so are the chunks a move is about to take along.
  - `IndexedStaysFresh`, from `XInv`: what is embedded, or was read to be embedded, is what
    row or object holds, or somebody is about to replace it; and for a move that nobody
    disturbed, the same of its source and the content it copied.
  - Both rest on `NInv`: a number is seen at a path only once it is committed there
    (`NumbersUnseen`), so a late result meets its own version or none; what a call has
    committed is the content it carries (`DocsCarried`); who comes to the source of a move
    later has a later number (`LateComers`); and one move at a time takes the chunks of a
    source (`TakesAlone`).
* `FuseMount_proofs`: `CloseReplacesItsVersion`, `ClosesApplyOnce`, `SavesAreStored`,
  `OwnChangesAreListed`. Requests have numbers of their own (`RequestsNumbered`), and a
  handler that a callback waits for serves that callback's request (`Matching`). A handle
  is open, being closed or closed, and its close is sent once (`HandlesApart`), because a
  close is not among the retried requests. What a handle says of its version stays true as
  versions are only added (`FilesSound`), and a writer behind its check whose path moved
  knows that it was raced (`HandlersSound`). A listing, cached or on its way, agrees with
  the mount's own changes but for the names the callback under way has begun to change
  (`ListingsAgree`, with `Begun`); once a handler has rejected after that point, nothing is
  claimed of its names, as the helper then keeps its cached listing.

The proof of `IndexedIsFresh` changed the model in one place: the history of a move called
its source changed only when a version of it had been committed meanwhile. A write that has
put its object but not committed it is enough, as the migration may embed that object under
the old version's number; no run was large enough to show it. The move now also records a
call that overlaps it at its source (`Overlapped`).

Only model-checked: liveness (`EverySendSettles`, `ReturnsUnlessTorn`), which is out of the
prover's reach. The violations are counterexamples.

## 5. What the runs found

Three runs show a disagreement with a line of the repository (`findings` in
`PROJECT.json`): two writers that expect the same version can both commit, because the
version is checked before the store call and not at the commit; a webhook delivery whose
last attempt is cut is sent once more than the documentation allows, because the budget is
compared only when a failure is recorded; and a mount does not
outlive every restart of the daemon, because the reader task returns without draining its
waiters when the stream ends inside a frame.

Smaller ones met while modelling, without a run of their own: after a lost conflict cat may
serve the loser's bytes until the next write; a conditional mv may bury a version its caller
never saw; a deduplicated write may answer with the wrong version; `webhook-update` may
overwrite the reason of a disable that landed during its host lookup; a file overwritten
just before a crash keeps the status "indexed" and is not embedded again, although
`server/src/index.ts:84` says that a file whose embedding on write never ran is; a move that
throws behind the commit of its destination leaves an existing destination indexed with its
old chunks, and a new one pending until the next start; a moved PDF keeps the stored text of
its source, also when that is stale; a member removed while their request to create a drive
awaits its body is the admin of that drive afterwards, although `mcp/src/server.ts:379` and
`skills/agent-fs/SKILL.md:575` say that a removal cascades to all drives; a key minted by a
request that was authorized before its minter was removed lives on; an unlink or rename that
is answered with an error after the object has changed leaves the old name in the mount's
cached listing until its time to live ends; an answer over 64 MiB, or one that does not
decode, blocks the mount for ever with the daemon up; a file created on two mounts is
silently replaced; a presigned URL survives a revocation until its own deadline, an hour at
most.

## 6. Not modelled, and the plan

Not modelled because it keeps no state or is not this program's logic: reads and
queries, SQL over files, rendering, CLI, MCP, just-bash, telemetry, the web UI,
providers' HTTP calls, cryptography, SQLite and FTS5.

Not modelled yet, though they keep state: the local adapter's non-atomic copy, content-hash
handles and legacy key migration; comment threads, mentions and notifications; presence
and the event bus; the rate limiters; folder stars; the sidecar of the mounts; the schema
and path migrations. The two-process races of one database (`identity/orgs.ts:121`,
a move during a format change, the glob cache of another process) are outside the
one-process models. Known to be hard as well and left out of them: a put the S3 SDK
repeats after its answer was lost; a listing that never answers, which later readers of
its key share; a 410 answered by the old URL of a hook whose URL has changed; a link that
is pinned to a path whose file was replaced; the kernel ignoring the result of a release.

Next, in this order:

1. `LocalStore`: the local adapter as an implementation of the store interface that
   DriveFiles assumes, with duplicated and late puts.
2. `Comments` (threads and notifications) and `Presence` with the event bus.
