----------------------------- MODULE DriveFiles -----------------------------
(***************************************************************************)
(* The file operations of one drive: write, edit, append, rm, mv, cp,      *)
(* revert, favorite-add and comment-add (packages/core/src/ops).           *)
(*                                                                         *)
(* An operation is an async function of the one server process: it runs    *)
(* without interruption up to its next await, so a step of this module is  *)
(* the code between two awaits, or the effect of one call on the object    *)
(* store.  Every operation touches two places that no transaction spans:   *)
(* the object store (bytes) and SQLite (the version rows, the files row,   *)
(* the full-text row), the store first.                                    *)
(*                                                                         *)
(* A file's content is a sequence of chunks: write replaces it, append     *)
(* extends it, edit replaces the only occurrence of a chunk.  A content    *)
(* hash stands for the content itself (SHA-256 without collisions).  The   *)
(* type of a content is not kept: any file may be a PDF, whose indexed     *)
(* text mv takes from the source instead of the bytes.  Contents without   *)
(* any text, such as images, are left out.                                 *)
(***************************************************************************)
EXTENDS Integers, Sequences

CONSTANTS
    Clients,    \* concurrent callers of the operations
    Paths,      \* normalized paths of the drive
    Chunks,     \* pieces of text a content is made of
    Kinds,      \* the operations the callers may use
    Versioning, \* does the bucket keep object versions?
    MaxOps,     \* bound: operations started
    MaxFaults,  \* bound: operations cut short by an error or a crash
    NoContent,  \* no object (or a delete marker), no hash, no full-text row
    NoRequest   \* the caller is idle

AllKinds == {"write", "edit", "append", "revert", "rm", "mv", "cp", "star", "comment"}

Content == Seq(Chunks)

ASSUME KindsAssumption == Kinds \subseteq AllKinds
ASSUME VersioningAssumption == Versioning \in BOOLEAN
ASSUME BoundsAssumption == MaxOps \in Nat /\ MaxFaults \in Nat
ASSUME NoContentAssumption == NoContent \notin Content

VARIABLES
    store,    \* object store: per path, every object version, the latest last
    rows,     \* file_versions: per path, the set of version rows
    files,    \* files: current_version_id and is_deleted (0, TRUE: no row)
    fts,      \* files_fts_docs: the indexed text
    stars,    \* favorites: the starred files
    threads,  \* comments: the paths with a live comment
    req,      \* per caller, the request it is serving
    pc,       \* per caller, the await it is at
    loc,      \* per caller, the local variables of the operation
    started,  \* operations started so far
    faults,   \* operations cut short so far
    wins,     \* history: the conditional operations that committed
    clean     \* history: was the last commit on the path made by an operation that ran alone?

vars == <<store, rows, files, fts, stars, threads, req, pc, loc, started, faults,
          wins, clean>>

database == <<rows, files, fts, stars, threads>>
history == <<wins, clean>>
-----------------------------------------------------------------------------
(* Requests and rows. *)

Undefined == -1   \* a parameter that was not passed, a version that is not there

(* kind: the operation; path: its (source) path; dst: the destination of mv *)
(* and cp; new, old: the text parameters; expected: expectedVersion; target: *)
(* the version revert goes back to.                                          *)
Text == Chunks \cup {NoContent}
Request == [kind : AllKinds, path : Paths, dst : Paths, new : Text, old : Text,
            expected : Nat \cup {Undefined}, target : Nat]

Operations == {"write", "edit", "append", "delete", "revert"}

(* handle is s3_version_id, 0 for ""; copied tells a row whose bytes were    *)
(* copied inside the store (mv, cp) from one whose bytes were put.           *)
Row == [version : Nat, op : Operations, handle : Nat, hash : Content \cup {NoContent},
        copied : BOOLEAN]

Phases == {"idle", "hash", "get", "put", "copy", "inspect", "delete", "next", "insert",
           "index", "kind", "star"}

(* path: where createVersion works; body: the bytes in hand; handle: the     *)
(* object version written; version: the number createVersion computed; base: *)
(* the head seen by the version check; target: the version the search index  *)
(* is guarded by; text: what mv is to index; solo: the paths nobody else has *)
(* been writing, and whose text does not come from a path that was not clean. *)
Locals == [path : Paths, body : Content \cup {NoContent}, handle : Nat, version : Nat,
           base : Nat, target : Nat, text : Content \cup {NoContent}, solo : SUBSET Paths]
-----------------------------------------------------------------------------
(* What the operations read. *)

(* MAX(version) over the path's rows, 0 when there is none. *)
HeadVersion(p) ==
    IF rows[p] = {} THEN 0
    ELSE CHOOSE v \in {r.version : r \in rows[p]} : \A r \in rows[p] : r.version <= v

HeadRow(p) == CHOOSE r \in rows[p] : r.version = HeadVersion(p)

readCurrentVersion(p) == IF files[p].deleted THEN Undefined ELSE files[p].current

NextOfFilesRow(p) == readCurrentVersion(p) + 1   \* mutant: numbering restarts after rm
getNextVersion(p) == HeadVersion(p) + 1

(* The object an unversioned read of the store returns. *)
Latest(p) == IF store[p] = << >> THEN NoContent ELSE store[p][Len(store[p])]

(* The handle the store gives the next object version of the path. *)
PreviousHandle(p) == Len(store[p])               \* mutant: handle of the version before
NewHandle(p) == IF Versioning THEN Len(store[p]) + 1 ELSE 0

ExpectedNotAhead(p, expected) ==                 \* mutant: an older version passes too
    expected <= HeadVersion(p)

(* expectedVersion names the head, or is 0 while the head is a tombstone. *)
assertExpectedVersion(p, expected) ==
    \/ expected = Undefined
    \/ expected = HeadVersion(p)
    \/ expected = 0 /\ rows[p] # {} /\ HeadRow(p).op = "delete"

(* cp checks its destination, every other operation its (source) path. *)
CheckedPath(r) == IF r.kind = "cp" THEN r.dst ELSE r.path

(* The paths whose state the operation changes. *)
Writes(r) == IF r.kind = "mv" THEN {r.path, r.dst} ELSE {CheckedPath(r)}

Busy(c) == IF pc[c] = "idle" THEN {} ELSE Writes(req[c])

Occurrences(s, x) == {i \in DOMAIN s : s[i] = x}

(* old_string must occur exactly once. *)
EditApplies(s, old) == \E i \in DOMAIN s : Occurrences(s, old) = {i}

EditResult(s, old, new) == [i \in DOMAIN s |-> IF s[i] = old THEN new ELSE s[i]]

RevertRow(p, v) == CHOOSE r \in rows[p] : r.version = v

(* The target row exists and carries a handle (VERSIONING_REQUIRED). *)
Revertible(p, v) == \E r \in rows[p] : r.version = v /\ r.handle # 0
-----------------------------------------------------------------------------
(* The drive starts empty, or with one indexed version of some files. *)
Init ==
    \E seeded \in SUBSET Paths, x \in Chunks :
        /\ store = [p \in Paths |-> IF p \in seeded THEN << <<x>> >> ELSE << >>]
        /\ rows = [p \in Paths |->
                     IF p \in seeded
                     THEN {[version |-> 1, op |-> "write",
                            handle |-> IF Versioning THEN 1 ELSE 0,
                            hash |-> <<x>>, copied |-> FALSE]}
                     ELSE {}]
        /\ files = [p \in Paths |->
                      IF p \in seeded THEN [current |-> 1, deleted |-> FALSE]
                      ELSE [current |-> 0, deleted |-> TRUE]]
        /\ fts = [p \in Paths |-> IF p \in seeded THEN <<x>> ELSE NoContent]
        /\ stars = {}
        /\ threads = {}
        /\ req = [c \in Clients |-> NoRequest]
        /\ pc = [c \in Clients |-> "idle"]
        /\ loc = [c \in Clients |-> NoRequest]
        /\ started = 0
        /\ faults = 0
        /\ wins = {}
        /\ clean = [p \in Paths |-> TRUE]
-----------------------------------------------------------------------------
(* Starting an operation.  The version check runs before the first await;    *)
(* a mismatch throws before anything has changed, so only a match is a step. *)

FirstPhase(r) ==
    CASE r.kind = "write" ->
            IF r.expected # Undefined /\ HeadVersion(r.path) > 0 THEN "hash" ELSE "put"
      [] r.kind \in {"edit", "append", "revert"} -> "get"
      [] r.kind = "rm" -> "delete"
      [] r.kind \in {"mv", "cp"} -> "copy"
      [] OTHER -> "kind"

BaseFromFiles(p) == readCurrentVersion(p)        \* mutant: undefined for a deleted file
CheckedVersion(p) == HeadVersion(p)

FirstLocals(c, r) ==
    [path |-> CheckedPath(r),
     body |-> IF r.kind = "write" THEN <<r.new>> ELSE NoContent,
     handle |-> 0, version |-> 0, base |-> CheckedVersion(CheckedPath(r)), target |-> 0,
     text |-> NoContent,
     solo |-> {p \in Writes(r) : \A d \in Clients \ {c} : p \notin Busy(d)}]

Begin(c, r) ==
    /\ r.kind \in Kinds \ {"comment"}
    /\ r.kind \in {"mv", "cp"} => r.path # r.dst
    /\ r.kind = "revert" => Versioning
    /\ assertExpectedVersion(CheckedPath(r), r.expected)
    /\ req' = [req EXCEPT ![c] = r]
    /\ pc' = [pc EXCEPT ![c] = FirstPhase(r)]
    /\ loc' = [d \in Clients |->
                 IF d = c THEN FirstLocals(c, r)
                 ELSE IF pc[d] = "idle" THEN loc[d]
                 ELSE [loc[d] EXCEPT !.solo = @ \ Writes(r)]]
    /\ started' = started + 1
    /\ UNCHANGED <<store, database, faults, history>>

(* The requests a caller can make: parameters an operation does not have     *)
(* are pinned to its path, to NoContent, to Undefined and to 0.              *)
BeginSome(c) ==
    /\ pc[c] = "idle"
    /\ started < MaxOps
    /\ \E k \in Kinds, p \in Paths :
       \E q \in IF k \in {"mv", "cp"} THEN Paths ELSE {p},
          x \in IF k \in {"write", "edit", "append"} THEN Chunks ELSE {NoContent},
          y \in IF k = "edit" THEN Chunks ELSE {NoContent},
          v \in IF k = "revert" THEN 0 .. HeadVersion(p) ELSE {0} :
       \E e \in IF k = "star" THEN {Undefined}
                ELSE {Undefined} \cup 0 .. HeadVersion(IF k = "cp" THEN q ELSE p) :
          Begin(c, [kind |-> k, path |-> p, dst |-> q, new |-> x, old |-> y,
                    expected |-> e, target |-> v])

(* commentAdd is synchronous and does not ask whether the file exists. *)
commentAdd(p) ==
    /\ "comment" \in Kinds
    /\ started < MaxOps
    /\ started' = started + 1
    /\ threads' = threads \cup {p}
    /\ UNCHANGED <<store, rows, files, fts, stars, req, pc, loc, faults, history>>
-----------------------------------------------------------------------------
(* Steps of a running operation. *)

Leave(c) ==
    /\ pc' = [pc EXCEPT ![c] = "idle"]
    /\ req' = [req EXCEPT ![c] = NoRequest]
    /\ loc' = [loc EXCEPT ![c] = NoRequest]
    /\ UNCHANGED started

Goto(c, phase, locals) ==
    /\ pc' = [pc EXCEPT ![c] = phase]
    /\ loc' = [loc EXCEPT ![c] = locals]
    /\ UNCHANGED <<req, started>>

(* An operation that ran alone leaves its paths clean, one that did not does *)
(* not; nobody can tell after an error behind the first store effect.        *)
MarkClean(c, alone) ==
    clean' = [p \in Paths |-> IF p \in Writes(req[c]) THEN p \in alone ELSE clean[p]]

(* getHeadContentHash: the head row already has these bytes (dedup). *)
Deduped(c) ==
    /\ pc[c] = "hash"
    /\ rows[req[c].path] # {}
    /\ HeadRow(req[c].path).hash = loc[c].body
    /\ Leave(c)
    /\ UNCHANGED <<store, database, faults, wins, clean>>

NotDeduped(c) ==
    /\ pc[c] = "hash"
    /\ rows[req[c].path] # {} => HeadRow(req[c].path).hash # loc[c].body
    /\ Goto(c, "put", loc[c])
    /\ UNCHANGED <<store, database, faults, history>>

(* The read that edit, append and revert start from succeeds. *)
Readable(r) ==
    CASE r.kind = "edit" -> Latest(r.path) # NoContent /\ EditApplies(Latest(r.path), r.old)
      [] r.kind = "append" -> Latest(r.path) # NoContent
      [] OTHER -> Revertible(r.path, r.target) /\
                  store[r.path][RevertRow(r.path, r.target).handle] # NoContent

NewBody(r) ==
    CASE r.kind = "edit" -> EditResult(Latest(r.path), r.old, r.new)
      [] r.kind = "append" -> Append(Latest(r.path), r.new)
      [] OTHER -> store[r.path][RevertRow(r.path, r.target).handle]

GetObject(c) ==
    /\ pc[c] = "get"
    /\ Readable(req[c])
    /\ Goto(c, "put", [loc[c] EXCEPT !.body = NewBody(req[c])])
    /\ UNCHANGED <<store, database, faults, history>>

PutObject(c) ==
    /\ pc[c] = "put"
    /\ store' = [store EXCEPT ![req[c].path] = Append(@, loc[c].body)]
    /\ Goto(c, "next", [loc[c] EXCEPT !.handle = NewHandle(req[c].path)])
    /\ UNCHANGED <<database, faults, history>>

CopyObject(c) ==
    /\ pc[c] = "copy"
    /\ Latest(req[c].path) # NoContent
    /\ store' = [store EXCEPT ![req[c].dst] = Append(@, Latest(req[c].path))]
    /\ Goto(c, "inspect", [loc[c] EXCEPT !.path = req[c].dst, !.handle = NewHandle(req[c].dst)])
    /\ UNCHANGED <<database, faults, history>>

InspectThenDelete(c) ==                          \* mutant: source deleted before the commit
    /\ pc[c] = "inspect"
    /\ Latest(req[c].dst) # NoContent
    /\ Goto(c, "delete", [loc[c] EXCEPT !.body = Latest(req[c].dst), !.text = Latest(req[c].dst)])
    /\ UNCHANGED <<store, database, faults, history>>

(* What mv will index: the text of the bytes, or of a PDF the text that is   *)
(* stored for the source now (indexedContent), be it stale or missing.       *)
MovedText(c, pdf) == IF pdf = "yes" THEN fts[req[c].path] ELSE Latest(req[c].dst)

TextIsSound(c, pdf) == pdf = "yes" => req[c].path \in loc[c].solo /\ clean[req[c].path]

(* headObject and getObject of the destination: its latest object, which     *)
(* need not be the one that was copied.                                      *)
Inspected(c, pdf) ==
    [loc[c] EXCEPT !.body = Latest(req[c].dst), !.text = MovedText(c, pdf),
                   !.solo = IF TextIsSound(c, pdf) THEN @ ELSE @ \ {req[c].dst}]

InspectCopy(c) ==
    /\ pc[c] = "inspect"
    /\ Latest(req[c].dst) # NoContent
    /\ \E pdf \in IF req[c].kind = "mv" THEN {"no", "yes"} ELSE {"no"} :
          Goto(c, "next", Inspected(c, pdf))
    /\ UNCHANGED <<store, database, faults, history>>

(* rm, and the second half of mv. *)
DeleteObject(c) ==
    /\ pc[c] = "delete"
    /\ store' = [store EXCEPT ![req[c].path] = Append(@, NoContent)]
    /\ Goto(c, "next", [loc[c] EXCEPT !.path = req[c].path, !.handle = 0])
    /\ UNCHANGED <<database, faults, history>>

(* NoSuchKey, or old_string missing or ambiguous, or no such version. *)
Reject(c) ==
    /\ \/ pc[c] = "get" /\ ~Readable(req[c])
       \/ pc[c] \in {"copy", "kind"} /\ Latest(req[c].path) = NoContent
       \/ pc[c] = "inspect" /\ Latest(req[c].dst) = NoContent
    /\ Leave(c)
    /\ UNCHANGED <<store, database, faults, history>>
-----------------------------------------------------------------------------
(* createVersion: the number is computed before an await, the rows are       *)
(* written in one transaction after it.                                      *)

NextVersion(c) ==
    /\ pc[c] = "next"
    /\ Goto(c, "insert", [loc[c] EXCEPT !.version = getNextVersion(loc[c].path)])
    /\ UNCHANGED <<store, database, faults, history>>

(* Is this createVersion call recording a deletion? *)
Deleting(c) == req[c].kind = "rm" \/ (req[c].kind = "mv" /\ loc[c].path = req[c].path)

RowOperation(c) ==
    IF Deleting(c) THEN "delete"
    ELSE IF req[c].kind \in {"edit", "append", "revert"} THEN req[c].kind ELSE "write"

NewRow(c) ==
    [version |-> loc[c].version, op |-> RowOperation(c), handle |-> loc[c].handle,
     hash |-> IF Deleting(c) THEN NoContent ELSE loc[c].body,
     copied |-> req[c].kind \in {"mv", "cp"} /\ ~Deleting(c)]

NoUniqueIndex(c) == FALSE                        \* mutant: no UNIQUE constraint
VersionTaken(c) == \E r \in rows[loc[c].path] : r.version = loc[c].version

(* The commit that answers the request: mv's is the one on its source. *)
RecordWin(c) ==
    wins' = IF req[c].expected # Undefined /\ loc[c].path = CheckedPath(req[c])
            THEN wins \cup {[path |-> loc[c].path, expected |-> req[c].expected,
                             version |-> loc[c].version,
                             solo |-> loc[c].path \in loc[c].solo]}
            ELSE wins

CreateVersion(c) ==
    /\ ~VersionTaken(c)
    /\ rows' = [rows EXCEPT ![loc[c].path] = @ \cup {NewRow(c)}]
    /\ files' = [files EXCEPT ![loc[c].path] =
                    [current |-> loc[c].version, deleted |-> Deleting(c)]]
    /\ RecordWin(c)
    /\ UNCHANGED <<store, faults>>

KeepSearchData(p) == fts                         \* mutant: the text outlives the file
clearSearchData(p) == [fts EXCEPT ![p] = NoContent]

(* write, edit, append, revert, cp: the search index follows. *)
CommitContent(c) ==
    /\ pc[c] = "insert"
    /\ req[c].kind \in {"write", "edit", "append", "revert", "cp"}
    /\ CreateVersion(c)
    /\ Goto(c, "index", [loc[c] EXCEPT !.target = loc[c].version])
    /\ UNCHANGED <<fts, stars, threads, clean>>

(* rm: clearSearchData, the comments and the stars in the same continuation. *)
CommitRemoval(c) ==
    /\ pc[c] = "insert"
    /\ req[c].kind = "rm"
    /\ CreateVersion(c)
    /\ fts' = clearSearchData(req[c].path)
    /\ threads' = threads \ {req[c].path}
    /\ stars' = stars \ {req[c].path}
    /\ MarkClean(c, loc[c].solo)
    /\ Leave(c)

CommitMoveTarget(c) ==
    /\ pc[c] = "insert"
    /\ req[c].kind = "mv"
    /\ ~Deleting(c)
    /\ CreateVersion(c)
    /\ Goto(c, "delete", [loc[c] EXCEPT !.target = loc[c].version])
    /\ UNCHANGED <<fts, stars, threads, clean>>

CommitMoveSource(c) ==
    /\ pc[c] = "insert"
    /\ req[c].kind = "mv"
    /\ Deleting(c)
    /\ CreateVersion(c)
    /\ fts' = clearSearchData(req[c].path)
    /\ Goto(c, "index", loc[c])
    /\ UNCHANGED <<stars, threads, clean>>

(* UNIQUE(path, drive_id, version): EditConflictError, after the store effect. *)
CommitConflict(c) ==
    /\ pc[c] = "insert"
    /\ VersionTaken(c)
    /\ MarkClean(c, {})
    /\ Leave(c)
    /\ UNCHANGED <<store, database, faults, wins>>

(* indexTextForSearch / indexBytesForSearch and the tail of mv: the text is  *)
(* indexed only while the version it belongs to is still current.            *)
IndexedPath(c) == IF req[c].kind = "mv" THEN req[c].dst ELSE loc[c].path

IndexAnyway(c) == TRUE                           \* mutant: no re-check after the await
StillCurrent(c) == readCurrentVersion(IndexedPath(c)) = loc[c].target

CopyStar(from, to) ==                            \* mutant: the source keeps its star
    IF from \in stars THEN stars \cup {to} ELSE stars
favoritesAfterMove(from, to) ==
    IF from \in stars THEN (stars \ {from}) \cup {to} ELSE stars

TextToIndex(c) == IF req[c].kind = "mv" THEN loc[c].text ELSE loc[c].body

IndexText(c) ==
    /\ pc[c] = "index"
    /\ fts' = IF StillCurrent(c) THEN [fts EXCEPT ![IndexedPath(c)] = TextToIndex(c)]
              ELSE IF req[c].kind = "mv" THEN clearSearchData(req[c].path)
              ELSE fts
    /\ stars' = IF req[c].kind = "mv" THEN favoritesAfterMove(req[c].path, req[c].dst)
                ELSE stars
    /\ MarkClean(c, loc[c].solo)
    /\ Leave(c)
    /\ UNCHANGED <<store, rows, files, threads, faults, wins>>

(* favoriteAdd: resolvePathKind asks the store, the star is inserted later. *)
ResolvePathKind(c) ==
    /\ pc[c] = "kind"
    /\ Latest(req[c].path) # NoContent
    /\ Goto(c, "star", loc[c])
    /\ UNCHANGED <<store, database, faults, history>>

favoriteAdd(c) ==
    /\ pc[c] = "star"
    /\ stars' = stars \cup {req[c].path}
    /\ MarkClean(c, IF clean[req[c].path] THEN loc[c].solo ELSE {})
    /\ Leave(c)
    /\ UNCHANGED <<store, rows, files, fts, threads, faults, wins>>

(* A store or database error, or a crash, ends the operation at any await. *)
Abort(c) ==
    /\ pc[c] # "idle"
    /\ faults < MaxFaults
    /\ faults' = faults + 1
    /\ MarkClean(c, {})
    /\ Leave(c)
    /\ UNCHANGED <<store, database, wins>>

Step(c) ==
    \/ Deduped(c) \/ NotDeduped(c) \/ GetObject(c) \/ PutObject(c) \/ CopyObject(c)
    \/ InspectCopy(c) \/ DeleteObject(c) \/ Reject(c) \/ NextVersion(c)
    \/ CommitContent(c) \/ CommitRemoval(c) \/ CommitMoveTarget(c) \/ CommitMoveSource(c)
    \/ CommitConflict(c) \/ IndexText(c) \/ ResolvePathKind(c) \/ favoriteAdd(c)

Next ==
    \/ \E c \in Clients : BeginSome(c)
    \/ \E p \in Paths : commentAdd(p)
    \/ \E c \in Clients : Step(c)
    \/ \E c \in Clients : Abort(c)

Spec == Init /\ [][Next]_vars
-----------------------------------------------------------------------------
(* Properties. *)

TypeOK ==
    /\ store \in [Paths -> Seq(Content \cup {NoContent})]
    /\ rows \in [Paths -> SUBSET Row]
    /\ files \in [Paths -> [current : Nat, deleted : BOOLEAN]]
    /\ fts \in [Paths -> Content \cup {NoContent}]
    /\ stars \subseteq Paths
    /\ threads \subseteq Paths
    /\ pc \in [Clients -> Phases]
    /\ req \in [Clients -> Request \cup {NoRequest}]
    /\ loc \in [Clients -> Locals \cup {NoRequest}]
    /\ \A c \in Clients : pc[c] # "idle" =>
          /\ req[c] \in Request
          /\ req[c].kind \in {"write", "edit", "append"} => req[c].new \in Chunks
          /\ loc[c] \in Locals
    /\ started \in Nat
    /\ faults \in Nat
    /\ clean \in [Paths -> BOOLEAN]

(* Version numbers of a path are unique and without gaps, however the        *)
(* createVersion calls of concurrent operations interleave: the number is    *)
(* read before an await and may be stale when the row is inserted.           *)
VersionsDense ==
    \A p \in Paths :
        /\ \A r, s \in rows[p] : r.version = s.version => r = s
        /\ \A r \in rows[p] : r.version >= 1 /\
              \A k \in 1 .. r.version : \E s \in rows[p] : s.version = k

(* The files row names the newest version row, and says deleted exactly when *)
(* that row is a tombstone: a late createVersion can never move a file's     *)
(* current version back or revive a deleted file.                            *)
FilesTrackHead ==
    \A p \in Paths :
        IF rows[p] = {} THEN files[p] = [current |-> 0, deleted |-> TRUE]
        ELSE \E r \in rows[p] :
                /\ files[p] = [current |-> r.version, deleted |-> r.op = "delete"]
                /\ \A s \in rows[p] : s.version <= r.version

(* With object versioning every version row that is not a tombstone can be   *)
(* read back through its handle: as exactly the bytes whose hash it records  *)
(* when the operation put them, as some object when mv or cp copied them     *)
(* (they hash the destination's latest object, not the copied one).          *)
VersionsRetrievable ==
    Versioning =>
        \A p \in Paths : \A r \in rows[p] : r.op # "delete" =>
            /\ r.handle \in 1 .. Len(store[p])
            /\ store[p][r.handle] # NoContent
            /\ ~r.copied => store[p][r.handle] = r.hash

Quiet(p) == \A c \in Clients : p \notin Busy(c)

HeadHash(p) == IF rows[p] = {} THEN NoContent ELSE HeadRow(p).hash

(* An operation that ran alone on a path and committed leaves the object     *)
(* store, the head version row and the full-text index in agreement, and no  *)
(* star on a file that is gone - whatever overlapping writers, conflicts and *)
(* aborted operations did to the path before it.  The exception is a move of *)
(* a PDF: its target has the text its source had, so it agrees only if the   *)
(* source did and nobody else wrote it up to the read (mv.ts:57).            *)
SoloCommitReconciles ==
    \A p \in Paths : clean[p] /\ Quiet(p) =>
        /\ Latest(p) = HeadHash(p)
        /\ fts[p] = HeadHash(p)
        /\ p \in stars => HeadHash(p) # NoContent

(* Where nobody uses mv and no operation was cut short, the full-text row of *)
(* a path nobody is writing is the text of its head version, even after      *)
(* overlapping writes and conflicts: an operation indexes only while its own *)
(* version is current.  (A mv that loses the race for its source's tombstone *)
(* leaves the committed destination unindexed.)                              *)
SearchFollowsHead ==
    "mv" \notin Kinds /\ faults = 0 =>
        \A p \in Paths : Quiet(p) => fts[p] = HeadHash(p)

(* A conditional operation that had the path to itself committed exactly on  *)
(* top of the version it was told to expect (0 also names any tombstone).    *)
SoloConditionalExact ==
    \A w \in wins : w.solo /\ w.expected > 0 => w.version = w.expected + 1

(* mv takes the source object away only once the destination has a committed *)
(* version row with the bytes mv is moving, so that an error or a crash at   *)
(* any await leaves the file under at least one of its two names.            *)
MoveCommitsBeforeDelete ==
    [][\A c \in Clients :
          (pc[c] # "idle" /\ req[c].kind = "mv" /\ store'[req[c].path] # store[req[c].path]
             /\ pc'[c] # pc[c])
          => \E r \in rows[req[c].dst] :
                r.version = loc[c].target /\ r.hash = loc[c].body /\ r.op = "write"]_vars

(* docs/fuse-troubleshooting.md:31 and ops/__tests__/concurrency.test.ts:9:  *)
(* of the writers that expect the same version exactly one gets it.          *)
AtMostOneWinner ==
    \A v, w \in wins : v.path = w.path /\ v.expected = w.expected /\ v.expected > 0 => v = w
-----------------------------------------------------------------------------
(* The inductive strengthening: what is known of a running operation at each *)
(* await, and of the handles in the version rows.                            *)

Written(c) ==
    IF Versioning
    THEN /\ loc[c].handle \in 1 .. Len(store[loc[c].path])
         /\ store[loc[c].path][loc[c].handle] # NoContent
    ELSE loc[c].handle = 0

PhaseOK(c) ==
    /\ pc[c] \in {"hash", "get", "put"} => loc[c].path = req[c].path
    /\ pc[c] \in {"hash", "put"} => loc[c].body \in Content
    /\ pc[c] = "hash" => req[c].kind = "write"
    /\ pc[c] = "get" => req[c].kind \in {"edit", "append", "revert"}
    /\ pc[c] = "put" => req[c].kind \in {"write", "edit", "append", "revert"}
    /\ pc[c] \in {"copy", "inspect"} => req[c].kind \in {"mv", "cp"}
    /\ pc[c] = "inspect" => loc[c].path = req[c].dst /\ Written(c)
    /\ pc[c] = "delete" => req[c].kind \in {"rm", "mv"}
    /\ pc[c] # "idle" => (req[c].kind = "mv" => req[c].path # req[c].dst)
    /\ pc[c] # "idle" => (req[c].kind = "revert" => Versioning)
    /\ pc[c] \in {"next", "insert"} =>
          IF Deleting(c) THEN loc[c].handle = 0
          ELSE /\ loc[c].body \in Content
               /\ Written(c)
               /\ Versioning /\ req[c].kind \notin {"mv", "cp"} =>
                     store[loc[c].path][loc[c].handle] = loc[c].body
    /\ pc[c] = "insert" => loc[c].version \in 1 .. files[loc[c].path].current + 1

HandlesValid ==
    /\ \A p \in Paths : \A r \in rows[p] : r.handle \in 0 .. Len(store[p])
    /\ VersionsRetrievable

IInv ==
    /\ TypeOK
    /\ VersionsDense
    /\ FilesTrackHead
    /\ HandlesValid
    /\ \A c \in Clients : PhaseOK(c)
-----------------------------------------------------------------------------
(* A second inductive strengthening, about the operations that run alone and *)
(* about the search index.                                                   *)

Running(c) == pc[c] # "idle"

(* What an operation works on is what it declares; an operation that has a   *)
(* path to itself shares it with no other.                                   *)
PathsApart ==
    \A c \in Clients : Running(c) =>
        /\ req[c].kind \in Kinds
        /\ pc[c] \in {"kind", "star"} => req[c].kind = "star"
        /\ loc[c].path \in Writes(req[c]) /\ loc[c].solo \subseteq Writes(req[c])
        /\ \A d \in Clients \ {c} : Running(d) => loc[c].solo \cap Writes(req[d]) = {}

(* Up to its commit, a lone operation finds the version that was checked.    *)
BaseHolds(c) ==
    /\ req[c].expected > 0 => req[c].expected = loc[c].base
    /\ CheckedPath(req[c]) \in loc[c].solo =>
          /\ pc[c] \notin {"index", "kind", "star"} => loc[c].base = files[CheckedPath(req[c])].current
          /\ pc[c] = "insert" /\ loc[c].path = CheckedPath(req[c]) => loc[c].version = loc[c].base + 1

(* The content is committed, and the search index or mv's second half is due. *)
Committed(c) ==
    \/ pc[c] = "index"
    \/ req[c].kind = "mv" /\ pc[c] = "delete"
    \/ req[c].kind = "mv" /\ pc[c] \in {"next", "insert"} /\ Deleting(c)

RowRecorded(c) ==
    Committed(c) =>
        \E r \in rows[IndexedPath(c)] :
            /\ r.version = loc[c].target /\ r.hash = loc[c].body /\ loc[c].body \in Content
            /\ r.op # "delete" /\ (req[c].kind = "mv" => r.op = "write")

(* What a lone operation has done so far is what the path looks like. *)
SoloState(c) ==
    \A p \in loc[c].solo :
        /\ pc[c] = "inspect" /\ p = req[c].dst => Latest(p) # NoContent
        /\ pc[c] = "inspect" /\ p = req[c].dst /\ req[c].kind = "mv" /\ req[c].path \in loc[c].solo =>
              Latest(p) = Latest(req[c].path)
        /\ req[c].kind = "mv" /\ pc[c] \in {"next", "insert", "delete", "index"} /\ p = req[c].dst =>
              loc[c].text = loc[c].body
        /\ pc[c] \in {"next", "insert"} /\ p = loc[c].path =>
              Latest(p) = IF Deleting(c) THEN NoContent ELSE loc[c].body
        /\ Committed(c) /\ p = IndexedPath(c) =>
              Latest(p) = loc[c].body /\ files[p] = [current |-> loc[c].target, deleted |-> FALSE]
        /\ pc[c] = "index" /\ req[c].kind = "mv" /\ p = req[c].path =>
              Latest(p) = NoContent /\ HeadHash(p) = NoContent /\ fts[p] = NoContent
        /\ pc[c] = "star" /\ clean[p] => Latest(p) # NoContent

Touched(c, p) ==
    \/ pc[c] \in {"inspect", "next", "insert", "index"} /\ p = loc[c].path
    \/ pc[c] \in {"inspect", "delete", "next", "insert", "index"} /\ req[c].kind = "mv" /\ p = req[c].dst

Removing(c, p) == pc[c] \in {"next", "insert", "index"} /\ Deleting(c) /\ p = req[c].path

Agrees(p) ==
    /\ Latest(p) = HeadHash(p)
    /\ fts[p] = HeadHash(p)
    /\ p \in stars => HeadHash(p) # NoContent

(* A clean path agrees until an operation touches it. *)
CleanAgrees == \A p \in Paths : clean[p] => Agrees(p) \/ \E c \in Clients : Touched(c, p)

(* A copy that is gone when it is inspected was removed by another operation, *)
(* which is still to leave the path or has left it not clean.                 *)
CopyLost ==
    \A c \in Clients : pc[c] = "inspect" =>
        \/ Latest(req[c].dst) # NoContent
        \/ ~clean[req[c].dst]
        \/ \E d \in Clients : Removing(d, req[c].dst)

(* Text that is not indexed yet has an operation on its way to index it. *)
IndexOwed ==
    "mv" \notin Kinds /\ faults = 0 =>
        \A p \in Paths :
            \/ fts[p] = HeadHash(p)
            \/ \E c \in Clients : /\ pc[c] = "index" /\ p = loc[c].path
                                  /\ files[p] = [current |-> loc[c].target, deleted |-> FALSE]

SInv ==
    /\ PathsApart
    /\ \A c \in Clients : Running(c) => BaseHolds(c) /\ RowRecorded(c) /\ SoloState(c)
    /\ CleanAgrees
    /\ CopyLost
    /\ IndexOwed
    /\ SoloConditionalExact
=============================================================================
