------------------------------ MODULE FuseMount ------------------------------
(***************************************************************************)
(* The FUSE mounts of one drive: the helper's file system (packages/       *)
(* fuse-helper/src/fs.rs), its two transports (ipc.rs: the Unix socket and *)
(* HTTP), and the daemon's handlers behind them (packages/server/src/ipc,  *)
(* routes/files.ts), which run concurrently with those of other mounts.    *)
(*                                                                         *)
(* A helper runs one event loop (main.rs leaves n_threads unset), so a     *)
(* mount serves one kernel callback at a time: `call'.  The callback       *)
(* blocks on one request to the daemon; a socket's reader task, the        *)
(* daemon and the other mounts go on meanwhile.  A file's bytes stand for  *)
(* their SHA-256.  Version n of a path is the nth of its rows.             *)
(***************************************************************************)
EXTENDS Integers, Sequences

CONSTANTS
    Mounts,    \* mounted helpers
    Remote,    \* those that reach the daemon over HTTP
    Paths,     \* paths of the drive
    Dirs,      \* its directories
    Parent,    \* parent_dir: the directory of a path
    Data,      \* bytes a program may write
    Empty,     \* no bytes at all
    None,      \* no object, no row, a tombstone; base_version None; no call
    Callbacks, \* the callbacks the kernel may make
    MaxCalls,  \* bound: callbacks that send a request
    Seeded,    \* paths that may have a first version at the start
    Faults,    \* the faults that may happen
    MaxFaults  \* bound: how many of them

Bytes == Data \cup {Empty}

Kinds == {"open", "release", "readdir", "unlink", "rename"}

FaultKinds == {"disconnect", "crash", "torn frame", "long answer", "bad answer", "late answer", "rejection"}

ASSUME CallbacksAssumption == Callbacks \subseteq Kinds
ASSUME FaultsAssumption == Faults \subseteq FaultKinds
ASSUME RemoteAssumption == Remote \subseteq Mounts
ASSUME SeededAssumption == Seeded \subseteq Paths
ASSUME ParentAssumption == Parent \in [Paths -> Dirs]
ASSUME BytesAssumption == Empty \notin Data /\ None \notin Bytes
ASSUME BoundsAssumption == MaxCalls \in Nat /\ MaxFaults \in Nat

VARIABLES
    object,    \* object store: the bytes of a path
    rows,      \* file_versions: per path, the bytes of each version
    handlers,  \* the daemon's handlers in flight
    up,        \* is the daemon running?
    sock,      \* write_half: "none", "up", or "broken" while the loss is unnoticed
    connNo,    \* number of the connection made last
    draining,  \* reader tasks between dropping write_half and draining pending
    call,      \* the callback the mount is serving
    open,      \* open_files: the OpenFile records
    nextFh,    \* next_fh
    nextId,    \* next_id: identifier of the request sent last
    listing,   \* readdir_cache
    calls,     \* callbacks started
    faults,    \* faults so far
    torn,      \* requests whose answer the reader gave up, the waiter left in pending
    commits,   \* history: the versions committed by a close
    closes,    \* history: the dirty files released without an error
    mine       \* history: what the mount's own last change made of a path

daemon == <<object, rows, handlers, up>>
wire == <<sock, connNo, draining, torn>>
helper == <<call, open, nextFh, listing>>
history == <<commits, closes, mine>>
vars == <<daemon, wire, helper, nextId, calls, faults, history>>
-----------------------------------------------------------------------------
Requests == {"get_attr", "read_dir", "open_read", "open_write", "unlink", "rename",
             "record_conflict"}

(* base: base_version; hash: base_hash; bytes: the working copy; saw and     *)
(* fresh (history): the bytes the open returned, and whether they were the   *)
(* bytes of version base.                                                    *)
OpenFile == [fh : Nat, path : Paths, base : Nat \cup {None}, hash : Bytes \cup {None},
             bytes : Bytes, dirty : BOOLEAN, saw : Bytes \cup {None}, fresh : BOOLEAN]

(* step: the request being made; stage: not sent yet, or waiting. *)
Call == [kind : Kinds, path : Paths, to : Paths, file : OpenFile \cup {None},
         step : Requests, stage : {"send", "wait"}, attempts : 0 .. 2, id : Nat]
ASSUME NoneAssumption == None \notin Call

(* next: the await the handler is at; res: its answer; bytes, version and    *)
(* names: the data of the answer; raced (history): another version of the path was      *)
(* committed behind its version check.                                       *)
Handler == [mount : Mounts, conn : Nat, id : Nat, op : Requests, path : Paths, to : Paths,
            file : OpenFile \cup {None}, next : {"look", "get", "head", "check", "put", "copy",
            "commit", "delete", "bury", "reply"}, res : {"ok", "missing", "conflict", "error"},
            bytes : Bytes \cup {None}, version : Nat, names : SUBSET Paths, raced : BOOLEAN]

HeadVersion(p) == Len(rows[p])
HeadBytes(p) == IF rows[p] = << >> THEN None ELSE rows[p][Len(rows[p])]

(* stat and ls ask the object store what there is. *)
Listed(d) == {p \in Paths : Parent[p] = d /\ object[p] # None}
-----------------------------------------------------------------------------
Init ==
    /\ \E x \in Data, seeded \in SUBSET Seeded :
         /\ object = [p \in Paths |-> IF p \in seeded THEN x ELSE None]
         /\ rows = [p \in Paths |-> IF p \in seeded THEN <<x>> ELSE << >>]
    /\ handlers = {} /\ up = TRUE
    /\ sock = [m \in Mounts |-> "none"] /\ connNo = [m \in Mounts |-> 0]
    /\ draining = [m \in Mounts |-> 0] /\ torn = {}
    /\ call = [m \in Mounts |-> None] /\ open = [m \in Mounts |-> {}]
    /\ nextFh = [m \in Mounts |-> 1] /\ nextId = [m \in Mounts |-> 0]
    /\ listing = [m \in Mounts |-> [d \in Dirs |-> None]]
    /\ calls = 0 /\ faults = 0
    /\ commits = {} /\ closes = {}
    /\ mine = [m \in Mounts |-> [p \in Paths |-> "unknown"]]
-----------------------------------------------------------------------------
(* Callbacks of the kernel. *)

Start(m, k, p, q, f, step) ==
    /\ k \in Callbacks
    /\ call[m] = None
    /\ calls < MaxCalls
    /\ calls' = calls + 1
    /\ call' = [call EXCEPT ![m] =
         [kind |-> k, path |-> p, to |-> q, file |-> f, step |-> step, stage |-> "send",
          attempts |-> 0, id |-> 0]]

(* openat: a lookup and then open, or create for a missing file and O_CREAT; *)
(* a dentry the kernel still has (TTL) skips the lookup.                     *)
Open(m, p) ==
    /\ \E step \in {"get_attr", "open_read"} : Start(m, "open", p, p, None, step)
    /\ UNCHANGED <<daemon, wire, open, nextFh, listing, nextId, faults, history>>

(* release_close stops early: a clean copy, or the bytes it started from. *)
NothingToSave(f) == ~f.dirty \/ f.bytes = f.hash

(* The answer of a release that reports success. *)
Closed(m, f) == closes' = closes \cup {[path |-> f.path, base |-> f.base, bytes |-> f.bytes]}

(* release_close.  The working copy is private until now, so write_local and *)
(* truncate_local (setattr with a handle) are part of this step: they leave  *)
(* any bytes b and set dirty.                                                *)
Release(m, f, b, wrote) ==
    LET w == [f EXCEPT !.bytes = b, !.dirty = @ \/ wrote] IN
    /\ f.bytes # b => wrote
    /\ open' = [open EXCEPT ![m] = @ \ {f}]
    /\ IF NothingToSave(w)
       THEN /\ call[m] = None
            /\ IF w.dirty THEN Closed(m, w) ELSE UNCHANGED closes
            /\ UNCHANGED <<call, calls>>
       ELSE /\ Start(m, "release", f.path, f.path, w, "open_write")
            /\ UNCHANGED closes
    /\ UNCHANGED <<daemon, wire, nextFh, listing, nextId, faults, commits, mine>>

(* readdir_entries with no listing in the cache, or one older than the 15 s  *)
(* it is served for (a hit changes nothing); p names its directory.          *)
ReadDir(m, p) ==
    /\ Start(m, "readdir", p, p, None, "read_dir")
    /\ UNCHANGED <<daemon, wire, open, nextFh, listing, nextId, faults, history>>

Unlink(m, p) ==
    /\ Start(m, "unlink", p, p, None, "unlink")
    /\ UNCHANGED <<daemon, wire, open, nextFh, listing, nextId, faults, history>>

Rename(m, p, q) ==
    /\ p # q
    /\ Start(m, "rename", p, q, None, "rename")
    /\ UNCHANGED <<daemon, wire, open, nextFh, listing, nextId, faults, history>>

-----------------------------------------------------------------------------
(* The transports. *)

is_idempotent(step) == step \in {"get_attr", "read_dir", "open_read"}

RetryAll(c, outcome) == c.attempts < 2           \* mutant: every lost answer is retried

(* with_retry: the third failed attempt is the last; the synthetic answer of *)
(* the drain is an answer, not an error, and is not retried.                 *)
Retryable(c, outcome) == outcome = "err" /\ is_idempotent(c.step) /\ c.attempts < 2

Fault(k) == k \in Faults /\ faults < MaxFaults /\ faults' = faults + 1

Waiting(m) == call[m] # None /\ call[m].stage = "wait"

(* History: what became of these names is not known to the mount's program. *)
Forget(m, ps) == mine' = [mine EXCEPT ![m] = [p \in Paths |-> IF p \in ps THEN "unknown" ELSE @[p]]]

(* A request ends without the daemon's answer: retry, or EIO.  The callback  *)
(* of a lost conflict record returns the conflict's EIO.                     *)
Fail(m, outcome) ==
    LET c == call[m] IN
    IF Retryable(c, outcome)
    THEN /\ call' = [call EXCEPT ![m].attempts = @ + 1, ![m].stage = "send"]
         /\ UNCHANGED <<closes, mine>>
    ELSE /\ call' = [call EXCEPT ![m] = None]
         /\ UNCHANGED closes
         /\ IF is_idempotent(c.step) THEN UNCHANGED mine ELSE Forget(m, {c.path, c.to})

FirstStep(op) ==
    CASE op \in {"get_attr", "read_dir"} -> "look"
      [] op = "open_read" -> "get"
      [] op = "open_write" -> "check"
      [] op = "unlink" -> "delete"
      [] op = "rename" -> "copy"
      [] OTHER -> "reply"

Request(m, n) ==
    [mount |-> m, conn |-> n, id |-> nextId[m] + 1, op |-> call[m].step,
     path |-> call[m].path, to |-> call[m].to, file |-> call[m].file,
     next |-> FirstStep(call[m].step), res |-> "ok",
     bytes |-> IF call[m].step = "open_write" THEN call[m].file.bytes ELSE None,
     version |-> 0, names |-> {}, raced |-> FALSE]

(* ensure_connected, then the frame is written and the daemon's drainFrames  *)
(* starts a handler for it.                                                  *)
Send(m) ==
    /\ call[m] # None /\ call[m].stage = "send"
    /\ up /\ (m \notin Remote => sock[m] # "broken")
    /\ LET n == IF m \in Remote THEN 0 ELSE IF sock[m] = "none" THEN connNo[m] + 1 ELSE connNo[m] IN
       /\ connNo' = [connNo EXCEPT ![m] = n]
       /\ sock' = [sock EXCEPT ![m] = IF m \in Remote THEN @ ELSE "up"]
       /\ handlers' = handlers \cup {Request(m, n)}
    /\ nextId' = [nextId EXCEPT ![m] = @ + 1]
    /\ call' = [call EXCEPT ![m].stage = "wait", ![m].id = nextId[m] + 1]
    /\ UNCHANGED <<object, rows, up, draining, torn, open, nextFh, listing, calls, faults, history>>

(* Nobody listens, or the write hits a connection whose loss the reader has  *)
(* not noticed yet.                                                          *)
SendFails(m) ==
    /\ call[m] # None /\ call[m].stage = "send"
    /\ \/ m \in Remote /\ ~up
       \/ m \notin Remote /\ (sock[m] = "broken" \/ (sock[m] = "none" /\ ~up))
    /\ Fail(m, "err")
    /\ UNCHANGED <<daemon, wire, open, nextFh, listing, nextId, calls, faults, commits>>

(* The reader task meets the end of the stream between two frames: it drops  *)
(* the writer, then drains pending, whoever waits there by then.             *)
NoticeLoss(m) ==
    /\ sock[m] = "broken"
    /\ sock' = [sock EXCEPT ![m] = "none"]
    /\ draining' = [draining EXCEPT ![m] = @ + 1]
    /\ UNCHANGED <<daemon, connNo, torn, helper, nextId, calls, faults, history>>

NoDrain(m) ==                                    \* mutant: the waiters are left alone
    /\ draining[m] > 0
    /\ draining' = [draining EXCEPT ![m] = @ - 1]
    /\ UNCHANGED <<daemon, sock, connNo, torn, helper, nextId, calls, faults, history>>

Drain(m) ==
    /\ draining[m] > 0
    /\ draining' = [draining EXCEPT ![m] = @ - 1]
    /\ IF Waiting(m) THEN Fail(m, "disconnected") ELSE UNCHANGED <<call, closes, mine>>
    /\ UNCHANGED <<daemon, sock, connNo, torn, open, nextFh, listing, nextId, calls, faults, commits>>

(* HTTP: no answer within the client's 30 s, or none at all. *)
TimeOut(m) ==
    /\ m \in Remote
    /\ Waiting(m)
    /\ \/ Fault("late answer")
       \/ (\A h \in handlers : h.mount = m => h.id # call[m].id) /\ faults' = faults
    /\ Fail(m, "err")
    /\ UNCHANGED <<daemon, wire, open, nextFh, listing, nextId, calls, commits>>
-----------------------------------------------------------------------------
(* The daemon's handlers.  One step is the code up to the next await. *)

Goto(h, g) == handlers' = (handlers \ {h}) \cup {g}

(* get_attr and read_dir: one request to the object store. *)
Look(h) ==
    /\ h.next = "look"
    /\ Goto(h, [h EXCEPT !.next = "reply",
                         !.names = IF h.op = "read_dir" THEN Listed(Parent[h.path]) ELSE {},
                         !.res = IF h.op = "read_dir" \/ object[h.path] # None THEN "ok" ELSE "missing"])
    /\ UNCHANGED <<object, rows, history>>

(* open_read: the object first, the head row behind the await. *)
GetObject(h) ==
    /\ h.next = "get"
    /\ Goto(h, IF object[h.path] = None THEN [h EXCEPT !.next = "reply", !.res = "missing"]
               ELSE [h EXCEPT !.next = "head", !.bytes = object[h.path]])
    /\ UNCHANGED <<object, rows, history>>

ReadHead(h) ==
    /\ h.next = "head"
    /\ Goto(h, [h EXCEPT !.next = "reply", !.version = HeadVersion(h.path)])
    /\ UNCHANGED <<object, rows, history>>

BaseExists(p, base) == base # None => HeadBytes(p) # None   \* mutant: any live version will do

(* assertExpectedVersion with base_version ?? undefined. *)
assertExpectedVersion(p, base) ==
    base = None \/ base = HeadVersion(p) \/ (base = 0 /\ HeadBytes(p) = None)

(* writeRaw up to the put: the version check, then the dedup against the     *)
(* head of a conditional write.                                              *)
CheckVersion(h) ==
    LET base == h.file.base IN
    /\ h.next = "check"
    /\ Goto(h, IF ~assertExpectedVersion(h.path, base) THEN [h EXCEPT !.next = "reply", !.res = "conflict"]
               ELSE IF base # None /\ HeadVersion(h.path) > 0 /\ HeadBytes(h.path) = h.bytes
               THEN [h EXCEPT !.next = "reply"]
               ELSE [h EXCEPT !.next = "put"])
    /\ UNCHANGED <<object, rows, history>>

Current(h) == call[h.mount] # None /\ call[h.mount].id = h.id

(* The object of a path changes.  History: this is the mount's own last      *)
(* change of the name if its callback still waits for it.                    *)
SetObject(h, p, b) ==
    /\ object' = [object EXCEPT ![p] = b]
    /\ mine' = [m \in Mounts |-> [mine[m] EXCEPT ![p] =
                  IF m # h.mount \/ ~Current(h) THEN "unknown"
                  ELSE IF b = None THEN "absent" ELSE "present"]]
    /\ UNCHANGED <<rows, commits, closes>>

PutObject(h) ==
    /\ h.next = "put"
    /\ SetObject(h, h.path, h.bytes)
    /\ Goto(h, [h EXCEPT !.next = "commit"])

(* mv: the object is copied (or is not there); rm: it is deleted. *)
CopyObject(h) ==
    /\ h.next = "copy"
    /\ IF object[h.path] = None
       THEN /\ Goto(h, [h EXCEPT !.next = "reply", !.res = "missing"])
            /\ UNCHANGED <<object, rows, history>>
       ELSE /\ SetObject(h, h.to, object[h.path])
            /\ Goto(h, [h EXCEPT !.next = "commit", !.bytes = object[h.path]])

DeleteObject(h) ==
    /\ h.next = "delete"
    /\ SetObject(h, h.path, None)
    /\ Goto(h, [h EXCEPT !.next = "bury"])

(* createVersion: append the row of a path.  History: writers of the path    *)
(* behind their check are raced.                                             *)
AddVersion(h, p, b, g) ==
    /\ rows' = [rows EXCEPT ![p] = Append(@, b)]
    /\ handlers' = {IF o.op = "open_write" /\ o.path = p /\ o.next \in {"put", "commit"}
                    THEN [o EXCEPT !.raced = TRUE] ELSE o : o \in handlers \ {h}} \cup {g}
    /\ UNCHANGED <<object, closes, mine>>

Commit(h) ==
    /\ h.next = "commit"
    /\ IF h.op = "open_write"
       THEN /\ AddVersion(h, h.path, h.bytes, [h EXCEPT !.next = "reply"])
            /\ commits' = commits \cup {[mount |-> h.mount, file |-> h.file, raced |-> h.raced,
                                         path |-> h.path, version |-> HeadVersion(h.path) + 1]}
       ELSE AddVersion(h, h.to, h.bytes, [h EXCEPT !.next = "delete"]) /\ UNCHANGED commits

(* The tombstone of rm and of the source of mv. *)
Bury(h) ==
    /\ h.next = "bury"
    /\ AddVersion(h, h.path, None, [h EXCEPT !.next = "reply"])
    /\ UNCHANGED commits

Handle(m) ==
    /\ up
    /\ \E h \in handlers :
         /\ h.mount = m
         /\ \/ Look(h) \/ GetObject(h) \/ ReadHead(h) \/ CheckVersion(h) \/ PutObject(h)
            \/ CopyObject(h) \/ Commit(h) \/ DeleteObject(h) \/ Bury(h)
    /\ UNCHANGED <<up, wire, helper, nextId, calls, faults>>
-----------------------------------------------------------------------------
(* Answers. *)

Reaches(h) ==
    /\ Current(h) /\ call[h.mount].stage = "wait"
    /\ h.mount \notin Remote => sock[h.mount] = "up" /\ connNo[h.mount] = h.conn

(* The connection is gone, or the caller is: socket.write goes nowhere. *)
DropAnswer(m) ==
    /\ up
    /\ \E h \in handlers : h.mount = m /\ h.next = "reply" /\ ~Reaches(h) /\ handlers' = handlers \ {h}
    /\ UNCHANGED <<object, rows, up, wire, helper, nextId, calls, faults, history>>

Deliver(h) ==
    /\ up
    /\ h.next = "reply"
    /\ Reaches(h)
    /\ handlers' = handlers \ {h}
    /\ UNCHANGED <<object, rows, up, wire, nextId, calls, faults, commits>>

Return(m) == call' = [call EXCEPT ![m] = None]

Continue(m, step) == call' = [call EXCEPT ![m].step = step, ![m].stage = "send", ![m].attempts = 0]

Opened(m, p, base, hash, bytes, dirty) ==
    /\ open' = [open EXCEPT ![m] = @ \cup
         {[fh |-> nextFh[m], path |-> p, base |-> base, hash |-> hash, bytes |-> bytes, dirty |-> dirty,
           saw |-> IF base = None THEN None ELSE bytes,
           fresh |-> base # None /\ base > 0 /\ rows[p][base] = bytes]}]
    /\ nextFh' = [nextFh EXCEPT ![m] = @ + 1]

(* resolve_child: a known name is opened next, a missing one created         *)
(* (create_local: base_version None, base_hash of no bytes, dirty) or        *)
(* ENOENT; any other error is the callback's.                                *)
LookedUp(h) ==
    LET m == h.mount IN
    /\ h.op = "get_attr"
    /\ Deliver(h)
    /\ IF h.res = "ok" THEN Continue(m, "open_read") /\ UNCHANGED <<open, nextFh>>
       ELSE /\ Return(m)
            /\ \/ h.res = "missing" /\ Opened(m, h.path, None, Empty, Empty, TRUE)
               \/ UNCHANGED <<open, nextFh>>
    /\ UNCHANGED <<listing, closes, mine>>

(* open_for_read: the handle keeps the version and the hash of the head row. *)
OpenedRead(h) ==
    LET m == h.mount IN
    /\ h.op = "open_read"
    /\ Deliver(h)
    /\ Return(m)
    /\ IF h.res = "ok"
       THEN Opened(m, h.path, h.version,
                   IF h.version = 0 THEN None ELSE rows[h.path][h.version], h.bytes, FALSE)
       ELSE UNCHANGED <<open, nextFh>>
    /\ UNCHANGED <<listing, closes, mine>>

Invalidate(m, ds) == listing' = [listing EXCEPT ![m] = [d \in Dirs |-> IF d \in ds THEN None ELSE @[d]]]

ConflictIsSaved(h) ==                            \* mutant: a rejected close reports success
    /\ h.op = "open_write"
    /\ Deliver(h)
    /\ Return(h.mount)
    /\ Invalidate(h.mount, {Parent[h.path]})
    /\ Closed(h.mount, h.file)
    /\ UNCHANGED <<open, nextFh, mine>>

(* release_close: a saved version busts the parent's listing, a conflict is  *)
(* recorded through the daemon before the callback returns EIO; another      *)
(* error just returns.                                                       *)
Saved(h) ==
    LET m == h.mount IN
    /\ h.op = "open_write"
    /\ Deliver(h)
    /\ IF h.res = "ok"
       THEN /\ Return(m)
            /\ Invalidate(m, {Parent[h.path]})
            /\ Closed(m, h.file)
       ELSE /\ IF h.res = "conflict" THEN Continue(m, "record_conflict") ELSE Return(m)
            /\ UNCHANGED <<listing, closes>>
    /\ UNCHANGED <<open, nextFh, mine>>

Recorded(h) ==
    /\ h.op = "record_conflict"
    /\ Deliver(h)
    /\ Return(h.mount)
    /\ UNCHANGED <<open, nextFh, listing, closes, mine>>

(* readdir_entries: the answer fills the cache. *)
DirRead(h) ==
    /\ h.op = "read_dir"
    /\ Deliver(h)
    /\ Return(h.mount)
    /\ IF h.res = "ok" THEN listing' = [listing EXCEPT ![h.mount][Parent[h.path]] = h.names]
       ELSE UNCHANGED listing
    /\ UNCHANGED <<open, nextFh, closes, mine>>

SourceOnly(h) == {Parent[h.path]}                \* mutant: rename forgets the new parent

(* unlink_path and rename_path bust the directories of their names, but not  *)
(* on an error.  Open files of a renamed path keep the old one.              *)
Touched(h) == {Parent[h.path], Parent[h.to]}

Renamed(h) ==
    /\ h.op \in {"unlink", "rename"}
    /\ Deliver(h)
    /\ Return(h.mount)
    /\ IF h.res = "ok" THEN Invalidate(h.mount, Touched(h)) ELSE UNCHANGED listing
    /\ UNCHANGED <<open, nextFh, closes, mine>>

Answer(m) ==
    \E h \in handlers :
        /\ h.mount = m
        /\ LookedUp(h) \/ OpenedRead(h) \/ Saved(h) \/ Recorded(h) \/ DirRead(h) \/ Renamed(h)
-----------------------------------------------------------------------------
(* Faults. *)

(* The connection breaks; the daemon and its handlers live on. *)
Disconnect(m) ==
    /\ sock[m] = "up"
    /\ Fault("disconnect")
    /\ sock' = [sock EXCEPT ![m] = "broken"]
    /\ UNCHANGED <<daemon, connNo, draining, torn, helper, nextId, calls, history>>

(* The daemon dies in the middle of its handlers. *)
Crash ==
    /\ up
    /\ Fault("crash")
    /\ up' = FALSE
    /\ handlers' = {}
    /\ sock' = [m \in Mounts |-> IF sock[m] = "up" THEN "broken" ELSE sock[m]]
    /\ UNCHANGED <<object, rows, connNo, draining, torn, helper, nextId, calls, history>>

Restart ==
    /\ ~up
    /\ up' = TRUE
    /\ UNCHANGED <<object, rows, handlers, wire, helper, nextId, calls, faults, history>>

(* The daemon dies while it writes an answer: the reader, inside a frame,    *)
(* drops the writer and returns without draining pending.                    *)
CrashInFrame(m) ==
    /\ up
    /\ sock[m] = "up"
    /\ Fault("torn frame")
    /\ \E h \in handlers : h.mount = m /\ h.next = "reply" /\ Reaches(h)
    /\ up' = FALSE
    /\ handlers' = {}
    /\ sock' = [n \in Mounts |-> IF n = m THEN "none" ELSE IF sock[n] = "up" THEN "broken" ELSE sock[n]]
    /\ torn' = torn \cup {<<m, call[m].id>>}
    /\ UNCHANGED <<object, rows, connNo, draining, helper, nextId, calls, history>>

(* The daemon's answer carries more than 64 MiB: the reader drops the writer *)
(* and returns, without draining pending; or it cannot be decoded: the       *)
(* reader goes on to the next frame.  Either way its waiter is left.         *)
GiveUp(m) ==
    /\ up
    /\ sock[m] = "up"
    /\ \E h \in handlers :
         /\ h.mount = m /\ h.next = "reply" /\ h.res = "ok" /\ is_idempotent(h.op) /\ Reaches(h)
         /\ handlers' = handlers \ {h}
         /\ \/ h.op # "get_attr" /\ Fault("long answer") /\ sock' = [sock EXCEPT ![m] = "none"]
            \/ Fault("bad answer") /\ UNCHANGED sock
    /\ torn' = torn \cup {<<m, call[m].id>>}
    /\ UNCHANGED <<object, rows, up, connNo, draining, helper, nextId, calls, history>>

(* What a handler awaits may reject: the object store, createVersion (on a   *)
(* UNIQUE row of another process as a conflict), and behind the last commit  *)
(* the index and the search data.                                            *)
MayReject(h) ==
    \/ h.next \in {"look", "get", "put", "copy", "commit", "delete", "bury"}
    \/ h.next = "reply" /\ h.res = "ok" /\ h.op \in {"open_write", "unlink", "rename"}

(* A name of the request has changed in the object store. *)
Begun(h) == h.next \in {"commit", "bury", "reply"} \/ (h.next = "delete" /\ h.op = "rename")

(* classifyError: the handler answers an error and leaves what it has done. *)
Reject(m) ==
    /\ up
    /\ Fault("rejection")
    /\ \E h \in handlers, r \in {"error", "conflict"} :
         /\ h.mount = m /\ MayReject(h)
         /\ r = "conflict" => h.next = "commit"
         /\ Goto(h, [h EXCEPT !.next = "reply", !.res = r])
         /\ IF Current(h) /\ Begun(h) THEN Forget(m, {h.path, h.to}) ELSE UNCHANGED mine
    /\ UNCHANGED <<object, rows, up, wire, helper, nextId, calls, commits, closes>>
-----------------------------------------------------------------------------
Kernel(m) ==
    \/ \E p \in Paths : Open(m, p) \/ ReadDir(m, p) \/ Unlink(m, p) \/ \E q \in Paths : Rename(m, p, q)
    \/ \E o \in open[m], b \in Bytes, w \in BOOLEAN : Release(m, o, b, w)

Next ==
    \/ \E m \in Mounts :
         \/ Kernel(m) \/ Send(m) \/ SendFails(m) \/ NoticeLoss(m) \/ Drain(m) \/ TimeOut(m)
         \/ Handle(m) \/ Answer(m) \/ DropAnswer(m) \/ Disconnect(m) \/ CrashInFrame(m)
         \/ GiveUp(m) \/ Reject(m)
    \/ Crash \/ Restart

(* A callback's thread, the reader task, the daemon's event loop and the     *)
(* HTTP timer are scheduled again and again; nobody has to call the mount.   *)
Fairness ==
    \A m \in Mounts :
        /\ WF_vars(Send(m) \/ SendFails(m))
        /\ WF_vars(NoticeLoss(m)) /\ WF_vars(Drain(m)) /\ WF_vars(TimeOut(m))
        /\ WF_vars(Handle(m)) /\ WF_vars(Answer(m)) /\ WF_vars(DropAnswer(m))

Spec == Init /\ [][Next]_vars /\ Fairness
-----------------------------------------------------------------------------
(* Properties. *)

(* The state of the mounts, the transports and the daemon is well formed; a  *)
(* mount has at most one request of its own awaited (fs.rs, ipc.rs).         *)
TypeOK ==
    /\ object \in [Paths -> Bytes \cup {None}]
    /\ rows \in [Paths -> Seq(Bytes \cup {None})]
    /\ handlers \subseteq Handler
    /\ up \in BOOLEAN
    /\ sock \in [Mounts -> {"none", "up", "broken"}]
    /\ connNo \in [Mounts -> Nat] /\ draining \in [Mounts -> Nat]
    /\ torn \subseteq Mounts \X Nat
    /\ call \in [Mounts -> Call \cup {None}]
    /\ open \in [Mounts -> SUBSET OpenFile]
    /\ nextFh \in [Mounts -> Nat] /\ nextId \in [Mounts -> Nat]
    /\ listing \in [Mounts -> [Dirs -> (SUBSET Paths) \cup {None}]]
    /\ calls \in 0 .. MaxCalls /\ faults \in 0 .. MaxFaults
    /\ commits \subseteq [mount : Mounts, file : OpenFile, raced : BOOLEAN, path : Paths, version : Nat]
    /\ closes \subseteq [path : Paths, base : Nat \cup {None}, bytes : Bytes]
    /\ mine \in [Mounts -> [Paths -> {"unknown", "present", "absent"}]]

(* A close that started from version n of a file replaces version n and      *)
(* nothing newer, whatever the other mounts committed while the file was     *)
(* open and however the connection broke, unless another write of the path   *)
(* ran between the daemon's version check and its commit, or the open        *)
(* returned bytes that were not those of the version it named (open_read     *)
(* reads the object first and the head row after it; release_close sends     *)
(* base_version; writeRaw checks it).                                        *)
CloseReplacesWhatItRead ==
    \A c \in commits :
        c.file.fresh /\ ~c.raced =>
            c.version = c.file.base + 1 /\ rows[c.path][c.version - 1] = c.file.saw

(* A close is committed at most once, although answers get lost, connections *)
(* are made anew and requests retried (with_retry, is_idempotent).           *)
AppliedOnce ==
    \A c, d \in commits :
        c.mount = d.mount /\ c.file.fh = d.file.fh => c.version = d.version /\ c.path = d.path

(* A program whose dirty file was released without an error finds its bytes  *)
(* among the versions of the path, also after a crash of the daemon; except  *)
(* that an empty new file is never sent (create_local's base_hash).          *)
SavedIsStored ==
    \A c \in closes :
        ~(c.base = None /\ c.bytes = Empty) =>
            \E i \in DOMAIN rows[c.path] : rows[c.path][i] = c.bytes

(* Between callbacks a mount's cached listing agrees with the mount's own    *)
(* last change of a name, until somebody else changes it (readdir_cache and  *)
(* its invalidation in release_close, unlink_path and rename_path).  A       *)
(* change counts when its callback returned without an error: a handler that *)
(* throws after the object changed, or whose answer is lost, leaves the      *)
(* cached listing as it was.                                                 *)
OwnChangesListed ==
    \A m \in Mounts, p \in Paths :
        call[m] = None /\ listing[m][Parent[p]] # None =>
            /\ mine[m][p] = "present" => p \in listing[m][Parent[p]]
            /\ mine[m][p] = "absent" => p \notin listing[m][Parent[p]]

(* Every callback returns, so that the event loop can serve the next one,    *)
(* unless the answer to its own request was given up: cut inside a frame,    *)
(* longer than 64 MiB or not to be decoded (the reader task, with_retry).    *)
ReturnsUnlessTorn ==
    \A m \in Mounts : call[m] # None ~> (call[m] = None \/ <<m, call[m].id>> \in torn)

(* docs/fuse-troubleshooting.md: the FUSE process stays alive across daemon  *)
(* restarts, no remount is needed: every callback returns.                   *)
MountOutlivesRestart ==
    \A m \in Mounts : call[m] # None ~> call[m] = None
-----------------------------------------------------------------------------
(* The inductive invariant. *)

Stored(p, b) == \E i \in DOMAIN rows[p] : rows[p][i] = b

(* What a handle claims about the version it was opened from stays true:     *)
(* versions are only added.                                                  *)
FileOK(f) ==
    /\ f.fresh => f.base # None /\ f.base \in 1 .. HeadVersion(f.path) /\ rows[f.path][f.base] = f.saw
    /\ f.hash = None \/ (f.base = None /\ f.hash = Empty) \/ Stored(f.path, f.hash)

Writes(h) == h.op = "open_write"
Closing(m) == call[m] # None /\ call[m].step = "open_write"

(* Every request has a number of its own.                                    *)
RequestsNumbered ==
    /\ \A h \in handlers : h.id \in 1 .. nextId[h.mount]
    /\ \A g, h \in handlers : g.mount = h.mount /\ g.id = h.id => g = h

(* What a close sends is the file it has taken out of open_files.            *)
FilesSound ==
    /\ \A m \in Mounts : \A f \in open[m] : FileOK(f)
    /\ \A m \in Mounts : Closing(m) =>
          /\ call[m].file \in OpenFile /\ FileOK(call[m].file)
          /\ call[m].path = call[m].file.path /\ call[m].to = call[m].path
    /\ \A h \in handlers : Writes(h) =>
          /\ h.file \in OpenFile /\ FileOK(h.file)
          /\ h.path = h.file.path /\ h.to = h.path /\ h.bytes = h.file.bytes
    /\ \A c \in commits :
          /\ FileOK(c.file) /\ c.path = c.file.path
          /\ c.file.fresh /\ ~c.raced => c.version = c.file.base + 1

(* A handler's answer so far is an error only when it is about to reply, and *)
(* what it has read or checked holds until another commit.                   *)
HandlerSound(h) ==
    /\ h.next # "reply" => h.res = "ok"
    /\ h.next \in {"check", "put"} => Writes(h)
    /\ h.next = "commit" => h.op \in {"open_write", "rename"}
    /\ h.next = "copy" => h.op = "rename"
    /\ h.next \in {"delete", "bury"} => h.op \in {"unlink", "rename"}
    /\ h.next \in {"get", "head"} => h.op = "open_read"
    /\ h.next = "look" => h.op \in {"get_attr", "read_dir"}
    /\ h.op = "open_read" /\ h.next \in {"head", "reply"} /\ h.res = "ok" => h.bytes \in Bytes
    /\ h.op = "open_read" /\ h.next = "reply" /\ h.res = "ok" => h.version <= HeadVersion(h.path)
    /\ Writes(h) /\ h.next \in {"put", "commit"} /\ h.file.fresh /\ ~h.raced =>
          h.file.base = HeadVersion(h.path)
    /\ Writes(h) /\ h.next = "reply" /\ h.res = "ok" => Stored(h.path, h.bytes)
HandlersSound == \A h \in handlers : HandlerSound(h)

(* A file handle is open, or being closed, or was closed: its number belongs *)
(* to one close, whose request is sent once and committed once.              *)
HandlesApart ==
    /\ \A m \in Mounts : \A f \in open[m] :
          /\ f.fh < nextFh[m]
          /\ \A g \in open[m] : f.fh = g.fh => f = g
    /\ \A m \in Mounts : Closing(m) =>
          /\ call[m].file.fh < nextFh[m]
          /\ \A f \in open[m] : f.fh # call[m].file.fh
          /\ call[m].stage = "send" =>
                /\ \A h \in handlers : Writes(h) /\ h.mount = m => h.file.fh # call[m].file.fh
                /\ \A c \in commits : c.mount = m => c.file.fh # call[m].file.fh
    /\ \A h \in handlers : Writes(h) =>
          /\ h.file.fh < nextFh[h.mount]
          /\ \A f \in open[h.mount] : f.fh # h.file.fh
          /\ \A g \in handlers : Writes(g) /\ g.mount = h.mount /\ g.file.fh = h.file.fh => g.id = h.id
          /\ h.next # "reply" => \A c \in commits : c.mount = h.mount => c.file.fh # h.file.fh
    /\ \A c \in commits :
          /\ c.file.fh < nextFh[c.mount]
          /\ \A f \in open[c.mount] : f.fh # c.file.fh

(* The handler the callback waits for serves the callback's request.         *)
Matching ==
    \A h \in handlers : Current(h) =>
       LET c == call[h.mount] IN
       /\ c.step = h.op /\ c.path = h.path /\ c.to = h.to
       /\ ~is_idempotent(h.op) => c.stage = "wait"

(* A listing, cached or on its way, agrees with the mount's own changes,     *)
(* but for the names the callback under way has begun to change.             *)
Agrees(m, p, names) ==
    /\ mine[m][p] = "present" => p \in names
    /\ mine[m][p] = "absent" => p \notin names
Changing(m, p) ==
    /\ call[m] # None /\ call[m].step \in {"open_write", "unlink", "rename"}
    /\ call[m].stage = "wait" /\ p \in {call[m].path, call[m].to}
    /\ \A h \in handlers : h.mount = m /\ h.id = call[m].id =>
          h.res = "ok" /\ Begun(h)
ListingsAgree ==
    /\ \A m \in Mounts, p \in Paths :
          /\ mine[m][p] = "present" => object[p] # None
          /\ mine[m][p] = "absent" => object[p] = None
          /\ listing[m][Parent[p]] # None => Agrees(m, p, listing[m][Parent[p]]) \/ Changing(m, p)
    /\ \A h \in handlers : h.op = "read_dir" /\ h.next = "reply" /\ h.res = "ok" /\ Current(h) =>
          \A p \in Paths : Parent[p] = Parent[h.path] => Agrees(h.mount, p, h.names)

IInv ==
    /\ TypeOK
    /\ RequestsNumbered
    /\ FilesSound
    /\ HandlersSound
    /\ HandlesApart
    /\ AppliedOnce
    /\ SavedIsStored
    /\ Matching
    /\ ListingsAgree
=============================================================================
