--------------------------- MODULE EmbeddingJobs ---------------------------
(***************************************************************************)
(* The embedding pipeline of one drive (packages/core/src/search): what    *)
(* write, rm, mv and reindex schedule, the two embedding slots they share  *)
(* with the background work, the migration that runs at every start of the *)
(* daemon, and the image job behind it.                                    *)
(*                                                                         *)
(* Everything runs on one event loop, so a step is the code between two    *)
(* awaits.  A store call, a text extraction and an embedding are awaited,  *)
(* and any other step may come in between; SQLite calls are synchronous.   *)
(* The daemon may be killed between any two steps: the files rows, the     *)
(* chunks and the meta table survive, the jobs do not.                     *)
(***************************************************************************)
EXTENDS Integers, Sequences, FiniteSets, Functions

CONSTANTS
    N,          \* paths are 1..N, in the order the background jobs scan them
    Clients,    \* concurrent calls
    Kinds,      \* kinds of content written
    Permits,    \* embedding slots
    Formats,    \* provider formats, 1..Formats
    Settings,   \* configurations of a start: provider format, whether the drive is excluded
    Ops,        \* operations the clients call
    MaxCalls, MaxFaults   \* bounds: calls, crashes and failures

ASSUME BoundAssumption == /\ N \in Nat \ {0} /\ Permits \in Nat \ {0} /\ Formats \in Nat \ {0}
                          /\ MaxCalls \in Nat \ {0} /\ MaxFaults \in Nat
ASSUME KindAssumption == /\ Kinds \subseteq {"text", "blank", "large", "pdf", "image"}
                         /\ Settings \subseteq [format : 1..Formats, excluded : {"no", "yes"}]
                         /\ Ops \subseteq {"write", "rm", "mv", "reindex"}

VARIABLES
    up,       \* the daemon runs
    conf,     \* the provider's format and whether the drive is excluded, for this start
    meta,     \* the meta table: stored format and exclusion, failed-retry key, image marker
    obj,      \* per path, the object in the store
    row,      \* per path, the files row
    text, image,  \* per path, the chunks of each kind
    call,     \* per client, the call in progress
    permits, queue, running,  \* embeddingSemaphore, its waiters, the embeddings under way
    mig,      \* the migration of this start
    scan,     \* the image job
    gap,      \* history: per path, why its search data may lag behind the file
    killed,   \* history: images whose embedding a crash interrupted, and whose failure still stands
    calls, crashes, fails  \* bound counters

vars == <<up, conf, meta, obj, row, text, image, call, permits, queue, running, mig, scan,
          gap, killed, calls, crashes, fails>>
store == <<obj, row>>
slots == <<permits, queue, running>>
bounds == <<calls, crashes, fails>>

Paths == 1..N
Versions == 0..MaxCalls          \* call number k commits version k of the paths it changes
NoDoc == [id |-> 0, kind |-> "none"]
Docs == [id : Versions, kind : Kinds \cup {"pdf", "none"}]
NoChunks == [id |-> 0, format |-> 0]
Chunks == [id : Versions, format : 0..Formats]   \* id: the content embedded, 0 for no chunks
Status == {"null", "pending", "indexed", "failed", "skipped"}
Row == [v : Versions, live : {"no", "yes"}, doc : Docs, text : Status, image : Status \ {"skipped"}]
Task == [by : {"write", "migration", "image", "reindex"}, path : Paths, v : Versions, doc : Docs]
Snapshot == [path : Paths, v : Versions]
Idle == [op |-> "none", at |-> "idle", n |-> 0, path |-> 1, to |-> 1, doc |-> NoDoc,
         text |-> "null", image |-> "null", seen |-> 0, format |-> 0, gap |-> {}, rows |-> {}]
Stopped == [at |-> "off", rows |-> {}, cursor |-> 0, doc |-> NoDoc]
NoMarker == [path |-> 0, v |-> 0]

(* An earlier start, with format 1, has embedded a PDF at the first path; the *)
(* other paths have no row yet, and a new row has the column defaults.        *)
Seed == [id |-> 1, kind |-> "pdf"]
Init ==
    /\ up = "no"
    /\ conf \in Settings
    /\ meta = [format |-> 1, excluded |-> "no", retried |-> 1, marker |-> NoMarker]
    /\ obj = [p \in Paths |-> IF p = 1 THEN Seed ELSE NoDoc]
    /\ row = [p \in Paths |->
                IF p = 1
                THEN [v |-> 1, live |-> "yes", doc |-> Seed, text |-> "indexed", image |-> "indexed"]
                ELSE [v |-> 0, live |-> "no", doc |-> NoDoc, text |-> "pending", image |-> "null"]]
    /\ text = [p \in Paths |-> IF p = 1 THEN [id |-> 1, format |-> 1] ELSE NoChunks]
    /\ image = text
    /\ call = [c \in Clients |-> Idle]
    /\ permits = Permits /\ queue = <<>> /\ running = {}
    /\ mig = Stopped
    /\ scan = [at |-> "off", rows |-> {}, cursor |-> 0, doc |-> NoDoc, rerun |-> "no"]
    /\ gap = [p \in Paths |-> {}]
    /\ killed = {}
    /\ calls = 1 /\ crashes = 0 /\ fails = 0
-----------------------------------------------------------------------------
(* Rows and chunks. *)

(* storedFormat is not the provider's embeddingFormat. *)
NewFormat == meta.format # conf.format

Unguarded(p, v) == row[p].v >= v   \* mutant: any version that is not older

(* readCurrentVersion(path) = version: undefined for a deleted file.          *)
isCurrent(p, v) == row[p].live = "yes" /\ row[p].v = v

(* Which files get image chunks, and what embedding the text of one leaves.   *)
imageEligible(doc) == conf.excluded = "no" /\ doc.kind \in {"image", "pdf"}
HasText(doc) == doc.kind # "image"
TextStatus(doc) ==
    IF conf.excluded = "yes" \/ doc.kind = "large" THEN "skipped"
    ELSE IF doc.kind = "blank" THEN "null" ELSE "indexed"
TextChunks(doc) ==
    IF TextStatus(doc) = "indexed" THEN [id |-> doc.id, format |-> conf.format] ELSE NoChunks

WithText(p, s) == [row EXCEPT ![p].text = s]
WithImage(p, s) == [row EXCEPT ![p].image = s]

(* Embedding slots: Semaphore. *)
Enter(t) ==
    IF permits > 0
    THEN permits' = permits - 1 /\ running' = running \cup {t} /\ queue' = queue
    ELSE queue' = Append(queue, t) /\ UNCHANGED <<permits, running>>

Wasteful(t) ==   \* mutant: the slot goes back to the pool and to the waiter
    /\ permits' = permits + 1
    /\ IF queue = <<>> THEN running' = running \ {t} /\ queue' = queue
       ELSE running' = (running \ {t}) \cup {Head(queue)} /\ queue' = Tail(queue)

release(t) ==
    IF queue = <<>>
    THEN permits' = permits + 1 /\ running' = running \ {t} /\ queue' = queue
    ELSE running' = (running \ {t}) \cup {Head(queue)} /\ queue' = Tail(queue) /\ permits' = permits

(* reindex embeds without a slot. *)
Leave(t) ==
    IF t.by = "reindex" THEN running' = running \ {t} /\ UNCHANGED <<permits, queue>>
    ELSE release(t)

Forgetful(job) ==   \* mutant: a request during a scan is dropped
    IF job.at # "off" THEN job ELSE [job EXCEPT !.at = "wait"]

(* scheduleImageEmbeddings: one job, and a request during a scan repeats it.  *)
scheduled(job) ==
    IF job.at # "off" THEN [job EXCEPT !.rerun = "yes"]
    ELSE [job EXCEPT !.at = "wait", !.rerun = "no"]
-----------------------------------------------------------------------------
(* Calls. *)

Begin(c, op, r) ==
    /\ up = "yes" /\ call[c].op = "none" /\ op \in Ops
    /\ calls < MaxCalls
    /\ calls' = calls + 1
    /\ call' = [call EXCEPT ![c] = r]
    /\ UNCHANGED <<crashes, fails>>

Advance(c, at) == call' = [call EXCEPT ![c].at = at]
Return(c) == call' = [call EXCEPT ![c] = Idle]

Touches(c, p) == call[c].op \in {"write", "rm", "mv"} /\ (call[c].path = p \/ (call[c].op = "mv" /\ call[c].to = p))

(* write, edit, append, revert, cp: the object first ...                      *)
putObject(c, p, k) ==
    LET doc == [id |-> calls + 1, kind |-> k] IN
    /\ Begin(c, "write", [Idle EXCEPT !.op = "write", !.at = "commit", !.n = calls + 1,
                                      !.path = p, !.doc = doc])
    /\ obj' = [obj EXCEPT ![p] = doc]
    /\ UNCHANGED <<up, conf, meta, row, text, image, slots, mig, scan, gap, killed>>

(* ... then the version; the row's statuses stay as they are.                 *)
createVersion(c) ==
    /\ call[c].op = "write" /\ call[c].at = "commit"
    /\ LET p == call[c].path IN
       row' = [row EXCEPT ![p].v = call[c].n, ![p].live = "yes", ![p].doc = call[c].doc]
    /\ Advance(c, "index")
    /\ UNCHANGED <<up, conf, meta, obj, text, image, slots, mig, scan, gap, killed, bounds>>

Unchecked(c) == row[call[c].path].live = "yes"   \* mutant: no version check after the extraction

StillOwner(c) == isCurrent(call[c].path, call[c].n)

(* indexBytesForSearch, indexTextForSearch, scheduleEmbedding, after the      *)
(* extraction: a newer write owns the file, or the statuses become pending    *)
(* and the jobs are queued.                                                   *)
indexForSearch(c) ==
    /\ call[c].op = "write" /\ call[c].at = "index"
    /\ \/ /\ ~StillOwner(c)
          /\ UNCHANGED <<row, text, image, slots, scan, gap>>
       \/ /\ StillOwner(c)
          /\ LET p == call[c].path
                 doc == call[c].doc
             IN  /\ row' = [row EXCEPT
                              ![p].text = IF HasText(doc) THEN "pending" ELSE "null",
                              ![p].image = IF imageEligible(doc) THEN "pending" ELSE "null"]
                 /\ image' = [image EXCEPT ![p] = NoChunks]
                 /\ IF HasText(doc)
                    THEN /\ text' = text
                         /\ Enter([by |-> "write", path |-> p, v |-> row[p].v, doc |-> doc])
                    ELSE text' = [text EXCEPT ![p] = NoChunks] /\ UNCHANGED slots
                 /\ scan' = IF imageEligible(doc) THEN scheduled(scan) ELSE scan
                 /\ gap' = [gap EXCEPT ![p] = call[c].gap]
    /\ Return(c)
    /\ UNCHANGED <<up, conf, meta, obj, mig, killed, bounds>>

(* rm: the object, then the version and the search data.                      *)
deleteObject(c, p) ==
    /\ Begin(c, "rm", [Idle EXCEPT !.op = "rm", !.at = "commit", !.n = calls + 1, !.path = p])
    /\ obj' = [obj EXCEPT ![p] = NoDoc]
    /\ UNCHANGED <<up, conf, meta, row, text, image, slots, mig, scan, gap, killed>>

rm(c) ==
    /\ call[c].op = "rm" /\ call[c].at = "commit"
    /\ LET p == call[c].path IN
       /\ row' = [row EXCEPT ![p].v = call[c].n, ![p].live = "no", ![p].doc = NoDoc,
                             ![p].text = "null", ![p].image = "null"]
       /\ text' = [text EXCEPT ![p] = NoChunks]
       /\ image' = [image EXCEPT ![p] = NoChunks]
       /\ gap' = [gap EXCEPT ![p] = {}]
    /\ Return(c)
    /\ UNCHANGED <<up, conf, meta, obj, slots, mig, scan, killed, bounds>>

(* mv: copy the object, ...                                                   *)
copyObject(c, p, q) ==
    /\ p # q /\ obj[p] # NoDoc
    /\ Begin(c, "mv", [Idle EXCEPT !.op = "mv", !.at = "commit", !.n = calls + 1,
                                   !.path = p, !.to = q])
    /\ obj' = [obj EXCEPT ![q] = obj[p]]
    /\ UNCHANGED <<up, conf, meta, row, text, image, slots, mig, scan, gap, killed>>

(* Another call has changed, or is about to change, the file that is moved.   *)
Overlapped(c) == \E d \in Clients \ {c} : Touches(d, call[c].path)

(* ... read it back and the source's statuses, commit the destination, ...    *)
mvCommit(c) ==
    LET m == call[c] IN
    /\ m.op = "mv" /\ m.at = "commit"
    /\ \/ /\ obj[m.to] = NoDoc          \* removed meanwhile: mv throws
          /\ Return(c) /\ row' = row
       \/ /\ obj[m.to] # NoDoc
          /\ row' = [row EXCEPT ![m.to].v = m.n, ![m.to].live = "yes", ![m.to].doc = obj[m.to]]
          /\ call' = [call EXCEPT ![c].at = "delete", ![c].doc = obj[m.to],
                                  ![c].text = row[m.path].text, ![c].image = row[m.path].image,
                                  ![c].seen = row[m.path].v, ![c].format = meta.format,
                                  ![c].gap = @ \cup IF Overlapped(c) \/ obj[m.path] # obj[m.to]
                                                     THEN {"source changed"} ELSE {}]
    /\ UNCHANGED <<up, conf, meta, obj, text, image, slots, mig, scan, gap, killed, bounds>>

(* ... delete the source object, ...                                          *)
mvDelete(c) ==
    /\ call[c].op = "mv" /\ call[c].at = "delete"
    /\ obj' = [obj EXCEPT ![call[c].path] = NoDoc]
    /\ call' = [call EXCEPT ![c].at = "gone",
                            ![c].gap = @ \cup IF Overlapped(c) THEN {"source changed"} ELSE {}]
    /\ UNCHANGED <<up, conf, meta, row, text, image, slots, mig, scan, gap, killed, bounds>>

(* A write to the source whose indexing the move did not see: by its version, *)
(* by the object copied, or by the status taken back (a write that is still   *)
(* under way is noted by each step of the move: its object may be embedded    *)
(* before its version is committed).                                          *)
SourceChanged(m) ==
    \/ row[m.path].v # m.seen \/ row[m.path].doc.id # m.doc.id
    \/ m.text = "indexed" /\ row[m.path].text # "indexed"
    \/ m.image = "indexed" /\ row[m.path].image # "indexed"

(* ... commit its deletion, ...                                               *)
mvGone(c) ==
    LET m == call[c] IN
    /\ m.op = "mv" /\ m.at = "gone"
    /\ row' = [row EXCEPT ![m.path].v = m.n, ![m.path].live = "no", ![m.path].doc = NoDoc]
    /\ call' = [call EXCEPT ![c].at = "tail",
                            ![c].gap = @ \cup gap[m.path] \cup
                               IF SourceChanged(m) \/ Overlapped(c) THEN {"source changed"} ELSE {}]
    /\ gap' = [gap EXCEPT ![m.path] = {}]
    /\ UNCHANGED <<up, conf, meta, obj, text, image, slots, mig, scan, killed, bounds>>

(* The source was written again before the move reached its search data.      *)
Rewritten(m) == ~ (row[m.path].live = "no" /\ row[m.path].v = m.n)

TargetUnchanged(m) == isCurrent(m.to, m.n)

(* ... and move the chunks and the statuses read before, unless a newer write *)
(* owns the destination: then the source's search data is dropped.            *)
mvTail(c) ==
    LET m == call[c]
        keepImages == imageEligible(m.doc)
        keepText == HasText(m.doc) \/ keepImages
        late == IF Rewritten(m) THEN {"source rewritten"} ELSE {}
    IN
    /\ m.op = "mv" /\ m.at = "tail"
    /\ \/ /\ TargetUnchanged(m)
          /\ text' = [text EXCEPT ![m.path] = NoChunks,
                                  ![m.to] = IF keepText THEN text[m.path] ELSE NoChunks]
          /\ image' = [image EXCEPT ![m.path] = NoChunks,
                                    ![m.to] = IF keepImages THEN image[m.path] ELSE NoChunks]
          /\ row' = [row EXCEPT ![m.to].text = IF keepText THEN m.text ELSE "null",
                                ![m.to].image = IF keepImages THEN m.image ELSE "null",
                                ![m.path].image = IF keepImages THEN @ ELSE "null",
                                ![m.path].text = IF keepText THEN @ ELSE "null"]
          /\ scan' = IF keepImages /\ m.image = "pending" THEN scheduled(scan) ELSE scan
          /\ gap' = [gap EXCEPT
               ![m.path] = @ \cup late,
               ![m.to] = m.gap \cup late
                         \cup (IF m.text = "pending" THEN {"status carried"} ELSE {})
                         \cup (IF m.format # meta.format THEN {"format changed"} ELSE {})]
       \/ /\ ~TargetUnchanged(m)
          /\ text' = [text EXCEPT ![m.path] = NoChunks]
          /\ image' = [image EXCEPT ![m.path] = NoChunks]
          /\ row' = [row EXCEPT ![m.path].text = "null", ![m.path].image = "null"]
          /\ gap' = [gap EXCEPT ![m.path] = @ \cup late]
          /\ scan' = scan
    /\ Return(c)
    /\ UNCHANGED <<up, conf, meta, obj, slots, mig, killed, bounds>>

(* A store call that rejects, a version number that another call has taken,   *)
(* or a database error: the call throws at an await behind its first effect,  *)
(* and what is left of it is not done.  Calls under way on the same paths do  *)
(* not make up for it.                                                        *)
Shared(c, d) == \E p \in Paths : Touches(c, p) /\ Touches(d, p)

callFailed(c) ==
    /\ call[c].op \in {"write", "rm", "mv"}
    /\ crashes + fails < MaxFaults
    /\ fails' = fails + 1
    /\ gap' = [p \in Paths |-> IF Touches(c, p) THEN gap[p] \cup {"interrupted", "left pending"} ELSE gap[p]]
    /\ call' = [d \in Clients |-> IF d = c THEN Idle
                                  ELSE IF Shared(c, d) THEN [call[d] EXCEPT !.gap = @ \cup {"interrupted"}]
                                  ELSE call[d]]
    /\ UNCHANGED <<up, conf, meta, obj, row, text, image, slots, mig, scan, killed, calls, crashes>>

(* reindex: failed images are pending again, and the files whose text is not  *)
(* indexed are read one by one.                                               *)
reindex(c) ==
    LET failed == {p \in Paths : row[p].live = "yes" /\ row[p].image = "failed"}
        todo == {p \in Paths : row[p].live = "yes" /\ row[p].text \in {"failed", "null", "pending"}}
    IN
    /\ Begin(c, "reindex", [Idle EXCEPT !.op = "reindex", !.at = "read", !.n = calls + 1,
                               !.rows = {[path |-> p, v |-> row[p].v] : p \in todo}])
    /\ row' = [p \in Paths |-> IF p \in failed THEN [row[p] EXCEPT !.image = "pending"] ELSE row[p]]
    /\ scan' = scheduled(scan)
    /\ killed' = {k \in killed : k.path \notin failed}
    /\ UNCHANGED <<up, conf, meta, obj, text, image, slots, mig, gap>>

reindexRead(c, r) ==
    /\ call[c].op = "reindex" /\ r \in call[c].rows
    /\ call' = [call EXCEPT ![c].rows = @ \ {r}]
    /\ running' = IF obj[r.path] = NoDoc THEN running
                  ELSE running \cup {[by |-> "reindex", path |-> r.path, v |-> r.v, doc |-> obj[r.path]]}
    /\ UNCHANGED <<up, conf, meta, obj, row, text, image, permits, queue, mig, scan, gap, killed, bounds>>

reindexDone(c) ==
    /\ call[c].op = "reindex" /\ call[c].rows = {}
    /\ ~ \E t \in running : t.by = "reindex"
    /\ Return(c)
    /\ UNCHANGED <<up, conf, meta, obj, row, text, image, slots, mig, scan, gap, killed, bounds>>
-----------------------------------------------------------------------------
(* Embedding jobs. *)

(* The row a background job is at: the scans go by path.                      *)
First(job) == CHOOSE r \in job.rows : \A s \in job.rows : r.path <= s.path

NextRow(job) == [job EXCEPT !.at = "rows", !.cursor = First(job).path, !.rows = @ \ {First(job)},
                            !.doc = NoDoc]

(* The background job that waits for this task goes on with its next row.     *)
Resume(t) ==
    /\ mig' = IF t.by = "migration" THEN NextRow(mig) ELSE mig
    /\ scan' = IF t.by = "image" THEN NextRow(scan) ELSE scan
    /\ meta' = IF t.by = "image" THEN [meta EXCEPT !.marker = NoMarker] ELSE meta

(* indexFileEmbeddings for text, the transaction of runPendingImageEmbeddings *)
(* for images: replace the chunks if the version is still the one read before *)
(* the content, else leave the file to the newer write.                       *)
embedded(t) ==
    /\ up = "yes" /\ t \in running
    /\ \/ /\ isCurrent(t.path, t.v)
          /\ IF t.by = "image"
             THEN /\ image' = [image EXCEPT ![t.path] = [id |-> t.doc.id, format |-> conf.format]]
                  /\ row' = WithImage(t.path, "indexed")
                  /\ text' = text
             ELSE /\ text' = [text EXCEPT ![t.path] = IF HasText(t.doc) THEN TextChunks(t.doc) ELSE NoChunks]
                  /\ row' = WithText(t.path, IF HasText(t.doc) THEN TextStatus(t.doc) ELSE "null")
                  /\ image' = image
       \/ /\ ~isCurrent(t.path, t.v)
          /\ UNCHANGED <<row, text, image>>
    /\ gap' = IF ~isCurrent(t.path, t.v) \/ t.by = "image" THEN gap
              ELSE [gap EXCEPT ![t.path] = (@ \ {"foreign format"}) \cup
                                           IF NewFormat THEN {"foreign format"} ELSE {}]
    /\ Leave(t)
    /\ Resume(t)
    /\ UNCHANGED <<up, conf, obj, call, killed, bounds>>

(* The provider rejects the request: the status says so, the chunks stay.     *)
failed(t) ==
    /\ up = "yes" /\ t \in running
    /\ crashes + fails < MaxFaults
    /\ fails' = fails + 1
    /\ row' = IF ~isCurrent(t.path, t.v) THEN row
              ELSE IF t.by = "image" THEN WithImage(t.path, "failed") ELSE WithText(t.path, "failed")
    /\ Leave(t)
    /\ Resume(t)
    /\ UNCHANGED <<up, conf, obj, text, image, call, gap, killed, calls, crashes>>

(* EmbeddingInitializationError: the image job stops, its row stays pending.  *)
initFailed(t) ==
    /\ up = "yes" /\ t \in running /\ t.by = "image"
    /\ crashes + fails < MaxFaults
    /\ fails' = fails + 1
    /\ Leave(t)
    /\ scan' = [scan EXCEPT !.at = "off"]
    /\ meta' = [meta EXCEPT !.marker = NoMarker]
    /\ gap' = [p \in Paths |-> IF row[p].image = "pending" THEN gap[p] \cup {"images stopped"} ELSE gap[p]]
    /\ UNCHANGED <<up, conf, obj, row, text, image, call, mig, killed, calls, crashes>>
-----------------------------------------------------------------------------
(* The migration: runEmbeddingMigration holds the migration slot from the     *)
(* start of the daemon, before any request, until afterMigration is done.     *)

(* prepareEmbeddingMigration, in the order of its transactions: a new format, *)
(* a new exclusion, failures not yet retried with this format, PDFs that were *)
(* never embedded.                                                            *)
Unreset(s) == s   \* mutant: a new format leaves the statuses

Reset(s) == IF NewFormat /\ s \in {"indexed", "skipped"} THEN "pending" ELSE s
Excluded(s) ==
    IF meta.excluded = conf.excluded THEN s
    ELSE IF conf.excluded = "yes" THEN IF s \in {"indexed", "pending", "failed"} THEN "pending" ELSE s
    ELSE IF s = "skipped" THEN "pending" ELSE s
Retried(s) == IF meta.retried # conf.format /\ s = "failed" THEN "pending" ELSE s
Backfilled(doc, s) == IF s = "null" /\ doc.kind = "pdf" THEN "pending" ELSE s
DropImages == NewFormat \/ (meta.excluded = "no" /\ conf.excluded = "yes")

prepareEmbeddingMigration ==
    /\ row' = [p \in Paths |->
                 [row[p] EXCEPT
                    !.text = IF row[p].live = "yes" THEN Backfilled(row[p].doc, Retried(Excluded(Reset(@)))) ELSE @,
                    !.image = IF DropImages THEN "null" ELSE @]]
    /\ image' = IF DropImages THEN [p \in Paths |-> NoChunks] ELSE image
    /\ meta' = [meta EXCEPT !.format = conf.format, !.excluded = conf.excluded, !.retried = conf.format]

(* A dropped image status also forgets which images failed.                   *)
warmedUp ==
    /\ up = "yes" /\ mig.at = "warmup"
    /\ prepareEmbeddingMigration
    /\ mig' = [mig EXCEPT !.at = "rows"]
    /\ killed' = IF DropImages THEN {k \in killed : k = meta.marker} ELSE killed
    /\ UNCHANGED <<up, conf, obj, text, call, slots, scan, gap, bounds>>

(* Only a format change warms the provider up.                                *)
warmupFailed ==
    /\ up = "yes" /\ mig.at = "warmup" /\ NewFormat
    /\ crashes + fails < MaxFaults
    /\ fails' = fails + 1
    /\ mig' = [mig EXCEPT !.at = "after"]
    /\ gap' = [p \in Paths |-> gap[p] \cup {"not migrated"}]
    /\ UNCHANGED <<up, conf, meta, obj, row, text, image, call, slots, scan, killed, calls, crashes>>

(* selectBatch: the pending rows beyond the cursor.                           *)
Batch(cursor, pending) == {[path |-> p, v |-> row[p].v] : p \in {q \in pending : q > cursor}}

PendingText == {p \in Paths : row[p].live = "yes" /\ row[p].text = "pending"}
PendingImages ==
    {p \in Paths : row[p].live = "yes" /\ row[p].image = "pending" /\ conf.excluded = "no"}

migrationSelect ==
    /\ up = "yes" /\ mig.at = "rows" /\ mig.rows = {}
    /\ LET rows == Batch(mig.cursor, PendingText) IN
       mig' = IF rows = {} THEN [mig EXCEPT !.at = "after"] ELSE [mig EXCEPT !.rows = rows]
    /\ UNCHANGED <<up, conf, meta, obj, row, text, image, call, slots, scan, gap, killed, bounds>>

(* getObject; a missing object fails the row, an excluded drive is not read.  *)
migrationRead ==
    LET r == First(mig) IN
    /\ up = "yes" /\ mig.at = "rows" /\ mig.rows # {}
    /\ \/ /\ conf.excluded = "yes"
          /\ IF isCurrent(r.path, r.v)
             THEN row' = WithText(r.path, "skipped") /\ text' = [text EXCEPT ![r.path] = NoChunks]
             ELSE UNCHANGED <<row, text>>
          /\ mig' = NextRow(mig)
       \/ /\ conf.excluded = "no" /\ obj[r.path] = NoDoc
          /\ row' = IF row[r.path].text = "pending" /\ row[r.path].v = r.v
                    THEN WithText(r.path, "failed") ELSE row
          /\ mig' = NextRow(mig)
          /\ text' = text
       \/ /\ conf.excluded = "no" /\ obj[r.path] # NoDoc
          /\ mig' = [mig EXCEPT !.at = "extract", !.doc = obj[r.path]]
          /\ UNCHANGED <<row, text>>
    /\ UNCHANGED <<up, conf, meta, obj, image, call, slots, scan, gap, killed, bounds>>

(* The text is extracted: none drops the chunks, else a slot is awaited.      *)
migrationExtract ==
    LET r == First(mig) IN
    /\ up = "yes" /\ mig.at = "extract"
    /\ \/ /\ ~HasText(mig.doc)
          /\ IF isCurrent(r.path, r.v)
             THEN row' = WithText(r.path, "null") /\ text' = [text EXCEPT ![r.path] = NoChunks]
             ELSE UNCHANGED <<row, text>>
          /\ mig' = NextRow(mig)
          /\ UNCHANGED slots
       \/ /\ HasText(mig.doc)
          /\ Enter([by |-> "migration", path |-> r.path, v |-> r.v, doc |-> mig.doc])
          /\ mig' = [mig EXCEPT !.at = "embed"]
          /\ UNCHANGED <<row, text>>
    /\ UNCHANGED <<up, conf, meta, obj, image, call, scan, gap, killed, bounds>>

(* The file whose embedding was interrupted by the crash is failed, and a     *)
(* supported file without an image status becomes pending.                    *)
Recovered(p) ==
    IF meta.marker.path = p /\ isCurrent(p, meta.marker.v)
    THEN [row[p] EXCEPT !.image = IF conf.excluded = "yes" THEN "null" ELSE "failed"]
    ELSE row[p]
Queued(r) ==
    IF r.live = "yes" /\ r.image = "null" /\ imageEligible(r.doc)
    THEN [r EXCEPT !.image = "pending"] ELSE r

(* prepareImageEmbeddings, then the slot is released and the image job is     *)
(* scheduled if it has work.                                                  *)
afterMigration ==
    /\ up = "yes" /\ mig.at = "after"
    /\ mig' = Stopped
    /\ \/ NewFormat /\ UNCHANGED <<row, meta, scan, killed>>
       \/ /\ ~NewFormat
          /\ row' = [p \in Paths |-> Queued(Recovered(p))]
          /\ meta' = [meta EXCEPT !.marker = NoMarker]
          /\ scan' = IF \E p \in Paths : row'[p].live = "yes" /\ row'[p].image = "pending"
                                        /\ conf.excluded = "no"
                     THEN scheduled(scan) ELSE scan
          /\ killed' = IF conf.excluded = "yes" THEN killed \ {meta.marker} ELSE killed
    /\ UNCHANGED <<up, conf, obj, text, image, call, slots, gap, bounds>>
-----------------------------------------------------------------------------
(* The image job: runPendingImageEmbeddings under scheduleImageEmbeddings.    *)

SlotIgnored == TRUE   \* mutant: the image job does not wait for the migration

MigrationSlotFree == mig.at = "off"

(* A run ends; one more follows if it was asked for.                          *)
RunEnds == [scan EXCEPT !.at = IF scan.rerun = "yes" THEN "wait" ELSE "off", !.rerun = "no",
                        !.rows = {}, !.cursor = 0, !.doc = NoDoc]

imageSlot ==
    /\ up = "yes" /\ scan.at = "wait" /\ MigrationSlotFree
    /\ scan' = IF NewFormat THEN RunEnds
               ELSE [scan EXCEPT !.at = "rows", !.rows = {}, !.cursor = 0]
    /\ UNCHANGED <<up, conf, meta, obj, row, text, image, call, slots, mig, gap, killed, bounds>>

imageSelect ==
    /\ up = "yes" /\ scan.at = "rows" /\ scan.rows = {}
    /\ LET rows == Batch(scan.cursor, PendingImages) IN
       scan' = IF rows = {} THEN RunEnds ELSE [scan EXCEPT !.rows = rows]
    /\ UNCHANGED <<up, conf, meta, obj, row, text, image, call, slots, mig, gap, killed, bounds>>

(* Skip a row that was written since, drop one that no longer qualifies, else *)
(* leave a marker and read the object.                                        *)
imageRow ==
    LET r == First(scan) IN
    /\ up = "yes" /\ scan.at = "rows" /\ scan.rows # {}
    /\ \/ /\ ~isCurrent(r.path, r.v)
          /\ scan' = NextRow(scan)
          /\ UNCHANGED <<row, meta>>
       \/ /\ isCurrent(r.path, r.v) /\ ~imageEligible(row[r.path].doc)
          /\ row' = WithImage(r.path, "null")
          /\ scan' = NextRow(scan)
          /\ meta' = meta
       \/ /\ isCurrent(r.path, r.v) /\ imageEligible(row[r.path].doc)
          /\ meta' = [meta EXCEPT !.marker = r]
          /\ scan' = [scan EXCEPT !.at = "read"]
          /\ row' = row
    /\ UNCHANGED <<up, conf, obj, text, image, call, slots, mig, gap, killed, bounds>>

embedImageFile ==
    LET r == First(scan) IN
    /\ up = "yes" /\ scan.at = "read"
    /\ \/ /\ obj[r.path] = NoDoc
          /\ row' = IF isCurrent(r.path, r.v) THEN WithImage(r.path, "failed") ELSE row
          /\ scan' = NextRow(scan)
          /\ meta' = [meta EXCEPT !.marker = NoMarker]
          /\ UNCHANGED slots
       \/ /\ obj[r.path] # NoDoc
          /\ Enter([by |-> "image", path |-> r.path, v |-> r.v, doc |-> obj[r.path]])
          /\ scan' = [scan EXCEPT !.at = "embed", !.doc = obj[r.path]]
          /\ UNCHANGED <<row, meta>>
    /\ UNCHANGED <<up, conf, obj, text, image, call, mig, gap, killed, bounds>>
-----------------------------------------------------------------------------
(* The process. *)

Crash ==
    /\ up = "yes" /\ crashes + fails < MaxFaults
    /\ crashes' = crashes + 1
    /\ up' = "no"
    /\ call' = [c \in Clients |-> Idle]
    /\ permits' = Permits /\ queue' = <<>> /\ running' = {}
    /\ mig' = Stopped
    /\ scan' = [at |-> "off", rows |-> {}, cursor |-> 0, doc |-> NoDoc, rerun |-> "no"]
    /\ gap' = [p \in Paths |-> IF \E c \in Clients : Touches(c, p) THEN gap[p] \cup {"interrupted"} ELSE gap[p]]
    /\ killed' = IF scan.at \in {"read", "embed"} THEN killed \cup {meta.marker} ELSE killed
    /\ UNCHANGED <<conf, meta, obj, row, text, image, calls, fails>>

(* What only a start or a reindex takes up again.                             *)
Waits == {"status carried", "not migrated", "images stopped", "left pending"}

Boot(s) ==
    /\ up = "no"
    /\ up' = "yes"
    /\ conf' = s
    /\ mig' = [Stopped EXCEPT !.at = "warmup"]
    /\ gap' = [p \in Paths |-> gap[p] \ Waits]
    /\ UNCHANGED <<meta, obj, row, text, image, call, slots, scan, killed, bounds>>

Clientele ==
    \E c \in Clients :
       \/ \E p \in Paths : \/ \E k \in Kinds : putObject(c, p, k)
                          \/ deleteObject(c, p)
                          \/ \E q \in Paths : copyObject(c, p, q)
       \/ createVersion(c) \/ indexForSearch(c) \/ rm(c)
       \/ mvCommit(c) \/ mvDelete(c) \/ mvGone(c) \/ mvTail(c)
       \/ reindex(c) \/ reindexDone(c) \/ \E r \in call[c].rows : reindexRead(c, r)

Background ==
    \/ \E t \in running : embedded(t)
    \/ warmedUp \/ migrationSelect \/ migrationRead \/ migrationExtract \/ afterMigration
    \/ imageSlot \/ imageSelect \/ imageRow \/ embedImageFile

Faults ==
    \/ \E t \in running : failed(t) \/ initFailed(t)
    \/ \E c \in Clients : callFailed(c)
    \/ warmupFailed \/ Crash

Next == Clientele \/ Background \/ Faults \/ \E s \in Settings : Boot(s)

Spec == Init /\ [][Next]_vars
-----------------------------------------------------------------------------
(* Properties. *)

Reasons == {"interrupted", "source changed", "source rewritten", "format changed", "foreign format",
            "status carried", "not migrated", "images stopped", "left pending"}
Call == [op : {"none", "write", "rm", "mv", "reindex"},
         at : {"idle", "commit", "index", "delete", "gone", "tail", "read"},
         n : Versions, path : Paths, to : Paths, doc : Docs, text : Status, image : Status \ {"skipped"},
         seen : Versions, format : 0..Formats, gap : SUBSET Reasons, rows : SUBSET Snapshot]

TypeOK ==
    /\ up \in {"no", "yes"} /\ conf \in Settings
    /\ meta \in [format : 0..Formats, excluded : {"no", "yes"}, retried : 0..Formats,
                 marker : [path : 0..N, v : Versions]]
    /\ obj \in [Paths -> Docs] /\ row \in [Paths -> Row]
    /\ text \in [Paths -> Chunks] /\ image \in [Paths -> Chunks]
    /\ call \in [Clients -> Call]
    /\ permits \in 0..Permits /\ queue \in Seq(Task) /\ running \subseteq Task
    /\ mig \in [at : {"off", "warmup", "rows", "extract", "embed", "after"},
                rows : SUBSET Snapshot, cursor : 0..N, doc : Docs]
    /\ scan \in [at : {"off", "wait", "rows", "read", "embed"},
                 rows : SUBSET Snapshot, cursor : 0..N, doc : Docs, rerun : {"no", "yes"}]
    /\ gap \in [Paths -> SUBSET Reasons] /\ killed \subseteq Snapshot
    /\ calls \in 1..MaxCalls /\ crashes \in Nat /\ fails \in Nat

InFlight(p) == \E c \in Clients : Touches(c, p)

(* A file that is marked indexed has the chunks of its current content, the  *)
(* one its row or (after overlapping writes) its object holds, whichever of  *)
(* the write's job, the migration and a reindex finished last.  Excepted are *)
(* a call that a crash or an error cut off between its first effect and its  *)
(* indexing (versioning.ts:240, mv.ts:75), a move that overlapped a write of *)
(* its source, and a move across a change of format.                         *)
IndexedIsFresh ==
    \A p \in Paths :
       /\ row[p].live = "yes" /\ ~InFlight(p)
       /\ gap[p] \cap {"interrupted", "source changed", "source rewritten", "format changed"} = {}
       => /\ row[p].text = "indexed" => text[p].id \in {row[p].doc.id, obj[p].id}
          /\ row[p].image = "indexed" => image[p].id \in {row[p].doc.id, obj[p].id}

(* No job brings the chunks of a deleted file back; a move cut off after it  *)
(* deleted its source may leave them.                                        *)
NoGhostChunks ==
    \A p \in Paths :
       row[p].live = "no" /\ ~InFlight(p) /\ "interrupted" \notin gap[p]
          => text[p] = NoChunks /\ image[p] = NoChunks

(* Vectors of two formats are never mixed among indexed files: what a format *)
(* change does not re-embed at once is pending.  A provider whose warmup     *)
(* failed still embeds the files written meanwhile.                          *)
OneFormat ==
    \A p \in Paths :
       /\ row[p].live = "yes" /\ ~InFlight(p)
       /\ gap[p] \cap {"interrupted", "source changed", "source rewritten", "format changed",
                       "foreign format"} = {}
       => /\ row[p].text = "indexed" => text[p].format = meta.format
          /\ image[p] # NoChunks => image[p].format = meta.format

(* The slots are neither leaked nor handed out twice, and nobody waits while *)
(* one is free.                                                              *)
SlotsConserved ==
    /\ permits + Cardinality({t \in running : t.by # "reindex"}) = Permits
    /\ permits > 0 => queue = <<>>

(* A pending file has a job that will embed it; a pending image is seen by   *)
(* the scan under way, by one more scan, or by the migration's end.  Four    *)
(* things may leave one to the next start, and no longer: a status that a    *)
(* move carries along without its job, a provider that fails to warm up, an  *)
(* image job that stopped, and a call that failed between its commit and its *)
(* indexing.                                                                 *)
PendingHasOwner ==
    up = "yes" =>
    \A p \in Paths :
       row[p].live = "yes" /\ ~InFlight(p) =>
       /\ row[p].text = "pending" =>
             \/ \E t \in running \cup Range(queue) : t.by # "image" /\ t.path = p /\ t.v = row[p].v
             \/ mig.at = "warmup"
             \/ mig.at # "off" /\ (mig.cursor < p \/ [path |-> p, v |-> row[p].v] \in mig.rows)
             \/ gap[p] \cap {"status carried", "not migrated", "left pending"} # {}
       /\ row[p].image = "pending" /\ conf.excluded = "no" =>
             \/ mig.at # "off" \/ scan.rerun = "yes" \/ scan.at = "wait" \/ NewFormat
             \/ scan.at # "off" /\ (scan.cursor < p \/ [path |-> p, v |-> row[p].v] \in scan.rows)
             \/ gap[p] \cap {"images stopped", "left pending"} # {}

(* An image that was being embedded when the daemon died is not tried again, *)
(* so it cannot keep the daemon from coming up, until somebody reindexes the *)
(* drive or a new format or exclusion drops all image statuses.              *)
NoCrashLoop ==
    scan.at \in {"read", "embed"} => meta.marker \notin killed
-----------------------------------------------------------------------------
(* The inductive invariant. *)

Active(c) == call[c].op # "none"

(* Every call has a number of its own, and commits it as a version later on. *)
CallsNumbered ==
    /\ \A p \in Paths : row[p].v <= calls
    /\ \A c \in Clients : Active(c) =>
          /\ up = "yes" /\ call[c].n \in 1..calls
          /\ call[c].op = "mv" => call[c].path # call[c].to
          /\ \A d \in Clients \ {c} : Active(d) => call[d].n # call[c].n

(* Nobody is in the queue twice, or in the queue and at work.  A write has at *)
(* most one task and only after its indexing, a background job one task at a  *)
(* time and only while it waits for it.                                       *)
Embeddings == {t \in running : t.by # "reindex"}
Waiters == {queue[i] : i \in 1..Len(queue)}
QueueApart ==
    /\ \A i \in 1..Len(queue) : queue[i].by # "reindex" /\ queue[i] \notin running
    /\ \A i, j \in 1..Len(queue) : queue[i] = queue[j] => i = j
TasksOwned ==
    /\ \A t \in running \cup Waiters :
          /\ t.by = "write" =>
                /\ t.v <= calls
                /\ \A c \in Clients : call[c].op = "write" => call[c].n # t.v
          /\ t.by = "migration" => mig.at = "embed"
          /\ t.by = "image" => /\ scan.at = "embed"
                               /\ t.path = meta.marker.path /\ t.v = meta.marker.v
    /\ \A s, t \in running \cup Waiters : s.by = t.by /\ s.by \in {"migration", "image"} => s = t
SlotsOK == IsFiniteSet(running) /\ SlotsConserved /\ QueueApart /\ TasksOwned

(* The image job runs only after the migration and under the stored format;   *)
(* the marker names the row it is at, and nothing else while it is running.   *)
Scanning == scan.at \in {"rows", "read", "embed"}
MarkerExact ==
    /\ Scanning => up = "yes" /\ mig.at = "off" /\ ~NewFormat
    /\ IF scan.at \in {"read", "embed"} THEN scan.rows # {} /\ meta.marker = First(scan)
       ELSE up = "yes" /\ mig.at = "off" /\ ~NewFormat => meta.marker = NoMarker
    /\ \A r \in scan.rows : r.v <= calls
    /\ mig.at \in {"extract", "embed"} => mig.rows # {}
    /\ up = "no" => mig = Stopped /\ scan.at = "off"

(* An image that was interrupted is still marked, superseded or failed; no    *)
(* call under way can bring its version back, and no scan has it selected.    *)
KilledSettled ==
    \A k \in killed :
       /\ meta.marker = k \/ ~isCurrent(k.path, k.v) \/ row[k.path].image = "failed"
       /\ k.v <= calls
       /\ \A c \in Clients : Active(c) =>
             /\ call[c].n > k.v
             /\ call[c].op = "mv" /\ call[c].at = "tail" => row[call[c].path].v > k.v
       /\ Scanning => k \notin scan.rows

(* A deleted file has chunks only while a move is about to take them, or      *)
(* after one was cut off.                                                     *)
GhostsExplained ==
    \A p \in Paths : row[p].live = "no" =>
       \/ text[p] = NoChunks /\ image[p] = NoChunks
       \/ "interrupted" \in gap[p]
       \/ \E c \in Clients : call[c].op = "mv" /\ call[c].at = "tail" /\ call[c].path = p

IInv == TypeOK /\ CallsNumbered /\ SlotsOK /\ MarkerExact /\ KilledSettled /\ GhostsExplained

(* A call that has committed a version of p and has yet to settle its search  *)
(* data, one that is about to replace p's object and commit, and one that has *)
(* copied an object to p and commits it if it is still there.                 *)
Owns(m, p) ==
    \/ m.op = "write" /\ m.at = "index" /\ m.path = p
    \/ m.op = "mv" /\ m.at \in {"delete", "gone", "tail"} /\ m.to = p
Replaces(m, p) ==
    /\ m.path = p
    /\ \/ m.op \in {"write", "rm"} /\ m.at = "commit"
       \/ m.op = "mv" /\ m.at \in {"delete", "gone"}
Arrives(m, p) == m.op = "mv" /\ m.at = "commit" /\ m.to = p
WillCommit(m, p) ==
    Replaces(m, p) \/ Arrives(m, p) \/ (m.op = "mv" /\ m.at = "commit" /\ m.path = p)
Owed(p) == \E c \in Clients : Owns(call[c], p) /\ call[c].n = row[p].v
Here(p) == [path |-> p, v |-> row[p].v]

(* What will embed a pending file, exactly: a scan that has its batch does    *)
(* not come back for the rows in between, so those need a task of their own.  *)
TextOwner(p) ==
    \/ \E t \in running \cup Waiters : t.by # "image" /\ t.path = p /\ t.v = row[p].v
    \/ mig.at = "warmup" \/ Here(p) \in mig.rows
    \/ mig.at = "rows" /\ mig.rows = {} /\ mig.cursor < p
    \/ gap[p] \cap {"status carried", "not migrated", "left pending"} # {}
ImageOwner(p) ==
    \/ mig.at # "off" \/ scan.rerun = "yes" \/ scan.at = "wait" \/ NewFormat
    \/ scan.at # "off" /\ Here(p) \in scan.rows
    \/ scan.at = "rows" /\ scan.rows = {} /\ scan.cursor < p
    \/ gap[p] \cap {"images stopped", "left pending"} # {}
PendingOwned ==
    up = "yes" => \A p \in Paths : row[p].live = "yes" /\ ~Owed(p) =>
       /\ row[p].text = "pending" => TextOwner(p)
       /\ row[p].image = "pending" /\ conf.excluded = "no" => ImageOwner(p)
MigrationShape ==
    /\ mig.at \in {"off", "warmup", "after"} => mig.rows = {}
    /\ mig.at = "warmup" => mig.cursor = 0
    /\ \A t \in running \cup Waiters :
          t.by = "migration" => t.path = First(mig).path /\ t.v = First(mig).v
PInv == MigrationShape /\ PendingOwned

(* A number is seen at a path only once it is committed there.                *)
Unseen(p, v) == v <= calls /\ \A c \in Clients : WillCommit(call[c], p) => call[c].n # v
NumbersUnseen ==
    /\ \A p \in Paths : Unseen(p, row[p].v)
    /\ \A r \in mig.rows \cup scan.rows : Unseen(r.path, r.v)
    /\ \A c \in Clients : \A r \in call[c].rows : Unseen(r.path, r.v)
    /\ \A t \in running \cup Waiters : Unseen(t.path, t.v)

(* Deleted files and missing objects have no content, and what a call has     *)
(* committed is the content it carries.                                       *)
Moves(m) == m.op = "mv" /\ m.at \in {"delete", "gone", "tail"}
DocsCarried ==
    /\ \A p \in Paths : /\ row[p].live = "no" => row[p].doc = NoDoc
                        /\ obj[p] # NoDoc => obj[p].id # 0
    /\ \A c \in Clients :
          /\ \A p \in Paths : Owns(call[c], p) /\ call[c].n = row[p].v => row[p].doc = call[c].doc
          /\ Moves(call[c]) => /\ call[c].doc.id # 0 /\ call[c].seen <= calls
                               /\ mig.at = "warmup" => call[c].format = meta.format

(* A move whose source nobody else has touched: who comes later has a later   *)
(* number, and a version it commits replaces the one the move has seen.       *)
Undisturbed(c) ==
    /\ call[c].op = "mv" /\ call[c].at \in {"delete", "gone"}
    /\ call[c].gap \cap {"source changed", "interrupted"} = {}
LateComers ==
    \A c \in Clients : Undisturbed(c) =>
       \A d \in Clients \ {c} : Touches(d, call[c].path) =>
          /\ call[d].n > call[c].seen
          /\ WillCommit(call[d], call[c].path) \/ row[call[c].path].v # call[c].seen

(* A move about to take its source's search data, which nobody has taken.     *)
Stale == {"interrupted", "source changed", "source rewritten", "format changed"}
Taking(c) ==
    /\ call[c].op = "mv" /\ call[c].at = "tail"
    /\ call[c].gap \cap Stale = {} /\ ~Rewritten(call[c])
TakesAlone ==
    \A c \in Clients : Taking(c) =>
       \A d \in Clients \ {c} :
          ~(call[d].op = "mv" /\ call[d].at = "tail" /\ call[d].path = call[c].path)
NInv == NumbersUnseen /\ DocsCarried /\ LateComers /\ TakesAlone

(* Formats: of all image chunks, of the text chunks of an indexed file, and   *)
(* of those a move is about to take.                                          *)
ImageFormat == \A p \in Paths : image[p] # NoChunks => image[p].format = meta.format
TextFormat ==
    \A p \in Paths :
       /\ row[p].live = "yes" /\ ~Owed(p) /\ gap[p] \cap (Stale \cup {"foreign format"}) = {}
       /\ row[p].text = "indexed"
       => text[p].format = meta.format
TakenFormat ==
    \A c \in Clients :
       /\ Taking(c) /\ "foreign format" \notin call[c].gap /\ call[c].format = meta.format
       /\ call[c].text = "indexed"
       => text[call[c].path].format = meta.format
FInv == ImageFormat /\ TextFormat /\ TakenFormat

(* Contents: what is embedded, or read to be embedded, is what the row or the *)
(* object holds, or somebody is about to replace it, or a call was cut off    *)
(* here since.                                                                *)
Changing(D, p) ==
    \E d \in D : Replaces(call[d], p) \/ (obj[p] # NoDoc /\ Arrives(call[d], p))
Near(p, id) == id = row[p].doc.id \/ (obj[p] # NoDoc /\ id = obj[p].id) \/ Changing(Clients, p)
Excused(p) ==
    IF Owed(p) THEN \E c \in Clients : /\ Owns(call[c], p) /\ call[c].n = row[p].v
                                       /\ call[c].gap \cap Stale # {}
    ELSE gap[p] \cap Stale # {}
ReadNear(p, v, id) == isCurrent(p, v) => Near(p, id) \/ Excused(p)
ReadsNear ==
    /\ \A t \in running \cup Waiters : ReadNear(t.path, t.v, t.doc.id)
    /\ mig.at = "extract" => ReadNear(First(mig).path, First(mig).v, mig.doc.id)
IndexedNear ==
    \A p \in Paths :
       row[p].live = "yes" /\ ~Owed(p) /\ gap[p] \cap Stale = {} =>
          /\ row[p].text = "indexed" => Near(p, text[p].id)
          /\ row[p].image = "indexed" => Near(p, image[p].id)

(* The same of the source of an undisturbed move, with the content it copied. *)
Copied(c, id) == id = call[c].doc.id \/ Changing(Clients \ {c}, call[c].path)
Following(c) ==
    /\ Undisturbed(c)
    /\ row[call[c].path].v = call[c].seen /\ row[call[c].path].doc.id = call[c].doc.id
SourceCopied ==
    \A c \in Clients : Following(c) /\ gap[call[c].path] \cap Stale = {} =>
       LET p == call[c].path IN
       /\ obj[p] # NoDoc => Copied(c, obj[p].id)
       /\ \A t \in running \cup Waiters :
             t.path = p /\ t.v = call[c].seen => Copied(c, t.doc.id)
       /\ mig.at = "extract" /\ First(mig).path = p /\ First(mig).v = call[c].seen
             => Copied(c, mig.doc.id)
       /\ row[p].text = "indexed" => Copied(c, text[p].id)
       /\ row[p].image = "indexed" => Copied(c, image[p].id)
TakenCopied ==
    \A c \in Clients : Taking(c) =>
       /\ call[c].text = "indexed" => text[call[c].path].id = call[c].doc.id
       /\ call[c].image = "indexed" /\ call[c].format = meta.format /\ conf.excluded = "no"
             => image[call[c].path].id = call[c].doc.id
XInv == ReadsNear /\ IndexedNear /\ SourceCopied /\ TakenCopied
=============================================================================
