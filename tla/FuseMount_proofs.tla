--------------------------- MODULE FuseMount_proofs ---------------------------
(* Theorems about FuseMount, for any mounts, transports, paths, contents,     *)
(* callbacks and faults.                                                      *)
EXTENDS FuseMount, TLAPS

-----------------------------------------------------------------------------
(* Versions are only added, so what is stored stays stored. *)

RowsGrow ==
    \A p \in Paths : /\ Len(rows[p]) <= Len(rows'[p])
                     /\ \A i \in 1 .. Len(rows[p]) : rows'[p][i] = rows[p][i]

LEMMA RowsSame == ASSUME TypeOK, rows' = rows PROVE RowsGrow
  BY DEF TypeOK, RowsGrow

LEMMA RowsAppend ==
  ASSUME TypeOK, NEW p \in Paths, NEW b \in Bytes \cup {None}, rows' = [rows EXCEPT ![p] = Append(@, b)]
  PROVE  /\ RowsGrow /\ rows' \in [Paths -> Seq(Bytes \cup {None})]
         /\ \A q \in Paths \ {p} : rows'[q] = rows[q]
         /\ Len(rows'[p]) = Len(rows[p]) + 1 /\ rows'[p][Len(rows[p]) + 1] = b
         /\ Stored(p, b)'
  <1>1. rows[p] \in Seq(Bytes \cup {None}) /\ rows'[p] = Append(rows[p], b)
    BY DEF TypeOK
  <1>2. /\ Append(rows[p], b) \in Seq(Bytes \cup {None}) /\ Len(Append(rows[p], b)) = Len(rows[p]) + 1
        /\ Append(rows[p], b)[Len(rows[p]) + 1] = b /\ Len(rows[p]) \in Nat
        /\ \A i \in 1 .. Len(rows[p]) : Append(rows[p], b)[i] = rows[p][i]
    BY <1>1
  <1>3. rows' \in [Paths -> Seq(Bytes \cup {None})] /\ \A q \in Paths \ {p} : rows'[q] = rows[q]
    BY <1>1, <1>2 DEF TypeOK
  <1>4. RowsGrow
    <2> SUFFICES ASSUME NEW q \in Paths
                 PROVE  Len(rows[q]) <= Len(rows'[q]) /\ \A i \in 1 .. Len(rows[q]) : rows'[q][i] = rows[q][i]
      BY DEF RowsGrow
    <2>1. CASE q = p
      BY <2>1, <1>1, <1>2
    <2>2. CASE q # p
      BY <2>2, <1>3 DEF TypeOK
    <2> QED
      BY <2>1, <2>2
  <1>5. Stored(p, b)'
    <2>1. DOMAIN rows'[p] = 1 .. Len(rows'[p]) /\ Len(rows'[p]) = Len(rows[p]) + 1 /\ rows'[p][Len(rows'[p])] = b
      BY <1>1, <1>2
    <2>2. Len(rows'[p]) \in DOMAIN rows'[p]
      BY <2>1, <1>2
    <2> QED
      BY <2>1, <2>2 DEF Stored
  <1> QED
    BY <1>1, <1>2, <1>3, <1>4, <1>5

LEMMA StoredStays ==
  ASSUME TypeOK, rows' \in [Paths -> Seq(Bytes \cup {None})], RowsGrow, NEW p \in Paths, NEW b, Stored(p, b)
  PROVE  Stored(p, b)'
  <1>1. PICK i \in DOMAIN rows[p] : rows[p][i] = b
    BY DEF Stored
  <1>2. DOMAIN rows[p] = 1 .. Len(rows[p]) /\ DOMAIN rows'[p] = 1 .. Len(rows'[p]) /\ Len(rows[p]) \in Nat /\ Len(rows'[p]) \in Nat
    BY DEF TypeOK
  <1>3. i \in DOMAIN rows'[p] /\ rows'[p][i] = b
    BY <1>1, <1>2 DEF RowsGrow
  <1> QED
    BY <1>3 DEF Stored

LEMMA FileStays ==
  ASSUME TypeOK, rows' \in [Paths -> Seq(Bytes \cup {None})], RowsGrow, NEW f \in OpenFile, FileOK(f)
  PROVE  FileOK(f)'
  <1>0. f.path \in Paths
    BY DEF OpenFile
  <1>1. Len(rows[f.path]) \in Nat /\ Len(rows'[f.path]) \in Nat
    BY <1>0 DEF TypeOK
  <1>2. f.fresh => f.base # None /\ f.base \in 1 .. HeadVersion(f.path)' /\ rows'[f.path][f.base] = f.saw
    BY <1>0, <1>1 DEF FileOK, RowsGrow, HeadVersion
  <1>3. f.hash = None \/ (f.base = None /\ f.hash = Empty) \/ Stored(f.path, f.hash)'
    BY <1>0, StoredStays DEF FileOK
  <1> QED
    BY <1>2, <1>3 DEF FileOK

-----------------------------------------------------------------------------
(* Steps of a helper, its transport and the faults: at most the callback of   *)
(* one mount changes, requests are dropped, and nothing happens to the data.  *)

Names == {"open_write", "unlink", "rename"}

(* The callback returns, starts or goes on to its next request, or repeats    *)
(* the one it is making.  A name it was changing is forgotten or its listing  *)
(* dropped.                                                                   *)
ChangesDone(m) ==
    \A p \in Paths : Changing(m, p) => mine'[m][p] = "unknown" \/ listing'[m][Parent[p]] = None
CallChange(m) ==
    \/ call'[m] = call[m]
    \/ call'[m] = None /\ ChangesDone(m)
    \/ /\ call'[m] # None /\ call'[m].step # "open_write" /\ ChangesDone(m)
       /\ \A h \in handlers' : h.mount = m => h.id # call'[m].id
    \/ /\ call[m] # None /\ call'[m] # None /\ is_idempotent(call[m].step)
       /\ call'[m].step = call[m].step /\ call'[m].path = call[m].path /\ call'[m].to = call[m].to
       /\ call'[m].id = call[m].id

OpenChange(m) ==
    \/ nextFh' = nextFh /\ \A n \in Mounts : open'[n] \subseteq open[n]
    \/ \E f \in OpenFile :
          /\ FileOK(f) /\ f.fh = nextFh[m]
          /\ open' = [open EXCEPT ![m] = @ \cup {f}]
          /\ nextFh' = [nextFh EXCEPT ![m] = @ + 1]

ListingChange ==
    \A n \in Mounts, p \in Paths :
       /\ mine'[n][p] \in {mine[n][p], "unknown"}
       /\ \/ listing'[n][Parent[p]] \in {listing[n][Parent[p]], None}
          \/ Agrees(n, p, listing'[n][Parent[p]])

HelperStep(m) ==
    /\ UNCHANGED <<object, rows, nextId, commits>>
    /\ handlers' \subseteq handlers
    /\ \A n \in Mounts \ {m} : call'[n] = call[n]
    /\ CallChange(m)
    /\ OpenChange(m)
    /\ ListingChange

LEMMA HelperNumbers == ASSUME IInv, NEW m \in Mounts, HelperStep(m) PROVE RequestsNumbered'
  BY DEF IInv, RequestsNumbered, HelperStep

LEMMA OpenKept ==
  ASSUME IInv, NEW m \in Mounts, OpenChange(m)
  PROVE  /\ \A n \in Mounts : nextFh[n] \in Nat /\ nextFh'[n] \in Nat /\ nextFh[n] <= nextFh'[n]
         /\ \A n \in Mounts : \A f \in open'[n] :
               \/ f \in open[n]
               \/ f \in OpenFile /\ FileOK(f) /\ f.fh = nextFh[n] /\ nextFh[n] < nextFh'[n]
         /\ \A n \in Mounts : \A f, g \in open'[n] : f \notin open[n] /\ g \notin open[n] => f = g
  <1>1. open \in [Mounts -> SUBSET OpenFile] /\ nextFh \in [Mounts -> Nat]
    BY DEF IInv, TypeOK
  <1>2. CASE nextFh' = nextFh /\ \A n \in Mounts : open'[n] \subseteq open[n]
    BY <1>1, <1>2
  <1>3. CASE ~(nextFh' = nextFh /\ \A n \in Mounts : open'[n] \subseteq open[n])
    <2>1. PICK f \in OpenFile : /\ FileOK(f) /\ f.fh = nextFh[m]
                                /\ open' = [open EXCEPT ![m] = @ \cup {f}]
                                /\ nextFh' = [nextFh EXCEPT ![m] = @ + 1]
      BY <1>3 DEF OpenChange
    <2>2. nextFh'[m] = nextFh[m] + 1 /\ \A n \in Mounts \ {m} : nextFh'[n] = nextFh[n] /\ open'[n] = open[n]
      BY <2>1, <1>1
    <2>3. open'[m] = open[m] \cup {f}
      BY <2>1, <1>1
    <2> QED
      BY <2>1, <2>2, <2>3, <1>1
  <1> QED
    BY <1>2, <1>3

(* A close under way is the one that was under way before. *)
LEMMA ClosingKept ==
  ASSUME NEW m \in Mounts, HelperStep(m), NEW n \in Mounts, Closing(n)'
  PROVE  call'[n] = call[n] /\ Closing(n)
  BY DEF HelperStep, CallChange, Closing, is_idempotent

LEMMA HelperFiles == ASSUME IInv, NEW m \in Mounts, HelperStep(m) PROVE FilesSound'
  <1>0. rows' = rows /\ OpenChange(m) /\ commits' = commits /\ handlers' \subseteq handlers
    BY DEF HelperStep
  <1>1. \A f : FileOK(f)' <=> FileOK(f)
    BY <1>0 DEF FileOK, Stored, HeadVersion
  <1>2. \A n \in Mounts : \A f \in open'[n] : FileOK(f)'
    BY <1>0, <1>1, OpenKept DEF IInv, FilesSound
  <1>3. ASSUME NEW n \in Mounts, Closing(n)'
        PROVE  (/\ call[n].file \in OpenFile /\ FileOK(call[n].file)
                /\ call[n].path = call[n].file.path /\ call[n].to = call[n].path)'
    <2>1. call'[n] = call[n] /\ Closing(n)
      BY <1>3, ClosingKept
    <2>2. /\ call[n].file \in OpenFile /\ FileOK(call[n].file)
          /\ call[n].path = call[n].file.path /\ call[n].to = call[n].path
      BY <2>1 DEF IInv, FilesSound
    <2>3. FileOK(call[n].file)'
      BY <2>1, <2>2, <1>0 DEF FileOK, Stored, HeadVersion
    <2> QED
      BY <2>1, <2>2, <2>3
  <1>4. \A h \in handlers' : Writes(h) =>
          /\ h.file \in OpenFile /\ FileOK(h.file)'
          /\ h.path = h.file.path /\ h.to = h.path /\ h.bytes = h.file.bytes
    BY <1>0, <1>1 DEF IInv, FilesSound
  <1>5. \A c \in commits' : /\ FileOK(c.file)' /\ c.path = c.file.path
                            /\ c.file.fresh /\ ~c.raced => c.version = c.file.base + 1
    BY <1>0, <1>1 DEF IInv, FilesSound
  <1> QED
    BY <1>2, <1>3, <1>4, <1>5 DEF FilesSound, Writes

LEMMA HelperHandlers == ASSUME IInv, NEW m \in Mounts, HelperStep(m) PROVE HandlersSound'
  <1>0. rows' = rows /\ handlers' \subseteq handlers
    BY DEF HelperStep
  <1>1. ASSUME NEW h, HandlerSound(h) PROVE HandlerSound(h)'
    BY <1>0, <1>1 DEF HandlerSound, Writes, Stored, HeadVersion
  <1> QED
    BY <1>0, <1>1 DEF IInv, HandlersSound

LEMMA HelperHandles == ASSUME IInv, NEW m \in Mounts, HelperStep(m) PROVE HandlesApart' /\ AppliedOnce'
  <1>0. OpenChange(m) /\ commits' = commits /\ handlers' \subseteq handlers
    BY DEF HelperStep
  <1>1. HandlesApart
    BY DEF IInv
  <1>2. /\ \A n \in Mounts : nextFh[n] \in Nat /\ nextFh'[n] \in Nat /\ nextFh[n] <= nextFh'[n]
        /\ \A n \in Mounts : \A f \in open'[n] :
               f \in open[n] \/ (f \in OpenFile /\ f.fh = nextFh[n] /\ nextFh[n] < nextFh'[n])
        /\ \A n \in Mounts : \A f, g \in open'[n] : f \notin open[n] /\ g \notin open[n] => f = g
    BY <1>0, OpenKept
  <1>3. \A n \in Mounts : \A f \in open[n] : f.fh \in Nat /\ f.fh < nextFh[n]
    BY <1>1 DEF HandlesApart, IInv, TypeOK, OpenFile
  <1>4. ASSUME NEW n \in Mounts, NEW f \in open'[n]
        PROVE  f.fh < nextFh'[n] /\ \A g \in open'[n] : f.fh = g.fh => f = g
    BY <1>1, <1>2, <1>3 DEF HandlesApart
  <1>5. ASSUME NEW n \in Mounts, NEW k \in Nat, k < nextFh[n], \A f \in open[n] : f.fh # k
        PROVE  k < nextFh'[n] /\ \A f \in open'[n] : f.fh # k
    BY <1>2, <1>5
  <1>6. ASSUME NEW n \in Mounts, Closing(n)'
        PROVE  /\ call'[n].file.fh < nextFh'[n]
               /\ \A f \in open'[n] : f.fh # call'[n].file.fh
               /\ call'[n].stage = "send" =>
                    /\ \A h \in handlers' : Writes(h) /\ h.mount = n => h.file.fh # call'[n].file.fh
                    /\ \A c \in commits' : c.mount = n => c.file.fh # call'[n].file.fh
    <2>1. call'[n] = call[n] /\ Closing(n)
      BY <1>6, ClosingKept
    <2>2. call[n].file.fh \in Nat
      BY <2>1 DEF IInv, FilesSound, OpenFile
    <2>3. call[n].file.fh < nextFh[n] /\ \A f \in open[n] : f.fh # call[n].file.fh
      BY <2>1, <1>1 DEF HandlesApart
    <2>4. call[n].file.fh < nextFh'[n] /\ \A f \in open'[n] : f.fh # call[n].file.fh
      BY <2>2, <2>3, <1>5
    <2> QED
      BY <2>1, <2>4, <1>0, <1>1 DEF HandlesApart
  <1>7. ASSUME NEW h \in handlers', Writes(h)
        PROVE  /\ h.file.fh < nextFh'[h.mount]
               /\ \A f \in open'[h.mount] : f.fh # h.file.fh
               /\ \A g \in handlers' : Writes(g) /\ g.mount = h.mount /\ g.file.fh = h.file.fh => g.id = h.id
               /\ h.next # "reply" => \A c \in commits' : c.mount = h.mount => c.file.fh # h.file.fh
    <2>1. h \in handlers /\ h.mount \in Mounts /\ h.file.fh \in Nat
      BY <1>0, <1>7 DEF IInv, TypeOK, Handler, FilesSound, OpenFile
    <2>2. h.file.fh < nextFh[h.mount] /\ \A f \in open[h.mount] : f.fh # h.file.fh
      BY <2>1, <1>1, <1>7 DEF HandlesApart
    <2> QED
      BY <2>1, <2>2, <1>0, <1>1, <1>5, <1>7 DEF HandlesApart
  <1>8. ASSUME NEW c \in commits'
        PROVE  c.file.fh < nextFh'[c.mount] /\ \A f \in open'[c.mount] : f.fh # c.file.fh
    <2>1. c \in commits /\ c.mount \in Mounts /\ c.file.fh \in Nat
      BY <1>0, <1>8 DEF IInv, TypeOK, OpenFile
    <2>2. c.file.fh < nextFh[c.mount] /\ \A f \in open[c.mount] : f.fh # c.file.fh
      BY <2>1, <1>1 DEF HandlesApart
    <2> QED
      BY <2>1, <2>2, <1>5
  <1>9. HandlesApart'
    BY <1>4, <1>6, <1>7, <1>8 DEF HandlesApart, Writes
  <1> QED
    BY <1>0, <1>9 DEF IInv, AppliedOnce

(* A request that is awaited was awaited before. *)
LEMMA CurrentKept ==
  ASSUME IInv, NEW m \in Mounts, HelperStep(m), NEW h \in handlers', Current(h)'
  PROVE  /\ h \in handlers /\ h.mount \in Mounts /\ Current(h)
         /\ \/ call'[h.mount] = call[h.mount]
            \/ /\ call'[h.mount].step = call[h.mount].step /\ is_idempotent(call[h.mount].step)
               /\ call'[h.mount].path = call[h.mount].path /\ call'[h.mount].to = call[h.mount].to
  <1>1. h \in handlers /\ h.mount \in Mounts
    BY DEF HelperStep, IInv, TypeOK, Handler
  <1>2. CASE h.mount # m
    BY <1>1, <1>2 DEF HelperStep, Current
  <1>3. CASE h.mount = m
    BY <1>1, <1>3 DEF HelperStep, CallChange, Current
  <1> QED
    BY <1>1, <1>2, <1>3

LEMMA HelperMatching == ASSUME IInv, NEW m \in Mounts, HelperStep(m) PROVE Matching'
  <1> SUFFICES ASSUME NEW h \in handlers', Current(h)'
               PROVE  /\ call'[h.mount].step = h.op /\ call'[h.mount].path = h.path /\ call'[h.mount].to = h.to
                      /\ ~is_idempotent(h.op) => call'[h.mount].stage = "wait"
    BY DEF Matching, is_idempotent
  <1>1. /\ h \in handlers /\ Current(h)
        /\ \/ call'[h.mount] = call[h.mount]
           \/ /\ call'[h.mount].step = call[h.mount].step /\ is_idempotent(call[h.mount].step)
              /\ call'[h.mount].path = call[h.mount].path /\ call'[h.mount].to = call[h.mount].to
    BY CurrentKept
  <1>2. /\ call[h.mount].step = h.op /\ call[h.mount].path = h.path /\ call[h.mount].to = h.to
        /\ ~is_idempotent(h.op) => call[h.mount].stage = "wait"
    BY <1>1 DEF IInv, Matching
  <1> QED
    BY <1>1, <1>2

LEMMA HelperChanging ==
  ASSUME IInv, NEW m \in Mounts, HelperStep(m), NEW n \in Mounts, NEW p \in Paths, Changing(n, p)
  PROVE  Changing(n, p)' \/ mine'[n][p] = "unknown" \/ listing'[n][Parent[p]] = None
  <1>0. handlers' \subseteq handlers
    BY DEF HelperStep
  <1>1. CASE call'[n] = call[n]
    BY <1>0, <1>1 DEF Changing
  <1>2. CASE call'[n] # call[n]
    <2>1. n = m /\ ~is_idempotent(call[n].step)
      BY <1>2 DEF HelperStep, Changing, is_idempotent
    <2> QED
      BY <1>2, <2>1 DEF HelperStep, CallChange, ChangesDone
  <1> QED
    BY <1>1, <1>2

LEMMA HelperListings == ASSUME IInv, NEW m \in Mounts, HelperStep(m) PROVE ListingsAgree'
  <1>0. object' = object /\ ListingChange
    BY DEF HelperStep
  <1>1. ASSUME NEW n \in Mounts, NEW p \in Paths, NEW S, Agrees(n, p, S) PROVE Agrees(n, p, S)'
    BY <1>0, <1>1 DEF ListingChange, Agrees
  <1>2. ASSUME NEW n \in Mounts, NEW p \in Paths
        PROVE  /\ mine'[n][p] = "present" => object'[p] # None
               /\ mine'[n][p] = "absent" => object'[p] = None
    BY <1>0 DEF ListingChange, IInv, ListingsAgree
  <1>3. ASSUME NEW n \in Mounts, NEW p \in Paths, listing'[n][Parent[p]] # None
        PROVE  Agrees(n, p, listing[n][Parent[p]])' \/ Changing(n, p)'
    <2>1. PICK S : S = listing'[n][Parent[p]]
      OBVIOUS
    <2>2. CASE Agrees(n, p, S)
      BY <2>1, <2>2, <1>1 DEF Agrees
    <2>3. CASE ~Agrees(n, p, S)
      <3>1. listing'[n][Parent[p]] = listing[n][Parent[p]]
        BY <2>1, <2>3, <1>0, <1>3 DEF ListingChange
      <3>2. Changing(n, p)
        BY <2>1, <2>3, <3>1, <1>3 DEF IInv, ListingsAgree
      <3>3. Changing(n, p)' \/ mine'[n][p] = "unknown"
        BY <3>2, <1>3, HelperChanging
      <3> QED
        BY <3>3 DEF Agrees
    <2> QED
      BY <2>2, <2>3
  <1>4. ASSUME NEW h \in handlers', h.op = "read_dir", h.next = "reply", h.res = "ok", Current(h)',
               NEW p \in Paths, Parent[p] = Parent[h.path]
        PROVE  Agrees(h.mount, p, h.names)'
    <2>1. h \in handlers /\ h.mount \in Mounts /\ Current(h)
      BY <1>4, CurrentKept
    <2>2. Agrees(h.mount, p, h.names)
      BY <2>1, <1>4 DEF IInv, ListingsAgree
    <2> QED
      BY <2>1, <2>2, <1>1
  <1> QED
    BY <1>2, <1>3, <1>4 DEF ListingsAgree

LEMMA HelperKeeps ==
  ASSUME IInv, NEW m \in Mounts, HelperStep(m), TypeOK', SavedIsStored'
  PROVE  IInv'
  BY HelperNumbers, HelperFiles, HelperHandlers, HelperHandles, HelperMatching, HelperListings DEF IInv

-----------------------------------------------------------------------------
(* Callbacks without a file, and requests that end without an answer. *)

Marks == {"unknown", "present", "absent"}

LEMMA CallUpdate ==
  ASSUME TypeOK, NEW m \in Mounts, NEW r \in Call \cup {None}, call' = [call EXCEPT ![m] = r]
  PROVE  call' \in [Mounts -> Call \cup {None}] /\ call'[m] = r /\ \A n \in Mounts \ {m} : call'[n] = call[n]
  BY DEF TypeOK

LEMMA ListingsStay == ASSUME UNCHANGED <<mine, listing>> PROVE ListingChange
  BY DEF ListingChange

LEMMA StoredSame == ASSUME IInv, UNCHANGED <<rows, closes>> PROVE SavedIsStored'
  BY DEF IInv, SavedIsStored

LEMMA StartKeeps ==
  ASSUME IInv, NEW m \in Mounts, NEW k, NEW p \in Paths, NEW q \in Paths, NEW step \in Requests \ {"open_write"},
         Start(m, k, p, q, None, step), UNCHANGED <<daemon, wire, open, nextFh, listing, nextId, faults, history>>
  PROVE  IInv'
  <1> DEFINE r == [kind |-> k, path |-> p, to |-> q, file |-> None, step |-> step, stage |-> "send",
                   attempts |-> 0, id |-> 0]
  <1>1. call' = [call EXCEPT ![m] = r] /\ call[m] = None /\ calls < MaxCalls /\ calls' = calls + 1
    BY DEF Start
  <1>2. r \in Call /\ r.step # "open_write" /\ r.id = 0 /\ r # None
    <2>1. k \in Kinds
      BY CallbacksAssumption DEF Start
    <2>2. r \in Call
      BY <2>1 DEF Call
    <2> QED
      BY <2>2, NoneAssumption
  <1> HIDE DEF r
  <1>3. call' \in [Mounts -> Call \cup {None}] /\ call'[m] = r /\ \A n \in Mounts \ {m} : call'[n] = call[n]
    BY <1>1, <1>2, CallUpdate DEF IInv
  <1>4. calls' \in 0 .. MaxCalls
    BY <1>1, BoundsAssumption DEF IInv, TypeOK
  <1>5. TypeOK'
    BY <1>3, <1>4 DEF IInv, TypeOK, daemon, wire, history
  <1>6. CallChange(m)
    <2>1. \A x \in Paths : ~Changing(m, x)
      BY <1>1 DEF Changing
    <2>2. \A h \in handlers' : h.mount = m => h.id # 0
      BY DEF daemon, IInv, RequestsNumbered
    <2> QED
      BY <2>1, <2>2, <1>2, <1>3 DEF CallChange, ChangesDone
  <1>7. HelperStep(m)
    BY <1>3, <1>6, ListingsStay DEF HelperStep, OpenChange, daemon, history
  <1> QED
    BY <1>5, <1>7, HelperKeeps, StoredSame DEF daemon, history

LEMMA OpenKeeps == ASSUME IInv, NEW m \in Mounts, NEW p \in Paths, Open(m, p) PROVE IInv'
  <1>1. PICK step \in {"get_attr", "open_read"} : Start(m, "open", p, p, None, step)
    BY DEF Open
  <1>2. step \in Requests \ {"open_write"}
    BY DEF Requests
  <1> QED
    BY <1>1, <1>2, StartKeeps DEF Open

LEMMA NamesKeep ==
  ASSUME IInv, NEW m \in Mounts, NEW p \in Paths, NEW q \in Paths, ReadDir(m, p) \/ Unlink(m, p) \/ Rename(m, p, q)
  PROVE  IInv'
  <1>0. "read_dir" \in Requests \ {"open_write"} /\ "unlink" \in Requests \ {"open_write"} /\ "rename" \in Requests \ {"open_write"}
    BY DEF Requests
  <1>1. CASE ReadDir(m, p)
    BY <1>0, <1>1, StartKeeps DEF ReadDir
  <1>2. CASE Unlink(m, p)
    BY <1>0, <1>2, StartKeeps DEF Unlink
  <1>3. CASE Rename(m, p, q)
    BY <1>0, <1>3, StartKeeps DEF Rename
  <1> QED
    BY <1>1, <1>2, <1>3

LEMMA Forgotten ==
  ASSUME TypeOK, NEW m \in Mounts, NEW ps \in SUBSET Paths, Forget(m, ps)
  PROVE  /\ mine' \in [Mounts -> [Paths -> Marks]]
         /\ \A n \in Mounts, p \in Paths : mine'[n][p] \in {mine[n][p], "unknown"}
         /\ \A p \in ps : mine'[m][p] = "unknown"
  <1>1. mine \in [Mounts -> [Paths -> Marks]]
    BY DEF TypeOK, Marks
  <1>2. mine' = [mine EXCEPT ![m] = [p \in Paths |-> IF p \in ps THEN "unknown" ELSE mine[m][p]]]
    BY DEF Forget
  <1>3. [p \in Paths |-> IF p \in ps THEN "unknown" ELSE mine[m][p]] \in [Paths -> Marks]
    BY <1>1 DEF Marks
  <1>4. /\ mine'[m] = [p \in Paths |-> IF p \in ps THEN "unknown" ELSE mine[m][p]]
        /\ \A n \in Mounts \ {m} : mine'[n] = mine[n]
        /\ mine' \in [Mounts -> [Paths -> Marks]]
    BY <1>1, <1>2, <1>3
  <1> QED
    BY <1>4

(* A request that ends without an answer is repeated, or its callback returns *)
(* and forgets what it may have changed.                                      *)
LEMMA FailStep ==
  ASSUME IInv, NEW m \in Mounts, NEW outcome, call[m] # None, Fail(m, outcome),
         UNCHANGED <<object, rows, nextId, commits, handlers, open, nextFh, listing>>
  PROVE  /\ HelperStep(m) /\ call' \in [Mounts -> Call \cup {None}]
         /\ mine' \in [Mounts -> [Paths -> Marks]] /\ closes' = closes
  <1>0. call[m] \in Call /\ mine \in [Mounts -> [Paths -> Marks]]
    BY DEF IInv, TypeOK, Marks
  <1>1. CASE Retryable(call[m], outcome)
    <2> DEFINE r == [call[m] EXCEPT !.attempts = @ + 1, !.stage = "send"]
    <2>1. call' = [call EXCEPT ![m] = r] /\ UNCHANGED <<closes, mine>>
      BY <1>0, <1>1 DEF Fail, IInv, TypeOK
    <2>2. /\ r \in Call /\ r.step = call[m].step /\ r.path = call[m].path /\ r.to = call[m].to
          /\ r.id = call[m].id /\ is_idempotent(call[m].step)
      <3>1. call[m].attempts \in 0 .. 2 /\ call[m].attempts < 2 /\ is_idempotent(call[m].step)
        BY <1>0, <1>1 DEF Call, Retryable
      <3>2. call[m].attempts + 1 \in 0 .. 2
        BY <3>1
      <3>3. /\ r \in Call /\ r.step = call[m].step /\ r.path = call[m].path /\ r.to = call[m].to
            /\ r.id = call[m].id
        BY <3>2, <1>0 DEF Call
      <3> QED
        BY <3>1, <3>3
    <2> HIDE DEF r
    <2>3. call' \in [Mounts -> Call \cup {None}] /\ call'[m] = r /\ \A n \in Mounts \ {m} : call'[n] = call[n]
      BY <2>1, <2>2, CallUpdate DEF IInv
    <2>4. CallChange(m)
      BY <2>2, <2>3, NoneAssumption DEF CallChange
    <2> QED
      BY <2>1, <2>3, <2>4, <1>0, ListingsStay DEF HelperStep, OpenChange
  <1>2. CASE ~Retryable(call[m], outcome)
    <2>1. call' = [call EXCEPT ![m] = None] /\ closes' = closes
      BY <1>2 DEF Fail
    <2>2. call' \in [Mounts -> Call \cup {None}] /\ call'[m] = None /\ \A n \in Mounts \ {m} : call'[n] = call[n]
      BY <2>1, CallUpdate DEF IInv
    <2>3. /\ mine' \in [Mounts -> [Paths -> Marks]]
          /\ \A n \in Mounts, p \in Paths : mine'[n][p] \in {mine[n][p], "unknown"}
          /\ is_idempotent(call[m].step) \/ \A p \in {call[m].path, call[m].to} : mine'[m][p] = "unknown"
      <3>1. CASE is_idempotent(call[m].step)
        BY <3>1, <1>0, <1>2 DEF Fail
      <3>2. CASE ~is_idempotent(call[m].step)
        <4>1. PICK ps \in SUBSET Paths : ps = {call[m].path, call[m].to}
          BY <1>0 DEF Call
        <4>2. Forget(m, ps)
          BY <3>2, <4>1, <1>2 DEF Fail
        <4> QED
          BY <4>1, <4>2, Forgotten DEF IInv
      <3> QED
        BY <3>1, <3>2
    <2>4. CallChange(m)
      BY <2>2, <2>3 DEF CallChange, ChangesDone, Changing, is_idempotent
    <2>5. ListingChange
      BY <2>3 DEF ListingChange
    <2> QED
      BY <2>1, <2>2, <2>3, <2>4, <2>5 DEF HelperStep, OpenChange
  <1> QED
    BY <1>1, <1>2

LEMMA SendFailsKeeps == ASSUME IInv, NEW m \in Mounts, SendFails(m) PROVE IInv'
  <1>1. call[m] # None /\ Fail(m, "err") /\ UNCHANGED <<daemon, wire, open, nextFh, listing, nextId, calls, faults, commits>>
    BY DEF SendFails
  <1>2. /\ HelperStep(m) /\ call' \in [Mounts -> Call \cup {None}]
        /\ mine' \in [Mounts -> [Paths -> Marks]] /\ closes' = closes
    BY <1>1, FailStep DEF daemon
  <1>3. TypeOK'
    BY <1>1, <1>2 DEF IInv, TypeOK, daemon, wire, Marks
  <1> QED
    BY <1>1, <1>2, <1>3, StoredSame, HelperKeeps DEF daemon

LEMMA DrainTyped ==
  ASSUME TypeOK, NEW m \in Mounts, draining[m] > 0, draining' = [draining EXCEPT ![m] = @ - 1]
  PROVE  draining' \in [Mounts -> Nat]
  BY DEF TypeOK

LEMMA DrainKeeps == ASSUME IInv, NEW m \in Mounts, Drain(m) PROVE IInv'
  <1>1. draining' \in [Mounts -> Nat]
    BY DrainTyped DEF Drain, IInv
  <1>2. UNCHANGED <<daemon, sock, connNo, torn, open, nextFh, listing, nextId, calls, faults, commits>>
    BY DEF Drain
  <1>3. CASE Waiting(m)
    <2>1. call[m] # None /\ Fail(m, "disconnected")
      BY <1>3 DEF Drain, Waiting
    <2>2. /\ HelperStep(m) /\ call' \in [Mounts -> Call \cup {None}]
          /\ mine' \in [Mounts -> [Paths -> Marks]] /\ closes' = closes
      BY <2>1, <1>2, FailStep DEF daemon
    <2>3. TypeOK'
      BY <1>1, <1>2, <2>2 DEF IInv, TypeOK, daemon, Marks
    <2> QED
      BY <1>2, <2>2, <2>3, StoredSame, HelperKeeps DEF daemon
  <1>4. CASE ~Waiting(m)
    <2>1. UNCHANGED <<call, closes, mine>>
      BY <1>4 DEF Drain
    <2>2. TypeOK'
      BY <1>1, <1>2, <2>1 DEF IInv, TypeOK, daemon
    <2>3. HelperStep(m)
      BY <1>2, <2>1, ListingsStay DEF HelperStep, CallChange, OpenChange, daemon
    <2> QED
      BY <1>2, <2>1, <2>2, <2>3, StoredSame, HelperKeeps DEF daemon
  <1> QED
    BY <1>3, <1>4

LEMMA TimeOutKeeps == ASSUME IInv, NEW m \in Mounts, TimeOut(m) PROVE IInv'
  <1>1. call[m] # None /\ Fail(m, "err") /\ UNCHANGED <<daemon, wire, open, nextFh, listing, nextId, calls, commits>>
    BY DEF TimeOut, Waiting
  <1>2. /\ HelperStep(m) /\ call' \in [Mounts -> Call \cup {None}]
        /\ mine' \in [Mounts -> [Paths -> Marks]] /\ closes' = closes
    BY <1>1, FailStep DEF daemon
  <1>3. faults' \in 0 .. MaxFaults
    <2>1. faults \in 0 .. MaxFaults /\ (faults' = faults \/ (faults < MaxFaults /\ faults' = faults + 1))
      BY DEF TimeOut, Fault, IInv, TypeOK
    <2> QED
      BY <2>1, BoundsAssumption
  <1>4. TypeOK'
    BY <1>1, <1>2, <1>3 DEF IInv, TypeOK, daemon, wire, Marks
  <1> QED
    BY <1>1, <1>2, <1>4, StoredSame, HelperKeeps DEF daemon

(* The connection changes, the daemon dies or comes up, an answer goes        *)
(* nowhere: no callback notices.                                              *)
LEMMA WireKeeps ==
  ASSUME IInv, UNCHANGED <<object, rows, helper, nextId, calls, history>>,
         handlers' \subseteq handlers, up' \in BOOLEAN, sock' \in [Mounts -> {"none", "up", "broken"}],
         connNo' = connNo, draining' \in [Mounts -> Nat], torn' \subseteq Mounts \X Nat, faults' \in 0 .. MaxFaults
  PROVE  IInv'
  <1>1. TypeOK'
    BY DEF IInv, TypeOK, helper, history
  <1>2. SavedIsStored'
    BY StoredSame DEF history
  <1>3. CASE Mounts = {}
    <2>1. handlers' = {} /\ commits' = {}
      BY <1>1, <1>3 DEF TypeOK, Handler
    <2> QED
      BY <1>1, <1>2, <1>3, <2>1 DEF IInv, RequestsNumbered, FilesSound, HandlersSound, HandlesApart, AppliedOnce,
         Matching, ListingsAgree
  <1>4. ASSUME NEW m \in Mounts PROVE IInv'
    <2>1. HelperStep(m)
      BY ListingsStay DEF HelperStep, CallChange, OpenChange, helper, history
    <2> QED
      BY <1>1, <1>2, <2>1, HelperKeeps
  <1> QED
    BY <1>3, <1>4

LEMMA NoticeLossKeeps == ASSUME IInv, NEW m \in Mounts, NoticeLoss(m) PROVE IInv'
  <1>1. /\ sock' \in [Mounts -> {"none", "up", "broken"}] /\ draining' \in [Mounts -> Nat]
    BY DEF NoticeLoss, IInv, TypeOK
  <1> QED
    BY <1>1, WireKeeps DEF NoticeLoss, daemon, IInv, TypeOK

LEMMA MoreFaults ==
  ASSUME TypeOK, NEW k, Fault(k) PROVE faults' \in 0 .. MaxFaults
  BY BoundsAssumption DEF TypeOK, Fault

(* A request that is given up is one the mount is making. *)
LEMMA MoreTorn ==
  ASSUME IInv, NEW m \in Mounts, NEW h \in handlers, h.mount = m, Reaches(h), torn' = torn \cup {<<m, call[m].id>>}
  PROVE  torn' \subseteq Mounts \X Nat
  <1>1. call[m] \in Call
    BY DEF Reaches, Current, IInv, TypeOK
  <1>2. call[m].id \in Nat
    BY <1>1 DEF Call
  <1> QED
    BY <1>2 DEF IInv, TypeOK

LEMMA DisconnectKeeps == ASSUME IInv, NEW m \in Mounts, Disconnect(m) PROVE IInv'
  <1>1. sock' \in [Mounts -> {"none", "up", "broken"}] /\ faults' \in 0 .. MaxFaults
    BY MoreFaults DEF Disconnect, IInv, TypeOK
  <1> QED
    BY <1>1, WireKeeps DEF Disconnect, daemon, IInv, TypeOK

LEMMA CrashKeeps == ASSUME IInv, Crash \/ \E m \in Mounts : CrashInFrame(m) PROVE IInv'
  <1>1. faults' \in 0 .. MaxFaults
    BY MoreFaults DEF Crash, CrashInFrame, IInv
  <1>2. sock' \in [Mounts -> {"none", "up", "broken"}]
    BY DEF Crash, CrashInFrame, IInv, TypeOK
  <1>3. torn' \subseteq Mounts \X Nat /\ draining' \in [Mounts -> Nat]
    BY MoreTorn DEF Crash, CrashInFrame, IInv, TypeOK
  <1>4. up' \in BOOLEAN /\ handlers' \subseteq handlers
    BY DEF Crash, CrashInFrame
  <1> QED
    BY <1>1, <1>2, <1>3, <1>4, WireKeeps DEF Crash, CrashInFrame

LEMMA GiveUpKeeps == ASSUME IInv, NEW m \in Mounts, GiveUp(m) PROVE IInv'
  <1>1. PICK h \in handlers :
          /\ h.mount = m /\ Reaches(h) /\ handlers' = handlers \ {h}
          /\ \/ Fault("long answer") /\ sock' = [sock EXCEPT ![m] = "none"]
             \/ Fault("bad answer") /\ UNCHANGED sock
    BY DEF GiveUp
  <1>2. faults' \in 0 .. MaxFaults
    BY <1>1, MoreFaults DEF IInv
  <1>3. sock' \in [Mounts -> {"none", "up", "broken"}]
    BY <1>1 DEF IInv, TypeOK
  <1>4. torn' \subseteq Mounts \X Nat
    BY <1>1, MoreTorn DEF GiveUp
  <1> QED
    BY <1>1, <1>2, <1>3, <1>4, WireKeeps DEF GiveUp, IInv, TypeOK

LEMMA RestartKeeps == ASSUME IInv, Restart PROVE IInv'
  <1>1. up' \in BOOLEAN
    BY DEF Restart
  <1> QED
    BY <1>1, WireKeeps DEF Restart, wire, IInv, TypeOK

LEMMA DropAnswerKeeps == ASSUME IInv, NEW m \in Mounts, DropAnswer(m) PROVE IInv'
  BY WireKeeps DEF DropAnswer, wire, IInv, TypeOK

-----------------------------------------------------------------------------
(* Answers. *)

LEMMA Delivered ==
  ASSUME IInv, NEW h \in handlers, NEW m \in Mounts, m = h.mount, Deliver(h)
  PROVE  /\ handlers' \subseteq handlers /\ h.next = "reply" /\ h.path \in Paths /\ h.to \in Paths
         /\ call[m] \in Call /\ call[m] # None /\ call[m].step = h.op /\ call[m].path = h.path /\ call[m].to = h.to
         /\ \A g \in handlers' : g.mount = m => g.id # call[m].id
         /\ h.res # "ok" \/ h.op \notin Names => \A p \in Paths : ~Changing(m, p)
         /\ UNCHANGED <<object, rows, up, wire, nextId, calls, faults, commits>>
  <1>1. /\ handlers' = handlers \ {h} /\ h.next = "reply" /\ Current(h)
        /\ UNCHANGED <<object, rows, up, wire, nextId, calls, faults, commits>>
    BY DEF Deliver, Reaches
  <1>2. h \in Handler /\ h.path \in Paths /\ h.to \in Paths
    BY DEF IInv, TypeOK, Handler
  <1>3. call[m] # None /\ call[m].id = h.id /\ call[m] \in Call
    BY <1>1 DEF Current, IInv, TypeOK
  <1>4. call[m].step = h.op /\ call[m].path = h.path /\ call[m].to = h.to
    BY <1>1 DEF IInv, Matching
  <1>5. \A g \in handlers' : g.mount = m => g.id # call[m].id
    BY <1>1, <1>3 DEF IInv, RequestsNumbered
  <1>6. h.res # "ok" \/ h.op \notin Names => \A p \in Paths : ~Changing(m, p)
    BY <1>3, <1>4 DEF Changing, Names
  <1> QED
    BY <1>1, <1>2, <1>3, <1>4, <1>5, <1>6

LEMMA ContinueTyped ==
  ASSUME TypeOK, NEW m \in Mounts, call[m] \in Call, NEW step \in Requests \ {"open_write"}, Continue(m, step)
  PROVE  /\ call' \in [Mounts -> Call \cup {None}] /\ \A n \in Mounts \ {m} : call'[n] = call[n]
         /\ call'[m] # None /\ call'[m].step # "open_write" /\ call'[m].id = call[m].id
  <1> DEFINE r == [call[m] EXCEPT !.step = step, !.stage = "send", !.attempts = 0]
  <1>1. call' = [call EXCEPT ![m] = r]
    BY DEF Continue, TypeOK
  <1>2. r \in Call /\ r.step = step /\ r.id = call[m].id
    <2>1. 0 \in 0 .. 2 /\ "send" \in {"send", "wait"} /\ step \in Requests
      OBVIOUS
    <2> QED
      BY <2>1 DEF Call
  <1> HIDE DEF r
  <1>3. call' \in [Mounts -> Call \cup {None}] /\ call'[m] = r /\ \A n \in Mounts \ {m} : call'[n] = call[n]
    BY <1>1, <1>2, CallUpdate
  <1> QED
    BY <1>2, <1>3, NoneAssumption

LEMMA ReturnTyped ==
  ASSUME TypeOK, NEW m \in Mounts, Return(m)
  PROVE  /\ call' \in [Mounts -> Call \cup {None}] /\ \A n \in Mounts \ {m} : call'[n] = call[n]
         /\ call'[m] = None
  BY CallUpdate DEF Return

LEMMA InvalidateTyped ==
  ASSUME TypeOK, NEW m \in Mounts, NEW ds, Invalidate(m, ds)
  PROVE  /\ listing' \in [Mounts -> [Dirs -> (SUBSET Paths) \cup {None}]]
         /\ \A n \in Mounts, d \in Dirs : listing'[n][d] \in {listing[n][d], None}
         /\ \A d \in Dirs : d \in ds => listing'[m][d] = None
  <1>1. listing \in [Mounts -> [Dirs -> (SUBSET Paths) \cup {None}]]
    BY DEF TypeOK
  <1>2. listing' = [listing EXCEPT ![m] = [d \in Dirs |-> IF d \in ds THEN None ELSE listing[m][d]]]
    BY DEF Invalidate
  <1>3. [d \in Dirs |-> IF d \in ds THEN None ELSE listing[m][d]] \in [Dirs -> (SUBSET Paths) \cup {None}]
    BY <1>1
  <1>4. /\ listing'[m] = [d \in Dirs |-> IF d \in ds THEN None ELSE listing[m][d]]
        /\ \A n \in Mounts \ {m} : listing'[n] = listing[n]
        /\ listing' \in [Mounts -> [Dirs -> (SUBSET Paths) \cup {None}]]
    BY <1>1, <1>2, <1>3
  <1> QED
    BY <1>4

LEMMA AnswerTyped ==
  ASSUME TypeOK, handlers' \subseteq handlers, UNCHANGED <<object, rows, up, wire, nextId, calls, faults, commits>>,
         call' \in [Mounts -> Call \cup {None}], open' \in [Mounts -> SUBSET OpenFile], nextFh' \in [Mounts -> Nat],
         listing' \in [Mounts -> [Dirs -> (SUBSET Paths) \cup {None}]], mine' = mine,
         closes' \subseteq [path : Paths, base : Nat \cup {None}, bytes : Bytes]
  PROVE  TypeOK'
  BY DEF TypeOK, wire

LEMMA RecordedKeeps == ASSUME IInv, NEW h \in handlers, Recorded(h) PROVE IInv'
  <1>0. PICK m \in Mounts : m = h.mount
    BY DEF IInv, TypeOK, Handler
  <1>1. /\ Deliver(h) /\ Return(m) /\ UNCHANGED <<open, nextFh, listing, closes, mine>> /\ h.op = "record_conflict"
    BY <1>0 DEF Recorded
  <1>2. /\ handlers' \subseteq handlers /\ \A p \in Paths : ~Changing(m, p)
        /\ UNCHANGED <<object, rows, up, wire, nextId, calls, faults, commits>>
    BY <1>0, <1>1, Delivered DEF Names
  <1>3. /\ call' \in [Mounts -> Call \cup {None}] /\ \A n \in Mounts \ {m} : call'[n] = call[n]
        /\ call'[m] = None
    BY <1>1, ReturnTyped DEF IInv
  <1>4. TypeOK'
    BY <1>1, <1>2, <1>3, AnswerTyped DEF IInv, TypeOK
  <1>5. HelperStep(m)
    BY <1>1, <1>2, <1>3, ListingsStay DEF HelperStep, CallChange, ChangesDone, OpenChange
  <1> QED
    BY <1>1, <1>2, <1>4, <1>5, StoredSame, HelperKeeps

LEMMA DirReadKeeps == ASSUME IInv, NEW h \in handlers, DirRead(h) PROVE IInv'
  <1>0. PICK m \in Mounts : m = h.mount
    BY DEF IInv, TypeOK, Handler
  <1>1. /\ Deliver(h) /\ Return(m) /\ UNCHANGED <<open, nextFh, closes, mine>> /\ h.op = "read_dir"
        /\ IF h.res = "ok" THEN listing' = [listing EXCEPT ![m][Parent[h.path]] = h.names] ELSE UNCHANGED listing
    BY <1>0 DEF DirRead
  <1>2. /\ handlers' \subseteq handlers /\ \A p \in Paths : ~Changing(m, p) /\ h.path \in Paths /\ h.next = "reply"
        /\ UNCHANGED <<object, rows, up, wire, nextId, calls, faults, commits>>
    BY <1>0, <1>1, Delivered DEF Names
  <1>3. /\ call' \in [Mounts -> Call \cup {None}] /\ \A n \in Mounts \ {m} : call'[n] = call[n]
        /\ call'[m] = None
    BY <1>1, ReturnTyped DEF IInv
  <1>4. PICK d \in Dirs, S \in SUBSET Paths : d = Parent[h.path] /\ S = h.names
    BY <1>2, ParentAssumption DEF IInv, TypeOK, Handler
  <1>5. /\ listing' \in [Mounts -> [Dirs -> (SUBSET Paths) \cup {None}]]
        /\ listing'[m][d] = listing[m][d] \/ (h.res = "ok" /\ listing'[m][d] = S)
        /\ \A n \in Mounts, e \in Dirs : n # m \/ e # d => listing'[n][e] = listing[n][e]
    <2>1. CASE h.res = "ok"
      <3>1. listing' = [listing EXCEPT ![m][d] = S]
        BY <1>1, <1>4, <2>1
      <3> QED
        BY <3>1, <2>1 DEF IInv, TypeOK
    <2>2. CASE h.res # "ok"
      BY <1>1, <2>2 DEF IInv, TypeOK
    <2> QED
      BY <2>1, <2>2
  <1>6. TypeOK'
    BY <1>1, <1>2, <1>3, <1>5, AnswerTyped DEF IInv, TypeOK
  <1>7. ListingChange
    <2>1. h.res = "ok" => \A p \in Paths : Parent[p] = d => Agrees(m, p, S)
      BY <1>0, <1>1, <1>2, <1>4 DEF IInv, ListingsAgree, Deliver, Reaches
    <2>2. \A p \in Paths : Parent[p] \in Dirs
      BY ParentAssumption
    <2> QED
      BY <2>1, <2>2, <1>1, <1>5 DEF ListingChange
  <1>8. HelperStep(m)
    BY <1>1, <1>2, <1>3, <1>7 DEF HelperStep, CallChange, ChangesDone, OpenChange
  <1> QED
    BY <1>1, <1>2, <1>6, <1>8, StoredSame, HelperKeeps

LEMMA RenamedKeeps == ASSUME IInv, NEW h \in handlers, Renamed(h) PROVE IInv'
  <1>0. PICK m \in Mounts : m = h.mount
    BY DEF IInv, TypeOK, Handler
  <1>1. /\ Deliver(h) /\ Return(m) /\ UNCHANGED <<open, nextFh, closes, mine>>
        /\ IF h.res = "ok" THEN Invalidate(m, Touched(h)) ELSE UNCHANGED listing
    BY <1>0 DEF Renamed
  <1>2. /\ handlers' \subseteq handlers
        /\ h.res # "ok" => \A p \in Paths : ~Changing(m, p)
        /\ h.path \in Paths /\ h.to \in Paths /\ call[m].path = h.path /\ call[m].to = h.to
        /\ UNCHANGED <<object, rows, up, wire, nextId, calls, faults, commits>>
    BY <1>0, <1>1, Delivered
  <1>3. /\ call' \in [Mounts -> Call \cup {None}] /\ \A n \in Mounts \ {m} : call'[n] = call[n]
        /\ call'[m] = None
    BY <1>1, ReturnTyped DEF IInv
  <1>4. /\ listing' \in [Mounts -> [Dirs -> (SUBSET Paths) \cup {None}]]
        /\ \A n \in Mounts, p \in Paths : listing'[n][Parent[p]] \in {listing[n][Parent[p]], None}
        /\ h.res = "ok" => \A p \in {h.path, h.to} : listing'[m][Parent[p]] = None
    <2>1. CASE h.res = "ok"
      <3>1. PICK ds : ds = Touched(h)
        OBVIOUS
      <3>2. /\ listing' \in [Mounts -> [Dirs -> (SUBSET Paths) \cup {None}]]
            /\ \A n \in Mounts, d \in Dirs : listing'[n][d] \in {listing[n][d], None}
            /\ \A d \in Dirs : d \in ds => listing'[m][d] = None
        BY <2>1, <3>1, <1>1, InvalidateTyped DEF IInv
      <3> QED
        BY <3>1, <3>2, <1>2, ParentAssumption DEF Touched
    <2>2. CASE h.res # "ok"
      BY <2>2, <1>1 DEF IInv, TypeOK
    <2> QED
      BY <2>1, <2>2
  <1>5. TypeOK'
    BY <1>1, <1>2, <1>3, <1>4, AnswerTyped DEF IInv, TypeOK
  <1>6. HelperStep(m)
    <2>1. ListingChange
      BY <1>1, <1>4 DEF ListingChange
    <2>2. ChangesDone(m)
      BY <1>2, <1>4 DEF ChangesDone, Changing
    <2> QED
      BY <2>1, <2>2, <1>1, <1>2, <1>3 DEF HelperStep, CallChange, OpenChange
  <1> QED
    BY <1>1, <1>2, <1>5, <1>6, StoredSame, HelperKeeps

(* A closed file whose bytes are stored. *)
LEMMA ClosedKeeps ==
  ASSUME IInv, NEW m, NEW f \in OpenFile, Closed(m, f), rows' = rows,
         (f.base = None /\ f.bytes = Empty) \/ Stored(f.path, f.bytes)
  PROVE  SavedIsStored' /\ closes' \subseteq [path : Paths, base : Nat \cup {None}, bytes : Bytes]
  <1> DEFINE c == [path |-> f.path, base |-> f.base, bytes |-> f.bytes]
  <1>1. closes' = closes \cup {c}
    BY DEF Closed
  <1>2. c \in [path : Paths, base : Nat \cup {None}, bytes : Bytes]
    BY DEF OpenFile
  <1>3. ~(c.base = None /\ c.bytes = Empty) => \E i \in DOMAIN rows'[c.path] : rows'[c.path][i] = c.bytes
    BY DEF Stored
  <1> HIDE DEF c
  <1>4. SavedIsStored'
    BY <1>1, <1>3 DEF SavedIsStored, IInv
  <1> QED
    BY <1>1, <1>2, <1>4 DEF IInv, TypeOK

LEMMA SavedKeeps == ASSUME IInv, NEW h \in handlers, Saved(h) PROVE IInv'
  <1>0. PICK m \in Mounts : m = h.mount
    BY DEF IInv, TypeOK, Handler
  <1>1. /\ Deliver(h) /\ UNCHANGED <<open, nextFh, mine>> /\ Writes(h)
    BY DEF Saved, Writes
  <1>2. /\ handlers' \subseteq handlers
        /\ h.res # "ok" => \A p \in Paths : ~Changing(m, p)
        /\ h.path \in Paths /\ call[m].path = h.path /\ call[m].to = h.to /\ call[m] \in Call
        /\ \A g \in handlers' : g.mount = m => g.id # call[m].id
        /\ h.next = "reply" /\ UNCHANGED <<object, rows, up, wire, nextId, calls, faults, commits>>
    BY <1>0, <1>1, Delivered
  <1>3. CASE h.res = "ok"
    <2>1. Return(m) /\ Invalidate(m, {Parent[h.path]}) /\ Closed(m, h.file)
      BY <1>0, <1>3 DEF Saved
    <2>2. /\ call' \in [Mounts -> Call \cup {None}] /\ \A n \in Mounts \ {m} : call'[n] = call[n]
          /\ call'[m] = None
      BY <2>1, ReturnTyped DEF IInv
    <2>3. PICK f \in OpenFile : f = h.file
      BY <1>1 DEF IInv, FilesSound
    <2>4. h.path = f.path /\ h.to = h.path /\ h.bytes = f.bytes
      BY <2>3, <1>1 DEF IInv, FilesSound
    <2>5. Stored(f.path, f.bytes)
      BY <2>4, <1>1, <1>2, <1>3 DEF IInv, HandlersSound, HandlerSound
    <2>6. SavedIsStored' /\ closes' \subseteq [path : Paths, base : Nat \cup {None}, bytes : Bytes]
      BY <2>1, <2>3, <2>5, <1>2, ClosedKeeps
    <2>7. /\ listing' \in [Mounts -> [Dirs -> (SUBSET Paths) \cup {None}]]
          /\ \A n \in Mounts, p \in Paths : listing'[n][Parent[p]] \in {listing[n][Parent[p]], None}
          /\ listing'[m][Parent[h.path]] = None
      <3>1. PICK ds : ds = {Parent[h.path]}
        OBVIOUS
      <3>2. /\ listing' \in [Mounts -> [Dirs -> (SUBSET Paths) \cup {None}]]
            /\ \A n \in Mounts, d \in Dirs : listing'[n][d] \in {listing[n][d], None}
            /\ \A d \in Dirs : d \in ds => listing'[m][d] = None
        BY <2>1, <3>1, InvalidateTyped DEF IInv
      <3> QED
        BY <3>1, <3>2, <1>2, ParentAssumption
    <2>8. TypeOK'
      BY <1>1, <1>2, <2>2, <2>6, <2>7, AnswerTyped DEF IInv, TypeOK
    <2>9. HelperStep(m)
      <3>1. ListingChange
        BY <1>1, <2>7 DEF ListingChange
      <3>2. ChangesDone(m)
        BY <1>2, <2>4, <2>7 DEF ChangesDone, Changing
      <3> QED
        BY <3>1, <3>2, <1>1, <1>2, <2>2 DEF HelperStep, CallChange, OpenChange
    <2> QED
      BY <2>6, <2>8, <2>9, HelperKeeps
  <1>4. CASE h.res \notin {"ok", "conflict"}
    <2>1. Return(m) /\ UNCHANGED <<listing, closes>>
      BY <1>0, <1>4 DEF Saved
    <2>2. /\ call' \in [Mounts -> Call \cup {None}] /\ \A n \in Mounts \ {m} : call'[n] = call[n]
          /\ call'[m] = None
      BY <2>1, ReturnTyped DEF IInv
    <2>3. TypeOK'
      BY <1>1, <1>2, <2>1, <2>2, AnswerTyped DEF IInv, TypeOK
    <2>4. HelperStep(m)
      BY <1>1, <1>2, <1>4, <2>1, <2>2, ListingsStay DEF HelperStep, CallChange, ChangesDone, OpenChange
    <2> QED
      BY <1>2, <2>1, <2>3, <2>4, StoredSame, HelperKeeps
  <1>5. CASE h.res = "conflict"
    <2>1. Continue(m, "record_conflict") /\ UNCHANGED <<listing, closes>>
      BY <1>0, <1>5 DEF Saved
    <2>2. "record_conflict" \in Requests \ {"open_write"}
      BY DEF Requests
    <2>3. /\ call' \in [Mounts -> Call \cup {None}] /\ \A n \in Mounts \ {m} : call'[n] = call[n]
          /\ call'[m] # None /\ call'[m].step # "open_write" /\ call'[m].id = call[m].id
      BY <2>1, <2>2, <1>2, ContinueTyped DEF IInv
    <2>4. TypeOK'
      BY <1>1, <1>2, <2>1, <2>3, AnswerTyped DEF IInv, TypeOK
    <2>5. HelperStep(m)
      BY <1>1, <1>2, <1>5, <2>1, <2>3, ListingsStay DEF HelperStep, CallChange, ChangesDone, OpenChange
    <2> QED
      BY <1>2, <2>1, <2>4, <2>5, StoredSame, HelperKeeps
  <1> QED
    BY <1>3, <1>4, <1>5

(* A handle is opened: a number of its own, and true to the versions. *)
LEMMA OpenedKeeps ==
  ASSUME IInv, NEW h \in handlers, NEW m \in Mounts, m = h.mount, Deliver(h), Return(m), h.op \notin Names,
         UNCHANGED <<listing, closes, mine>>, OpenChange(m),
         \/ UNCHANGED <<open, nextFh>>
         \/ \E f \in OpenFile : open' = [open EXCEPT ![m] = @ \cup {f}] /\ nextFh' = [nextFh EXCEPT ![m] = @ + 1]
  PROVE  IInv'
  <1>1. /\ handlers' \subseteq handlers /\ \A p \in Paths : ~Changing(m, p)
        /\ UNCHANGED <<object, rows, up, wire, nextId, calls, faults, commits>>
    BY Delivered
  <1>2. /\ call' \in [Mounts -> Call \cup {None}] /\ \A n \in Mounts \ {m} : call'[n] = call[n]
        /\ call'[m] = None
    BY ReturnTyped DEF IInv
  <1>3. open' \in [Mounts -> SUBSET OpenFile] /\ nextFh' \in [Mounts -> Nat]
    <2>1. open \in [Mounts -> SUBSET OpenFile] /\ nextFh \in [Mounts -> Nat]
      BY DEF IInv, TypeOK
    <2>2. CASE UNCHANGED <<open, nextFh>>
      BY <2>1, <2>2
    <2>3. CASE ~UNCHANGED <<open, nextFh>>
      BY <2>1, <2>3
    <2> QED
      BY <2>2, <2>3
  <1>4. TypeOK'
    BY <1>1, <1>2, <1>3, AnswerTyped DEF IInv, TypeOK
  <1>5. HelperStep(m)
    BY <1>1, <1>2, ListingsStay DEF HelperStep, CallChange, ChangesDone
  <1> QED
    BY <1>1, <1>4, <1>5, StoredSame, HelperKeeps

LEMMA LookedUpKeeps == ASSUME IInv, NEW h \in handlers, LookedUp(h) PROVE IInv'
  <1>0. PICK m \in Mounts : m = h.mount
    BY DEF IInv, TypeOK, Handler
  <1>1. /\ Deliver(h) /\ UNCHANGED <<listing, closes, mine>> /\ h.op = "get_attr" /\ h.op \notin Names
    BY DEF LookedUp, Names
  <1>2. /\ handlers' \subseteq handlers /\ h.path \in Paths
        /\ \A p \in Paths : ~Changing(m, p)
        /\ call[m] \in Call /\ \A g \in handlers' : g.mount = m => g.id # call[m].id
        /\ UNCHANGED <<object, rows, up, wire, nextId, calls, faults, commits>>
    BY <1>0, <1>1, Delivered
  <1>3. CASE h.res = "ok"
    <2>1. Continue(m, "open_read") /\ UNCHANGED <<open, nextFh>>
      BY <1>0, <1>3 DEF LookedUp
    <2>2. "open_read" \in Requests \ {"open_write"}
      BY DEF Requests
    <2>3. /\ call' \in [Mounts -> Call \cup {None}] /\ \A n \in Mounts \ {m} : call'[n] = call[n]
          /\ call'[m] # None /\ call'[m].step # "open_write" /\ call'[m].id = call[m].id
      BY <2>1, <2>2, <1>2, ContinueTyped DEF IInv
    <2>4. TypeOK'
      BY <1>1, <1>2, <2>1, <2>3, AnswerTyped DEF IInv, TypeOK
    <2>5. HelperStep(m)
      BY <1>1, <1>2, <2>1, <2>3, ListingsStay DEF HelperStep, CallChange, ChangesDone, OpenChange
    <2> QED
      BY <1>1, <1>2, <2>4, <2>5, StoredSame, HelperKeeps
  <1>4. CASE h.res # "ok"
    <2>1. Return(m) /\ (Opened(m, h.path, None, Empty, Empty, TRUE) \/ UNCHANGED <<open, nextFh>>)
      BY <1>0, <1>4 DEF LookedUp
    <2>2. OpenChange(m) /\ (\/ UNCHANGED <<open, nextFh>>
                         \/ \E x \in OpenFile : /\ open' = [open EXCEPT ![m] = @ \cup {x}]
                                                /\ nextFh' = [nextFh EXCEPT ![m] = @ + 1])
      <3>1. CASE UNCHANGED <<open, nextFh>>
        BY <3>1 DEF OpenChange
      <3>2. CASE Opened(m, h.path, None, Empty, Empty, TRUE)
        <4> DEFINE f == [fh |-> nextFh[m], path |-> h.path, base |-> None, hash |-> Empty, bytes |-> Empty,
                         dirty |-> TRUE, saw |-> None, fresh |-> FALSE]
        <4>1. open' = [open EXCEPT ![m] = @ \cup {f}] /\ nextFh' = [nextFh EXCEPT ![m] = @ + 1]
          BY <3>2 DEF Opened
        <4>2. nextFh[m] \in Nat /\ Empty \in Bytes /\ h.path \in Paths
          BY <1>2 DEF IInv, TypeOK, Bytes
        <4>3. f \in OpenFile /\ f.fh = nextFh[m]
          BY <4>2 DEF OpenFile
        <4>4. FileOK(f)
          BY DEF FileOK
        <4> HIDE DEF f
        <4> QED
          BY <4>1, <4>3, <4>4 DEF OpenChange
      <3> QED
        BY <2>1, <3>1, <3>2
    <2> QED
      BY <2>1, <2>2, <1>0, <1>1, OpenedKeeps
  <1> QED
    BY <1>3, <1>4

LEMMA OpenedReadKeeps == ASSUME IInv, NEW h \in handlers, OpenedRead(h) PROVE IInv'
  <1>0. PICK m \in Mounts : m = h.mount
    BY DEF IInv, TypeOK, Handler
  <1>1. /\ Deliver(h) /\ Return(m) /\ UNCHANGED <<listing, closes, mine>> /\ h.op = "open_read" /\ h.op \notin Names
    BY <1>0 DEF OpenedRead, Names
  <1>2. h.path \in Paths /\ h.next = "reply"
    BY <1>0, <1>1, Delivered
  <1>3. OpenChange(m) /\ (\/ UNCHANGED <<open, nextFh>>
                         \/ \E x \in OpenFile : /\ open' = [open EXCEPT ![m] = @ \cup {x}]
                                                /\ nextFh' = [nextFh EXCEPT ![m] = @ + 1])
    <2>1. CASE h.res # "ok"
      BY <2>1 DEF OpenedRead, OpenChange
    <2>2. CASE h.res = "ok"
      <3> DEFINE hash == IF h.version = 0 THEN None ELSE rows[h.path][h.version]
                 f == [fh |-> nextFh[m], path |-> h.path, base |-> h.version, hash |-> hash, bytes |-> h.bytes,
                       dirty |-> FALSE, saw |-> IF h.version = None THEN None ELSE h.bytes,
                       fresh |-> h.version # None /\ h.version > 0 /\ rows[h.path][h.version] = h.bytes]
      <3>1. open' = [open EXCEPT ![m] = @ \cup {f}] /\ nextFh' = [nextFh EXCEPT ![m] = @ + 1]
        BY <1>0, <2>2 DEF OpenedRead, Opened
      <3>2. h.bytes \in Bytes /\ h.version \in Nat /\ h.version <= Len(rows[h.path])
        BY <1>1, <1>2, <2>2 DEF IInv, HandlersSound, HandlerSound, HeadVersion, TypeOK, Handler
      <3>3. /\ rows[h.path] \in Seq(Bytes \cup {None}) /\ DOMAIN rows[h.path] = 1 .. Len(rows[h.path])
            /\ Len(rows[h.path]) \in Nat /\ nextFh[m] \in Nat
        BY <1>2 DEF IInv, TypeOK
      <3>4. h.version > 0 => h.version \in 1 .. Len(rows[h.path]) /\ rows[h.path][h.version] \in Bytes \cup {None}
        BY <3>2, <3>3
      <3>5. hash \in Bytes \cup {None} /\ (hash = None \/ Stored(h.path, hash))
        <4>1. CASE h.version = 0
          BY <4>1
        <4>2. CASE h.version # 0
          BY <4>2, <3>2, <3>3, <3>4 DEF Stored
        <4> QED
          BY <4>1, <4>2
      <3> HIDE DEF hash
      <3>6. f \in OpenFile /\ f.fh = nextFh[m]
        BY <1>2, <3>2, <3>3, <3>5 DEF OpenFile
      <3>7. FileOK(f)
        <4>1. f.fresh => f.base # None /\ f.base \in 1 .. HeadVersion(f.path) /\ rows[f.path][f.base] = f.saw
          BY <3>2, <3>4 DEF HeadVersion
        <4>2. f.hash = None \/ Stored(f.path, f.hash)
          BY <3>5
        <4> QED
          BY <4>1, <4>2 DEF FileOK
      <3> HIDE DEF f
      <3> QED
        BY <3>1, <3>6, <3>7 DEF OpenChange
    <2> QED
      BY <2>1, <2>2
  <1> QED
    BY <1>0, <1>1, <1>3, OpenedKeeps

-----------------------------------------------------------------------------
(* A close, and a request on its way to the daemon. *)

LEMMA ReleaseKeeps ==
  ASSUME IInv, NEW m \in Mounts, NEW f \in open[m], NEW b \in Bytes, NEW wrote \in BOOLEAN, Release(m, f, b, wrote)
  PROVE  IInv'
  <1>0. open \in [Mounts -> SUBSET OpenFile] /\ f \in OpenFile /\ FileOK(f)
    BY DEF IInv, TypeOK, FilesSound
  <1>1. PICK w : w = [f EXCEPT !.bytes = b, !.dirty = @ \/ wrote]
    OBVIOUS
  <1>2. /\ w \in OpenFile /\ w.fh = f.fh /\ w.path = f.path /\ w.base = f.base /\ w.hash = f.hash /\ w.bytes = b
        /\ FileOK(w) /\ w.path \in Paths
    <2>1. /\ w \in OpenFile /\ w.fh = f.fh /\ w.path = f.path /\ w.base = f.base /\ w.hash = f.hash /\ w.bytes = b
          /\ w.saw = f.saw /\ w.fresh = f.fresh /\ w.path \in Paths
      BY <1>0, <1>1 DEF OpenFile
    <2>2. FileOK(w)
      BY <2>1, <1>0 DEF FileOK
    <2> QED
      BY <2>1, <2>2
  <1>3. /\ open' = [open EXCEPT ![m] = @ \ {f}]
        /\ UNCHANGED <<daemon, wire, nextFh, listing, nextId, faults, commits, mine>>
    BY DEF Release
  <1>4. /\ open' \in [Mounts -> SUBSET OpenFile] /\ open'[m] = open[m] \ {f}
        /\ \A n \in Mounts : open'[n] \subseteq open[n]
    BY <1>0, <1>3
  <1>5. CASE NothingToSave(w)
    <2>1. UNCHANGED <<call, calls>> /\ IF w.dirty THEN Closed(m, w) ELSE UNCHANGED closes
      BY <1>1, <1>5 DEF Release
    <2>2. SavedIsStored' /\ closes' \subseteq [path : Paths, base : Nat \cup {None}, bytes : Bytes]
      <3>1. CASE w.dirty
        <4>1. w.bytes = w.hash /\ Closed(m, w)
          BY <2>1, <3>1, <1>5 DEF NothingToSave
        <4>2. (w.base = None /\ w.bytes = Empty) \/ Stored(w.path, w.bytes)
          BY <4>1, <1>2, BytesAssumption DEF FileOK
        <4> QED
          BY <4>1, <4>2, <1>2, <1>3, ClosedKeeps DEF daemon
      <3>2. CASE ~w.dirty
        BY <2>1, <3>2, <1>3, StoredSame DEF daemon, IInv, TypeOK
      <3> QED
        BY <3>1, <3>2
    <2>3. TypeOK'
      BY <1>3, <1>4, <2>1, <2>2 DEF IInv, TypeOK, daemon, wire
    <2>4. HelperStep(m)
      BY <1>3, <1>4, <2>1, ListingsStay DEF HelperStep, CallChange, OpenChange, daemon
    <2> QED
      BY <2>2, <2>3, <2>4, HelperKeeps
  <1>6. CASE ~NothingToSave(w)
    <2> DEFINE r == [kind |-> "release", path |-> f.path, to |-> f.path, file |-> w, step |-> "open_write",
                     stage |-> "send", attempts |-> 0, id |-> 0]
    <2>1. /\ call' = [call EXCEPT ![m] = r] /\ call[m] = None /\ calls < MaxCalls /\ calls' = calls + 1
          /\ UNCHANGED closes
      BY <1>1, <1>6 DEF Release, Start
    <2>2. /\ r \in Call /\ r.file = w /\ r.path = w.path /\ r.to = w.path /\ r.step = "open_write" /\ r.id = 0
      BY <1>2 DEF Call, Kinds, Requests
    <2> HIDE DEF r
    <2>3. call' \in [Mounts -> Call \cup {None}] /\ call'[m] = r /\ \A n \in Mounts \ {m} : call'[n] = call[n]
      BY <2>1, <2>2, CallUpdate DEF IInv
    <2>4. calls' \in 0 .. MaxCalls
      BY <2>1, BoundsAssumption DEF IInv, TypeOK
    <2>5. TypeOK'
      BY <1>3, <1>4, <2>1, <2>3, <2>4 DEF IInv, TypeOK, daemon, wire
    <2>6. /\ UNCHANGED <<rows, object, handlers, nextId, nextFh, listing, mine, commits, closes>>
      BY <1>3, <2>1 DEF daemon
    <2>7. RequestsNumbered' /\ HandlersSound' /\ AppliedOnce' /\ SavedIsStored'
      BY <2>6, StoredSame DEF IInv, RequestsNumbered, HandlersSound, HandlerSound, Writes, Stored, HeadVersion, AppliedOnce
    <2>8. FilesSound'
      <3>1. \A x : FileOK(x)' <=> FileOK(x)
        BY <2>6 DEF FileOK, Stored, HeadVersion
      <3>2. \A n \in Mounts : \A x \in open'[n] : FileOK(x)'
        BY <3>1, <1>4 DEF IInv, FilesSound
      <3>3. ASSUME NEW n \in Mounts, Closing(n)'
            PROVE  (/\ call[n].file \in OpenFile /\ FileOK(call[n].file)
                    /\ call[n].path = call[n].file.path /\ call[n].to = call[n].path)'
        <4>1. CASE n = m
          BY <4>1, <2>2, <2>3, <2>6, <1>2 DEF FileOK, Stored, HeadVersion
        <4>2. CASE n # m
          <5>1. call'[n] = call[n] /\ Closing(n)
            BY <4>2, <3>3, <2>3 DEF Closing
          <5>2. /\ call[n].file \in OpenFile /\ FileOK(call[n].file)
                /\ call[n].path = call[n].file.path /\ call[n].to = call[n].path
            BY <5>1 DEF IInv, FilesSound
          <5>3. FileOK(call[n].file)'
            BY <5>1, <5>2, <2>6 DEF FileOK, Stored, HeadVersion
          <5> QED
            BY <5>1, <5>2, <5>3
        <4> QED
          BY <4>1, <4>2
      <3>4. \A h \in handlers' : Writes(h) =>
              /\ h.file \in OpenFile /\ FileOK(h.file)'
              /\ h.path = h.file.path /\ h.to = h.path /\ h.bytes = h.file.bytes
        BY <2>6, <3>1 DEF IInv, FilesSound
      <3>5. \A c \in commits' : /\ FileOK(c.file)' /\ c.path = c.file.path
                                /\ c.file.fresh /\ ~c.raced => c.version = c.file.base + 1
        BY <2>6, <3>1 DEF IInv, FilesSound
      <3> QED
        BY <3>2, <3>3, <3>4, <3>5 DEF FilesSound, Writes
    <2>9. HandlesApart'
      <3>0. HandlesApart
        BY DEF IInv
      <3>1. ASSUME NEW n \in Mounts, NEW x \in open'[n]
            PROVE  x.fh < nextFh'[n] /\ \A y \in open'[n] : x.fh = y.fh => x = y
        BY <3>0, <1>4, <2>6 DEF HandlesApart
      <3>2. ASSUME NEW n \in Mounts, Closing(n)'
            PROVE  /\ call'[n].file.fh < nextFh'[n]
                   /\ \A x \in open'[n] : x.fh # call'[n].file.fh
                   /\ call'[n].stage = "send" =>
                        /\ \A h \in handlers' : Writes(h) /\ h.mount = n => h.file.fh # call'[n].file.fh
                        /\ \A c \in commits' : c.mount = n => c.file.fh # call'[n].file.fh
        <4>1. CASE n = m
          <5>1. call'[n].file.fh = f.fh
            BY <4>1, <2>2, <2>3, <1>2
          <5>2. f.fh < nextFh[m] /\ \A x \in open[m] \ {f} : x.fh # f.fh
            BY <3>0 DEF HandlesApart
          <5>3. \A h \in handlers : Writes(h) /\ h.mount = m => h.file.fh # f.fh
            BY <3>0 DEF HandlesApart
          <5>4. \A c \in commits : c.mount = m => c.file.fh # f.fh
            BY <3>0 DEF HandlesApart
          <5> QED
            BY <4>1, <5>1, <5>2, <5>3, <5>4, <1>4, <2>6
        <4>2. CASE n # m
          BY <4>2, <3>0, <3>2, <1>4, <2>3, <2>6 DEF HandlesApart, Closing
        <4> QED
          BY <4>1, <4>2
      <3>3. ASSUME NEW h \in handlers', Writes(h)
            PROVE  /\ h.file.fh < nextFh'[h.mount]
                   /\ \A x \in open'[h.mount] : x.fh # h.file.fh
                   /\ \A g \in handlers' : Writes(g) /\ g.mount = h.mount /\ g.file.fh = h.file.fh => g.id = h.id
                   /\ h.next # "reply" => \A c \in commits' : c.mount = h.mount => c.file.fh # h.file.fh
        <4>1. h.mount \in Mounts
          BY <2>6 DEF IInv, TypeOK, Handler
        <4> QED
          BY <4>1, <3>0, <3>3, <1>4, <2>6 DEF HandlesApart
      <3>4. ASSUME NEW c \in commits'
            PROVE  c.file.fh < nextFh'[c.mount] /\ \A x \in open'[c.mount] : x.fh # c.file.fh
        <4>1. c.mount \in Mounts
          BY <2>6 DEF IInv, TypeOK
        <4> QED
          BY <4>1, <3>0, <1>4, <2>6 DEF HandlesApart
      <3> QED
        BY <3>1, <3>2, <3>3, <3>4 DEF HandlesApart, Writes
    <2>10. \A h \in handlers' : Current(h)' => Current(h) /\ h.mount # m /\ h.mount \in Mounts
      BY <2>2, <2>3, <2>6 DEF IInv, RequestsNumbered, TypeOK, Handler, Current
    <2>11. Matching'
      BY <2>3, <2>6, <2>10 DEF IInv, Matching, is_idempotent
    <2>12. ListingsAgree'
      <3>1. \A n \in Mounts, p \in Paths : Changing(n, p) => Changing(n, p)'
        BY <2>1, <2>3, <2>6 DEF Changing
      <3>2. \A n \in Mounts, p \in Paths : \A S : Agrees(n, p, S)' <=> Agrees(n, p, S)
        BY <2>6 DEF Agrees
      <3> QED
        BY <3>1, <3>2, <2>6, <2>10 DEF IInv, ListingsAgree, Agrees
    <2> QED
      BY <2>5, <2>7, <2>8, <2>9, <2>11, <2>12 DEF IInv
  <1> QED
    BY <1>5, <1>6

LEMMA RequestTyped ==
  ASSUME IInv, NEW m \in Mounts, NEW n \in Nat, call[m] # None, NEW g, g = Request(m, n)
  PROVE  /\ g \in Handler /\ g.mount = m /\ g.id = nextId[m] + 1 /\ g.op = call[m].step /\ g.path = call[m].path
         /\ g.to = call[m].to /\ g.file = call[m].file /\ g.next = FirstStep(call[m].step) /\ g.res = "ok"
         /\ g.op = "open_write" => g.bytes = g.file.bytes
  <1>1. call[m] \in Call /\ nextId[m] \in Nat
    BY DEF IInv, TypeOK
  <1>2. /\ g.mount = m /\ g.id = nextId[m] + 1 /\ g.op = call[m].step /\ g.path = call[m].path
        /\ g.to = call[m].to /\ g.file = call[m].file /\ g.next = FirstStep(call[m].step) /\ g.res = "ok"
        /\ g.op = "open_write" => g.bytes = g.file.bytes
    BY DEF Request
  <1>3. PICK b \in Bytes \cup {None} : b = IF call[m].step = "open_write" THEN call[m].file.bytes ELSE None
    BY DEF IInv, FilesSound, Closing, OpenFile
  <1>4. PICK k \in {"look", "get", "head", "check", "put", "copy", "commit", "delete", "bury", "reply"} :
             k = FirstStep(call[m].step)
    BY <1>1 DEF Call, Requests, FirstStep
  <1>5. g = [mount |-> m, conn |-> n, id |-> nextId[m] + 1, op |-> call[m].step, path |-> call[m].path,
             to |-> call[m].to, file |-> call[m].file, next |-> k, res |-> "ok", bytes |-> b,
             version |-> 0, names |-> {}, raced |-> FALSE]
    BY <1>3, <1>4 DEF Request
  <1>6. g \in Handler
    BY <1>1, <1>5 DEF Call, Handler
  <1> QED
    BY <1>2, <1>6

LEMMA SendKeeps == ASSUME IInv, NEW m \in Mounts, Send(m) PROVE IInv'
  <1>1. /\ call[m] # None /\ call[m].stage = "send" /\ call[m] \in Call /\ nextId[m] \in Nat
        /\ UNCHANGED <<object, rows, up, draining, torn, open, nextFh, listing, calls, faults, history>>
    BY DEF Send, IInv, TypeOK
  <1>2. PICK n \in Nat : /\ connNo' = [connNo EXCEPT ![m] = n]
                         /\ handlers' = handlers \cup {Request(m, n)}
    <2>1. connNo[m] \in Nat
      BY DEF IInv, TypeOK
    <2>2. PICK n : /\ n = IF m \in Remote THEN 0 ELSE IF sock[m] = "none" THEN connNo[m] + 1 ELSE connNo[m]
                   /\ connNo' = [connNo EXCEPT ![m] = n] /\ handlers' = handlers \cup {Request(m, n)}
      BY DEF Send
    <2>3. n \in Nat
      BY <2>1, <2>2
    <2> QED
      BY <2>2, <2>3
  <1>3. PICK g : g = Request(m, n)
    OBVIOUS
  <1>4. /\ g \in Handler /\ g.mount = m /\ g.id = nextId[m] + 1 /\ g.op = call[m].step /\ g.path = call[m].path
        /\ g.to = call[m].to /\ g.file = call[m].file /\ g.next = FirstStep(call[m].step) /\ g.res = "ok"
        /\ g.op = "open_write" => g.bytes = g.file.bytes
    BY <1>1, <1>3, RequestTyped
  <1>5. handlers' = handlers \cup {g}
    BY <1>2, <1>3
  <1>6. /\ nextId' \in [Mounts -> Nat] /\ nextId'[m] = nextId[m] + 1
        /\ \A x \in Mounts \ {m} : nextId'[x] = nextId[x]
    BY DEF Send, IInv, TypeOK
  <1>7. PICK r : r = [call[m] EXCEPT !.stage = "wait", !.id = nextId[m] + 1]
    OBVIOUS
  <1>8. /\ r \in Call /\ r.path = call[m].path /\ r.to = call[m].to /\ r.file = call[m].file /\ r.step = call[m].step
        /\ r.stage = "wait" /\ r.id = nextId[m] + 1 /\ r # None
    <2>1. /\ r \in Call /\ r.path = call[m].path /\ r.to = call[m].to /\ r.file = call[m].file /\ r.step = call[m].step
          /\ r.stage = "wait" /\ r.id = nextId[m] + 1
      <3>1. nextId[m] + 1 \in Nat /\ "wait" \in {"send", "wait"}
        BY <1>1
      <3> QED
        BY <3>1, <1>1, <1>7 DEF Call
    <2> QED
      BY <2>1, NoneAssumption
  <1>9. call' = [call EXCEPT ![m] = r]
    BY <1>7 DEF Send, IInv, TypeOK
  <1>10. call' \in [Mounts -> Call \cup {None}] /\ call'[m] = r /\ \A x \in Mounts \ {m} : call'[x] = call[x]
    BY <1>8, <1>9, CallUpdate DEF IInv
  <1>11. TypeOK'
    <2>1. connNo' \in [Mounts -> Nat]
      BY <1>2 DEF IInv, TypeOK
    <2>2. sock' \in [Mounts -> {"none", "up", "broken"}]
      BY DEF Send, IInv, TypeOK
    <2> QED
      BY <2>1, <2>2, <1>1, <1>4, <1>5, <1>6, <1>10 DEF IInv, TypeOK, history
  <1>12. \A h \in handlers : h \in Handler /\ h.mount \in Mounts /\ h.id \in Nat /\ (h.mount = m => h.id # g.id)
    <2>1. \A h \in handlers : h \in Handler /\ h.mount \in Mounts /\ h.id \in Nat
      BY DEF IInv, TypeOK, Handler
    <2>2. \A h \in handlers : h.mount = m => h.id <= nextId[m]
      BY <1>1 DEF IInv, RequestsNumbered
    <2> QED
      BY <2>1, <2>2, <1>1, <1>4
  <1>13. RequestsNumbered'
    <2>1. \A h \in handlers' : h.id \in 1 .. nextId'[h.mount]
      BY <1>1, <1>4, <1>5, <1>6, <1>12 DEF IInv, RequestsNumbered
    <2>2. \A x, h \in handlers' : x.mount = h.mount /\ x.id = h.id => x = h
      BY <1>4, <1>5, <1>12 DEF IInv, RequestsNumbered
    <2> QED
      BY <2>1, <2>2 DEF RequestsNumbered
  <1>14. rows' = rows /\ UNCHANGED <<commits, closes, mine>>
    BY <1>1 DEF history
  <1>15. \A f : FileOK(f)' <=> FileOK(f)
    BY <1>14 DEF FileOK, Stored, HeadVersion
  <1>16. FilesSound'
    <2>1. \A x \in Mounts : \A f \in open'[x] : FileOK(f)'
      BY <1>1, <1>15 DEF IInv, FilesSound
    <2>2. ASSUME NEW x \in Mounts, Closing(x)'
          PROVE  (/\ call[x].file \in OpenFile /\ FileOK(call[x].file)
                  /\ call[x].path = call[x].file.path /\ call[x].to = call[x].path)'
      <3>1. /\ call'[x].file = call[x].file /\ call'[x].path = call[x].path /\ call'[x].to = call[x].to /\ Closing(x)
        BY <2>2, <1>1, <1>8, <1>10 DEF Closing
      <3>2. /\ call[x].file \in OpenFile /\ FileOK(call[x].file)
            /\ call[x].path = call[x].file.path /\ call[x].to = call[x].path
        BY <3>1 DEF IInv, FilesSound
      <3>3. FileOK(call[x].file)'
        BY <3>1, <3>2, <1>14 DEF FileOK, Stored, HeadVersion
      <3> QED
        BY <3>1, <3>2, <3>3
    <2>3. \A h \in handlers : Writes(h) =>
            /\ h.file \in OpenFile /\ FileOK(h.file)'
            /\ h.path = h.file.path /\ h.to = h.path /\ h.bytes = h.file.bytes
      BY <1>15 DEF IInv, FilesSound
    <2>4. Writes(g) =>
            /\ g.file \in OpenFile /\ FileOK(g.file)'
            /\ g.path = g.file.path /\ g.to = g.path /\ g.bytes = g.file.bytes
      BY <1>1, <1>4, <1>15 DEF IInv, FilesSound, Closing, Writes
    <2>5. \A c \in commits' : /\ FileOK(c.file)' /\ c.path = c.file.path
                              /\ c.file.fresh /\ ~c.raced => c.version = c.file.base + 1
      BY <1>14, <1>15 DEF IInv, FilesSound
    <2> QED
      BY <2>1, <2>2, <2>3, <2>4, <2>5, <1>5 DEF FilesSound, Writes
  <1>17. HandlersSound'
    <2>1. ASSUME NEW h, HandlerSound(h) PROVE HandlerSound(h)'
      BY <2>1, <1>14 DEF HandlerSound, Writes, Stored, HeadVersion
    <2>2. HandlerSound(g)
      BY <1>1, <1>4 DEF HandlerSound, FirstStep, Writes, Call, Requests
    <2> QED
      BY <2>1, <2>2, <1>5 DEF IInv, HandlersSound
  <1>18. HandlesApart'
    <2>0. HandlesApart /\ UNCHANGED <<open, nextFh, commits>>
      BY <1>1, <1>14 DEF IInv
    <2>1. \A x \in Mounts : \A f \in open'[x] :
             f.fh < nextFh'[x] /\ \A y \in open'[x] : f.fh = y.fh => f = y
      BY <2>0 DEF HandlesApart
    <2>2. ASSUME NEW x \in Mounts, Closing(x)'
          PROVE  /\ call'[x].file.fh < nextFh'[x]
                 /\ \A f \in open'[x] : f.fh # call'[x].file.fh
                 /\ call'[x].stage = "send" =>
                      /\ \A h \in handlers' : Writes(h) /\ h.mount = x => h.file.fh # call'[x].file.fh
                      /\ \A c \in commits' : c.mount = x => c.file.fh # call'[x].file.fh
      <3>1. Closing(x) /\ call'[x].file = call[x].file /\ (call'[x].stage = "send" => x # m /\ call'[x] = call[x])
        BY <2>2, <1>1, <1>8, <1>10 DEF Closing
      <3> QED
        BY <3>1, <2>0, <1>4, <1>5 DEF HandlesApart
    <2>3. Closing(m) => /\ \A h \in handlers : Writes(h) /\ h.mount = m => h.file.fh # call[m].file.fh
                        /\ \A c \in commits : c.mount = m => c.file.fh # call[m].file.fh
                        /\ call[m].file.fh < nextFh[m]
                        /\ \A f \in open[m] : f.fh # call[m].file.fh
      BY <2>0, <1>1 DEF HandlesApart
    <2>4. Writes(g) => Closing(m)
      BY <1>1, <1>4 DEF Writes, Closing
    <2>5. ASSUME NEW h \in handlers', Writes(h)
          PROVE  /\ h.file.fh < nextFh'[h.mount]
                 /\ \A f \in open'[h.mount] : f.fh # h.file.fh
                 /\ \A x \in handlers' : Writes(x) /\ x.mount = h.mount /\ x.file.fh = h.file.fh => x.id = h.id
                 /\ h.next # "reply" => \A c \in commits' : c.mount = h.mount => c.file.fh # h.file.fh
      <3>1. CASE h = g
        BY <3>1, <2>0, <2>3, <2>4, <2>5, <1>4, <1>5
      <3>2. CASE h # g
        <4>1. h \in handlers
          BY <3>2, <1>5
        <4> QED
          BY <4>1, <2>0, <2>3, <2>4, <2>5, <1>4, <1>5 DEF HandlesApart
      <3> QED
        BY <3>1, <3>2
    <2>6. \A c \in commits' : c.file.fh < nextFh'[c.mount] /\ \A f \in open'[c.mount] : f.fh # c.file.fh
      BY <2>0 DEF HandlesApart
    <2> QED
      BY <2>1, <2>2, <2>5, <2>6 DEF HandlesApart, Writes
  <1>19. AppliedOnce' /\ SavedIsStored'
    BY <1>14, StoredSame DEF IInv, AppliedOnce
  <1>20. \A h \in handlers' : Current(h)' => h = g \/ (h \in handlers /\ h.mount # m /\ Current(h))
    BY <1>4, <1>5, <1>8, <1>10, <1>12 DEF Current
  <1>21. Matching'
    <2> SUFFICES ASSUME NEW h \in handlers', Current(h)'
                 PROVE  /\ call'[h.mount].step = h.op /\ call'[h.mount].path = h.path /\ call'[h.mount].to = h.to
                        /\ ~is_idempotent(h.op) => call'[h.mount].stage = "wait"
      BY DEF Matching, is_idempotent
    <2>1. CASE h = g
      BY <2>1, <1>4, <1>8, <1>10
    <2>2. CASE h # g
      <3>1. h \in handlers /\ h.mount # m /\ Current(h) /\ h.mount \in Mounts
        BY <2>2, <1>12, <1>20
      <3> QED
        BY <3>1, <1>10 DEF IInv, Matching
    <2> QED
      BY <2>1, <2>2
  <1>22. ListingsAgree'
    <2>1. ASSUME NEW x \in Mounts, NEW p \in Paths, Changing(x, p) PROVE Changing(x, p)'
      <3>1. CASE x = m
        BY <3>1, <2>1, <1>1 DEF Changing
      <3>2. CASE x # m
        BY <3>2, <2>1, <1>4, <1>5, <1>10 DEF Changing
      <3> QED
        BY <3>1, <3>2
    <2>2. \A x \in Mounts, p \in Paths : \A S : Agrees(x, p, S)' <=> Agrees(x, p, S)
      BY <1>14 DEF Agrees
    <2>3. g.op = "read_dir" => g.next # "reply"
      BY <1>4 DEF FirstStep
    <2>4. ASSUME NEW h \in handlers', h.op = "read_dir", h.next = "reply", h.res = "ok", Current(h)',
                 NEW p \in Paths, Parent[p] = Parent[h.path]
          PROVE  Agrees(h.mount, p, h.names)'
      <3>1. h \in handlers /\ h.mount \in Mounts /\ Current(h)
        BY <2>3, <2>4, <1>12, <1>20
      <3>2. Agrees(h.mount, p, h.names)
        BY <3>1, <2>4 DEF IInv, ListingsAgree
      <3> QED
        BY <3>1, <3>2, <2>2
    <2>5. ASSUME NEW x \in Mounts, NEW p \in Paths
          PROVE  /\ mine'[x][p] = "present" => object'[p] # None
                 /\ mine'[x][p] = "absent" => object'[p] = None
                 /\ listing'[x][Parent[p]] # None => Agrees(x, p, listing[x][Parent[p]])' \/ Changing(x, p)'
      BY <2>1, <1>1, <1>14 DEF IInv, ListingsAgree, Agrees
    <2> QED
      BY <2>4, <2>5 DEF ListingsAgree
  <1> QED
    BY <1>11, <1>13, <1>16, <1>17, <1>18, <1>19, <1>21, <1>22 DEF IInv

-----------------------------------------------------------------------------
(* Steps of the daemon: one handler moves on, and the other handlers only     *)
(* learn that they were raced.                                                *)

Kin(x, o) ==
    /\ x.mount = o.mount /\ x.id = o.id /\ x.op = o.op /\ x.path = o.path /\ x.to = o.to /\ x.file = o.file

(* x is the handler o behind the step of another one. *)
Passed(x, o) ==
    /\ Kin(x, o) /\ x.next = o.next /\ x.res = o.res /\ x.bytes = o.bytes /\ x.version = o.version /\ x.names = o.names
    /\ ~x.raced => ~o.raced
    /\ Writes(o) /\ o.next \in {"put", "commit"} /\ ~x.raced => rows'[o.path] = rows[o.path]

(* The callback that waits for h is not told its names. *)
Forgets(h) == Current(h) => mine'[h.mount][h.path] = "unknown" /\ mine'[h.mount][h.to] = "unknown"

Committed(h, g) ==
    \/ commits' = commits
    \/ /\ h.next = "commit" /\ Writes(h) /\ g.next = "reply"
       /\ commits' = commits \cup {[mount |-> h.mount, file |-> h.file, raced |-> h.raced, path |-> h.path,
                                    version |-> HeadVersion(h.path) + 1]}

HandlerStep(h, g) ==
    /\ UNCHANGED <<call, open, nextFh, nextId, listing, closes>>
    /\ RowsGrow
    /\ (h.next = "reply" => g.next = "reply") /\ Kin(g, h) /\ (Writes(h) => g.bytes = h.bytes)
    /\ h.op \in Names /\ Begun(h) => (g.res = "ok" /\ Begun(g)) \/ Forgets(h)
    /\ g \in handlers' /\ \A x \in handlers' : x = g \/ \E o \in handlers \ {h} : Passed(x, o)
    /\ Committed(h, g)

(* What the step does to the object store and to the history of the names. *)
NameSet(h, g) ==
    /\ h.op \in Names /\ g.res = "ok" /\ Begun(g)
    /\ \E p \in {h.path, h.to}, b \in Bytes \cup {None} :
          /\ object' = [object EXCEPT ![p] = b]
          /\ mine' = [m \in Mounts |-> [mine[m] EXCEPT ![p] =
                        IF m # h.mount \/ ~Current(h) THEN "unknown"
                        ELSE IF b = None THEN "absent" ELSE "present"]]

(* ... or only forgets names. *)
NamesLeft ==
    /\ object' = object
    /\ mine' \in [Mounts -> [Paths -> Marks]]
    /\ \A m \in Mounts, p \in Paths : mine'[m][p] \in {mine[m][p], "unknown"}

LEMMA Unchanged ==
  ASSUME IInv
  PROVE  (UNCHANGED <<object, mine>> => NamesLeft) /\ (faults' = faults => faults' \in 0 .. MaxFaults)
  BY DEF IInv, TypeOK, NamesLeft, Marks

LEMMA StepFiles ==
  ASSUME IInv, TypeOK', NEW h \in handlers, NEW g, HandlerStep(h, g)
  PROVE  FilesSound'
  <1>0. /\ UNCHANGED <<call, open>> /\ RowsGrow /\ rows' \in [Paths -> Seq(Bytes \cup {None})]
    BY DEF HandlerStep, TypeOK
  <1>1. \A f \in OpenFile : FileOK(f) => FileOK(f)'
    BY <1>0, FileStays DEF IInv
  <1>2. \A m \in Mounts : \A f \in open'[m] : FileOK(f)'
    BY <1>0, <1>1 DEF IInv, TypeOK, FilesSound
  <1>3. ASSUME NEW m \in Mounts, Closing(m)'
        PROVE  (/\ call[m].file \in OpenFile /\ FileOK(call[m].file)
                /\ call[m].path = call[m].file.path /\ call[m].to = call[m].path)'
    <2>1. call' = call /\ Closing(m)
      BY <1>0, <1>3 DEF Closing
    <2>2. PICK f : f = call[m].file
      OBVIOUS
    <2>3. f \in OpenFile /\ FileOK(f) /\ call[m].path = f.path /\ call[m].to = call[m].path
      BY <2>1, <2>2 DEF IInv, FilesSound
    <2>4. FileOK(f)'
      BY <2>3, <1>1
    <2> QED
      BY <2>1, <2>2, <2>3, <2>4 DEF FileOK
  <1>4. \A o \in handlers : Writes(o) =>
          /\ o.file \in OpenFile /\ FileOK(o.file)'
          /\ o.path = o.file.path /\ o.to = o.path /\ o.bytes = o.file.bytes
    BY <1>1 DEF IInv, FilesSound
  <1>5. \A x \in handlers' : Writes(x) =>
          /\ x.file \in OpenFile /\ FileOK(x.file)'
          /\ x.path = x.file.path /\ x.to = x.path /\ x.bytes = x.file.bytes
    BY <1>4 DEF HandlerStep, Kin, Passed, Writes
  <1>6. ASSUME NEW c \in commits'
        PROVE  /\ FileOK(c.file)' /\ c.path = c.file.path
               /\ c.file.fresh /\ ~c.raced => c.version = c.file.base + 1
    <2>1. CASE c \in commits
      BY <2>1, <1>1 DEF IInv, TypeOK, FilesSound
    <2>2. CASE c \notin commits
      <3>1. /\ h.next = "commit" /\ Writes(h) /\ c.file = h.file /\ c.raced = h.raced /\ c.path = h.path
            /\ c.version = HeadVersion(h.path) + 1
        BY <1>6, <2>2 DEF HandlerStep, Committed
      <3>2. h.file.fresh /\ ~h.raced => h.file.base = HeadVersion(h.path)
        BY <3>1 DEF IInv, HandlersSound, HandlerSound
      <3> QED
        BY <3>1, <3>2, <1>4
    <2> QED
      BY <2>1, <2>2
  <1> QED
    BY <1>2, <1>3, <1>5, <1>6 DEF FilesSound, Writes

LEMMA StepHandlers ==
  ASSUME IInv, TypeOK', NEW h \in handlers, NEW g, HandlerStep(h, g), HandlerSound(g)'
  PROVE  HandlersSound'
  <1>0. RowsGrow /\ rows' \in [Paths -> Seq(Bytes \cup {None})] /\ rows \in [Paths -> Seq(Bytes \cup {None})]
    BY DEF HandlerStep, IInv, TypeOK
  <1>1. ASSUME NEW x \in handlers', x # g PROVE HandlerSound(x)'
    <2>1. PICK o \in handlers \ {h} : Passed(x, o)
      BY <1>1 DEF HandlerStep
    <2>2. HandlerSound(o) /\ o.path \in Paths /\ o.version \in Nat
      BY DEF IInv, HandlersSound, TypeOK, Handler
    <2>3. Stored(o.path, o.bytes) => Stored(o.path, o.bytes)'
      BY <1>0, <2>2, StoredStays DEF IInv
    <2>4. Len(rows[o.path]) \in Nat /\ Len(rows'[o.path]) \in Nat /\ Len(rows[o.path]) <= Len(rows'[o.path])
      BY <1>0, <2>2 DEF RowsGrow
    <2>5. o.op = "open_read" /\ o.next = "reply" /\ o.res = "ok" => o.version <= Len(rows'[o.path])
      BY <2>2, <2>4 DEF HandlerSound, HeadVersion
    <2>6. Writes(o) /\ o.next \in {"put", "commit"} /\ o.file.fresh /\ ~x.raced => o.file.base = Len(rows'[o.path])
      BY <2>1, <2>2 DEF HandlerSound, HeadVersion, Passed
    <2> QED
      BY <2>1, <2>2, <2>3, <2>5, <2>6 DEF HandlerSound, HeadVersion, Passed, Kin, Writes, Stored
  <1> QED
    BY <1>1 DEF HandlersSound

LEMMA StepHandles ==
  ASSUME IInv, TypeOK', NEW h \in handlers, NEW g, HandlerStep(h, g)
  PROVE  HandlesApart' /\ AppliedOnce'
  <1>0. HandlesApart /\ UNCHANGED <<call, open, nextFh>> /\ (h.next = "reply" => g.next = "reply")
    BY DEF IInv, HandlerStep
  <1>1. ASSUME NEW x \in handlers'
        PROVE  \E o \in handlers : Kin(x, o) /\ (x = g => o = h) /\ (x # g => x.next = o.next /\ o # h)
    BY <1>1 DEF HandlerStep, Passed
  <1>2. ASSUME NEW c \in commits', c \notin commits
        PROVE  c.mount = h.mount /\ c.file = h.file /\ c.path = h.path /\ Writes(h) /\ g.next = "reply" /\ h.next # "reply"
    BY <1>2 DEF HandlerStep, Committed
  <1>3. \A m \in Mounts : \A f \in open'[m] :
           f.fh < nextFh'[m] /\ \A y \in open'[m] : f.fh = y.fh => f = y
    BY <1>0 DEF HandlesApart
  <1>4. ASSUME NEW m \in Mounts, Closing(m)'
        PROVE  /\ call'[m].file.fh < nextFh'[m]
               /\ \A f \in open'[m] : f.fh # call'[m].file.fh
               /\ call'[m].stage = "send" =>
                    /\ \A x \in handlers' : Writes(x) /\ x.mount = m => x.file.fh # call'[m].file.fh
                    /\ \A c \in commits' : c.mount = m => c.file.fh # call'[m].file.fh
    <2>1. Closing(m) /\ call'[m] = call[m]
      BY <1>0, <1>4 DEF Closing
    <2>2. call[m].stage = "send" =>
             /\ \A o \in handlers : Writes(o) /\ o.mount = m => o.file.fh # call[m].file.fh
             /\ \A c \in commits : c.mount = m => c.file.fh # call[m].file.fh
      BY <2>1, <1>0 DEF HandlesApart
    <2>3. call[m].stage = "send" => \A x \in handlers' : Writes(x) /\ x.mount = m => x.file.fh # call[m].file.fh
      BY <2>2, <1>1 DEF Kin, Writes
    <2>4. call[m].stage = "send" => \A c \in commits' : c.mount = m => c.file.fh # call[m].file.fh
      BY <2>2, <1>2
    <2> QED
      BY <2>1, <2>3, <2>4, <1>0 DEF HandlesApart
  <1>5. ASSUME NEW x \in handlers', Writes(x)
        PROVE  /\ x.file.fh < nextFh'[x.mount]
               /\ \A f \in open'[x.mount] : f.fh # x.file.fh
               /\ \A y \in handlers' : Writes(y) /\ y.mount = x.mount /\ y.file.fh = x.file.fh => y.id = x.id
               /\ x.next # "reply" => \A c \in commits' : c.mount = x.mount => c.file.fh # x.file.fh
    <2>1. PICK o \in handlers : Kin(x, o) /\ (x = g => o = h) /\ (x # g => x.next = o.next /\ o # h)
      BY <1>1
    <2>2. Writes(o)
      BY <2>1, <1>5 DEF Kin, Writes
    <2>3. /\ o.file.fh < nextFh[o.mount]
          /\ \A f \in open[o.mount] : f.fh # o.file.fh
          /\ \A y \in handlers : Writes(y) /\ y.mount = o.mount /\ y.file.fh = o.file.fh => y.id = o.id
          /\ o.next # "reply" => \A c \in commits : c.mount = o.mount => c.file.fh # o.file.fh
      BY <2>2, <1>0 DEF HandlesApart
    <2>4. \A y \in handlers' : Writes(y) /\ y.mount = x.mount /\ y.file.fh = x.file.fh => y.id = x.id
      <3> SUFFICES ASSUME NEW y \in handlers', Writes(y), y.mount = x.mount, y.file.fh = x.file.fh
                   PROVE  y.id = x.id
        OBVIOUS
      <3>1. PICK q \in handlers : Kin(y, q)
        BY <1>1
      <3> QED
        BY <3>1, <2>1, <2>3 DEF Kin, Writes
    <2>5. ASSUME x.next # "reply", NEW c \in commits', c.mount = x.mount PROVE c.file.fh # x.file.fh
      <3>1. o.next # "reply"
        BY <2>1, <2>5, <1>0
      <3>2. CASE c \in commits
        BY <3>1, <3>2, <2>1, <2>3, <2>5 DEF Kin
      <3>3. CASE c \notin commits
        <4>1. c.mount = h.mount /\ c.file = h.file /\ Writes(h) /\ x # g
          BY <3>3, <1>2, <2>5
        <4>2. o # h /\ o.mount = h.mount
          BY <4>1, <2>1, <2>5 DEF Kin
        <4>3. o.id # h.id
          BY <4>2 DEF IInv, RequestsNumbered
        <4> QED
          BY <4>1, <4>2, <4>3, <2>1, <2>3 DEF Kin
      <3> QED
        BY <3>2, <3>3
    <2> QED
      BY <2>1, <2>3, <2>4, <2>5, <1>0 DEF Kin
  <1>6. ASSUME NEW c \in commits'
        PROVE  c.file.fh < nextFh'[c.mount] /\ \A f \in open'[c.mount] : f.fh # c.file.fh
    BY <1>0, <1>2 DEF HandlesApart
  <1>7. HandlesApart'
    BY <1>3, <1>4, <1>5, <1>6 DEF HandlesApart, Writes
  <1>8. AppliedOnce'
    <2> SUFFICES ASSUME NEW c \in commits', NEW d \in commits', c.mount = d.mount, c.file.fh = d.file.fh
                 PROVE  c.version = d.version /\ c.path = d.path
      BY DEF AppliedOnce
    <2>0. \A e \in commits : Writes(h) /\ h.next # "reply" /\ e.mount = h.mount => e.file.fh # h.file.fh
      BY <1>0 DEF HandlesApart
    <2>1. CASE c \in commits /\ d \in commits
      BY <2>1 DEF IInv, AppliedOnce
    <2>2. CASE c \in commits /\ d \notin commits
      BY <2>0, <2>2, <1>2
    <2>3. CASE c \notin commits /\ d \in commits
      BY <2>0, <2>3, <1>2
    <2>4. CASE c \notin commits /\ d \notin commits
      BY <2>4 DEF HandlerStep, Committed
    <2> QED
      BY <2>1, <2>2, <2>3, <2>4
  <1> QED
    BY <1>7, <1>8

LEMMA StepSaved ==
  ASSUME IInv, TypeOK', NEW h, NEW g, HandlerStep(h, g)
  PROVE  SavedIsStored'
  <1>1. closes' = closes /\ RowsGrow /\ rows' \in [Paths -> Seq(Bytes \cup {None})]
    BY DEF HandlerStep, TypeOK
  <1> SUFFICES ASSUME NEW c \in closes, ~(c.base = None /\ c.bytes = Empty) PROVE Stored(c.path, c.bytes)'
    BY <1>1 DEF SavedIsStored, Stored
  <1>2. c.path \in Paths /\ Stored(c.path, c.bytes)
    BY DEF IInv, TypeOK, SavedIsStored, Stored
  <1> QED
    BY <1>1, <1>2, StoredStays DEF IInv

(* The request a callback waits for keeps its identity. *)
LEMMA StepCurrent ==
  ASSUME IInv, NEW h \in handlers, NEW g, HandlerStep(h, g), NEW x \in handlers'
  PROVE  \E o \in handlers :
            /\ Kin(x, o) /\ (Current(x)' <=> Current(o)) /\ (x = g => o = h)
            /\ x # g => o # h /\ x.next = o.next /\ x.res = o.res /\ x.names = o.names
  <1>1. call' = call
    BY DEF HandlerStep
  <1>2. PICK o \in handlers : /\ Kin(x, o) /\ (x = g => o = h)
                              /\ x # g => o # h /\ x.next = o.next /\ x.res = o.res /\ x.names = o.names
    BY DEF HandlerStep, Passed
  <1>3. Current(x)' <=> Current(o)
    BY <1>1, <1>2 DEF Kin, Current
  <1> QED
    BY <1>2, <1>3

LEMMA StepMatching ==
  ASSUME IInv, NEW h \in handlers, NEW g, HandlerStep(h, g)
  PROVE  Matching'
  <1> SUFFICES ASSUME NEW x \in handlers', Current(x)'
               PROVE  /\ call'[x.mount].step = x.op /\ call'[x.mount].path = x.path /\ call'[x.mount].to = x.to
                      /\ ~is_idempotent(x.op) => call'[x.mount].stage = "wait"
    BY DEF Matching, is_idempotent
  <1>1. PICK o \in handlers : Kin(x, o) /\ Current(o)
    BY StepCurrent
  <1>2. /\ call[o.mount].step = o.op /\ call[o.mount].path = o.path /\ call[o.mount].to = o.to
        /\ ~is_idempotent(o.op) => call[o.mount].stage = "wait"
    BY <1>1 DEF IInv, Matching
  <1> QED
    BY <1>1, <1>2 DEF HandlerStep, Kin

(* A change under way goes on, or its names are forgotten. *)
LEMMA StepChanging ==
  ASSUME IInv, NEW h \in handlers, NEW g, HandlerStep(h, g), NEW m \in Mounts, NEW p \in Paths, Changing(m, p)
  PROVE  Changing(m, p)' \/ mine'[m][p] = "unknown"
  <1> SUFFICES ASSUME mine'[m][p] # "unknown" PROVE Changing(m, p)'
    OBVIOUS
  <1>0. call' = call
    BY DEF HandlerStep
  <1>1. ASSUME NEW x \in handlers', x.mount = m, x.id = call[m].id
        PROVE  x.res = "ok" /\ Begun(x)
    <2>1. PICK o \in handlers : /\ Kin(x, o) /\ (x = g => o = h)
                                /\ x # g => o # h /\ x.next = o.next /\ x.res = o.res /\ x.names = o.names
      BY StepCurrent
    <2>2. o.mount = m /\ o.id = call[m].id /\ o.res = "ok" /\ Begun(o)
      BY <2>1, <1>1 DEF Kin, Changing
    <2>3. CASE x # g
      BY <2>1, <2>2, <2>3 DEF Begun, Kin
    <2>4. CASE x = g
      <3>1. o = h /\ Current(h)
        BY <2>1, <2>2, <2>4 DEF Current, Changing
      <3>2. h.op \in Names /\ h.mount = m /\ p \in {h.path, h.to}
        BY <3>1, <2>2 DEF IInv, Matching, Changing, Names
      <3>3. ~Forgets(h)
        BY <3>1, <3>2 DEF Forgets
      <3> QED
        BY <3>1, <3>2, <3>3, <2>2, <2>4 DEF HandlerStep
    <2> QED
      BY <2>3, <2>4
  <1> QED
    BY <1>0, <1>1 DEF Changing, Begun

LEMMA StepListings ==
  ASSUME IInv, TypeOK', RequestsNumbered', NEW h \in handlers, NEW g, HandlerStep(h, g),
         NamesLeft \/ NameSet(h, g),
         h.op = "read_dir" /\ g.next = "reply" /\ g.res = "ok" =>
            \A p \in Paths : Parent[p] = Parent[h.path] => Agrees(h.mount, p, g.names)
  PROVE  ListingsAgree'
  <1>0. call' = call /\ listing' = listing /\ h \in Handler /\ h.mount \in Mounts
    BY DEF HandlerStep, IInv, TypeOK, Handler
  <1>1. CASE NamesLeft
    <2>1. \A m \in Mounts, p \in Paths : \A S : Agrees(m, p, S) => Agrees(m, p, S)'
      BY <1>1 DEF Agrees, NamesLeft
    <2>2. ASSUME NEW m \in Mounts, NEW p \in Paths
          PROVE  /\ mine'[m][p] = "present" => object'[p] # None
                 /\ mine'[m][p] = "absent" => object'[p] = None
                 /\ listing'[m][Parent[p]] # None => Agrees(m, p, listing[m][Parent[p]])' \/ Changing(m, p)'
      <3>1. Agrees(m, p, listing[m][Parent[p]]) => Agrees(m, p, listing[m][Parent[p]])'
        BY <1>0, <2>1 DEF Agrees
      <3>2. mine'[m][p] = "unknown" => Agrees(m, p, listing[m][Parent[p]])'
        BY DEF Agrees
      <3>3. /\ mine[m][p] = "present" => object[p] # None
            /\ mine[m][p] = "absent" => object[p] = None
            /\ listing[m][Parent[p]] # None => Agrees(m, p, listing[m][Parent[p]]) \/ Changing(m, p)
        BY DEF IInv, ListingsAgree
      <3>4. mine'[m][p] \in {mine[m][p], "unknown"} /\ object'[p] = object[p] /\ listing' = listing
        BY <1>0, <1>1 DEF NamesLeft
      <3>5. Changing(m, p) => Changing(m, p)' \/ mine'[m][p] = "unknown"
        BY StepChanging
      <3> QED
        BY <3>1, <3>2, <3>3, <3>4, <3>5
    <2>3. ASSUME NEW x \in handlers', x.op = "read_dir", x.next = "reply", x.res = "ok", Current(x)',
                 NEW p \in Paths, Parent[p] = Parent[x.path]
          PROVE  Agrees(x.mount, p, x.names)'
      <3>1. PICK o \in handlers : /\ Kin(x, o) /\ Current(o) /\ (x = g => o = h)
                                  /\ x # g => o # h /\ x.next = o.next /\ x.res = o.res /\ x.names = o.names
        BY <2>3, StepCurrent
      <3>2. o.mount \in Mounts
        BY DEF IInv, TypeOK, Handler
      <3>3. Agrees(o.mount, p, x.names)
        BY <3>1, <2>3 DEF Kin, IInv, ListingsAgree
      <3> QED
        BY <3>1, <3>2, <3>3, <2>1 DEF Kin
    <2> QED
      BY <2>2, <2>3 DEF ListingsAgree
  <1>2. CASE NameSet(h, g)
    <2>1. PICK p \in {h.path, h.to}, b \in Bytes \cup {None} :
             /\ object' = [object EXCEPT ![p] = b]
             /\ mine' = [m \in Mounts |-> [mine[m] EXCEPT ![p] =
                           IF m # h.mount \/ ~Current(h) THEN "unknown"
                           ELSE IF b = None THEN "absent" ELSE "present"]]
      BY <1>2 DEF NameSet
    <2>2. p \in Paths
      BY <1>0 DEF Handler
    <2>3. /\ \A m \in Mounts, q \in Paths : q # p => mine'[m][q] = mine[m][q] /\ object'[q] = object[q]
          /\ \A m \in Mounts : m # h.mount \/ ~Current(h) => mine'[m][p] = "unknown"
          /\ \A m \in Mounts : /\ mine'[m][p] = "present" => object'[p] # None
                               /\ mine'[m][p] = "absent" => object'[p] = None
      BY <2>1, <2>2 DEF IInv, TypeOK
    <2>4. \A m \in Mounts, q \in Paths : q # p => \A S : Agrees(m, q, S)' <=> Agrees(m, q, S)
      BY <2>3 DEF Agrees
    <2>5. \A m \in Mounts : m # h.mount \/ ~Current(h) => \A S : Agrees(m, p, S)'
      BY <2>3 DEF Agrees
    <2>6. Current(h) => Changing(h.mount, p)'
      <3> SUFFICES ASSUME Current(h) PROVE Changing(h.mount, p)'
        OBVIOUS
      <3>1. /\ call[h.mount] # None /\ call[h.mount].id = h.id /\ call[h.mount].step = h.op
            /\ call[h.mount].path = h.path /\ call[h.mount].to = h.to
            /\ ~is_idempotent(h.op) => call[h.mount].stage = "wait"
        BY DEF IInv, Matching, Current
      <3>2. h.op \in {"open_write", "unlink", "rename"} /\ call[h.mount].stage = "wait"
        BY <3>1, <1>2 DEF NameSet, Names, is_idempotent
      <3>3. \A x \in handlers' : x.mount = h.mount /\ x.id = h.id => x = g
        BY DEF RequestsNumbered, HandlerStep, Kin
      <3>4. g.res = "ok" /\ Begun(g)
        BY <1>2 DEF NameSet
      <3> QED
        BY <3>1, <3>2, <3>3, <3>4, <1>0 DEF Changing, Begun
    <2>7. ASSUME NEW m \in Mounts, NEW q \in Paths
          PROVE  /\ mine'[m][q] = "present" => object'[q] # None
                 /\ mine'[m][q] = "absent" => object'[q] = None
                 /\ listing'[m][Parent[q]] # None => Agrees(m, q, listing[m][Parent[q]])' \/ Changing(m, q)'
      <3>1. CASE q = p
        <4>1. (m # h.mount \/ ~Current(h)) \/ Changing(m, q)'
          BY <3>1, <2>6
        <4>2. m # h.mount \/ ~Current(h) => mine'[m][q] = "unknown"
          BY <3>1, <2>3
        <4>3. mine'[m][q] = "unknown" => Agrees(m, q, listing[m][Parent[q]])'
          BY DEF Agrees
        <4> QED
          BY <3>1, <4>1, <4>2, <4>3, <2>3
      <3>2. CASE q # p
        <4>1. /\ mine[m][q] = "present" => object[q] # None
              /\ mine[m][q] = "absent" => object[q] = None
              /\ listing[m][Parent[q]] # None => Agrees(m, q, listing[m][Parent[q]]) \/ Changing(m, q)
          BY DEF IInv, ListingsAgree
        <4> QED
          BY <3>2, <4>1, <2>3, <1>0, StepChanging DEF Agrees
      <3> QED
        BY <3>1, <3>2
    <2>8. ASSUME NEW x \in handlers', x.op = "read_dir", x.next = "reply", x.res = "ok", Current(x)',
                 NEW q \in Paths, Parent[q] = Parent[x.path]
          PROVE  Agrees(x.mount, q, x.names)'
      <3>1. PICK o \in handlers : /\ Kin(x, o) /\ Current(o) /\ (x = g => o = h)
                                  /\ x # g => o # h /\ x.next = o.next /\ x.res = o.res /\ x.names = o.names
        BY <2>8, StepCurrent
      <3>2. o.mount \in Mounts /\ o # h /\ x # g
        BY <3>1, <2>8, <1>2 DEF IInv, TypeOK, Handler, Kin, NameSet, Names
      <3>3. Agrees(o.mount, q, x.names)
        BY <3>1, <3>2, <2>8 DEF Kin, IInv, ListingsAgree
      <3>4. o.mount # h.mount \/ ~Current(h)
        BY <3>1, <3>2 DEF IInv, RequestsNumbered, Current
      <3>5. Agrees(o.mount, q, x.names)'
        BY <3>2, <3>3, <3>4, <2>4, <2>5
      <3> QED
        BY <3>1, <3>5 DEF Kin
    <2> QED
      BY <2>7, <2>8 DEF ListingsAgree
  <1> QED
    BY <1>1, <1>2

LEMMA StepKeeps ==
  ASSUME IInv, TypeOK', RequestsNumbered', NEW h \in handlers, NEW g, HandlerStep(h, g), HandlerSound(g)',
         NamesLeft \/ NameSet(h, g),
         h.op = "read_dir" /\ g.next = "reply" /\ g.res = "ok" =>
            \A p \in Paths : Parent[p] = Parent[h.path] => Agrees(h.mount, p, g.names)
  PROVE  IInv'
  BY StepFiles, StepHandlers, StepHandles, StepSaved, StepMatching, StepListings DEF IInv

LEMMA NameSetTyped ==
  ASSUME TypeOK, NEW h \in Handler, NEW g, NameSet(h, g)
  PROVE  /\ object' \in [Paths -> Bytes \cup {None}]
         /\ mine' \in [Mounts -> [Paths -> {"unknown", "present", "absent"}]]
  <1>1. PICK p \in {h.path, h.to}, b \in Bytes \cup {None} :
             /\ object' = [object EXCEPT ![p] = b]
             /\ mine' = [m \in Mounts |-> [mine[m] EXCEPT ![p] =
                           IF m # h.mount \/ ~Current(h) THEN "unknown"
                           ELSE IF b = None THEN "absent" ELSE "present"]]
    BY DEF NameSet
  <1>2. object' \in [Paths -> Bytes \cup {None}]
    BY <1>1 DEF TypeOK
  <1>3. mine' \in [Mounts -> [Paths -> {"unknown", "present", "absent"}]]
    <2>1. \A m \in Mounts : mine[m] \in [Paths -> {"unknown", "present", "absent"}]
      BY DEF TypeOK
    <2>2. \A m \in Mounts : (IF m # h.mount \/ ~Current(h) THEN "unknown" ELSE IF b = None THEN "absent" ELSE "present")
                              \in {"unknown", "present", "absent"}
      OBVIOUS
    <2> QED
      BY <1>1, <2>1, <2>2
  <1> QED
    BY <1>2, <1>3

(* A step that adds no version. *)
LEMMA GotoKeeps ==
  ASSUME IInv, UNCHANGED <<up, wire, helper, nextId, calls, rows, commits, closes>>, faults' \in 0 .. MaxFaults,
         NEW h \in handlers, NEW g \in Handler, Goto(h, g), Kin(g, h), h.next = "reply" => g.next = "reply",
         g.bytes = h.bytes \/ ~Writes(h), h.op \in Names /\ Begun(h) => (g.res = "ok" /\ Begun(g)) \/ Forgets(h),
         HandlerSound(g), NamesLeft \/ NameSet(h, g),
         h.op = "read_dir" /\ g.next = "reply" /\ g.res = "ok" =>
            \A p \in Paths : Parent[p] = Parent[h.path] => Agrees(h.mount, p, g.names)
  PROVE  IInv'
  <1>1. /\ handlers' = (handlers \ {h}) \cup {g} /\ handlers' \subseteq Handler /\ h \in Handler
    BY DEF Goto, IInv, TypeOK
  <1>2. TypeOK'
    <2>1. /\ object' \in [Paths -> Bytes \cup {None}]
          /\ mine' \in [Mounts -> [Paths -> {"unknown", "present", "absent"}]]
      BY <1>1, NameSetTyped DEF IInv, TypeOK, NamesLeft, Marks
    <2> QED
      BY <1>1, <2>1 DEF IInv, TypeOK, wire, helper
  <1>3. RequestsNumbered'
    BY <1>1 DEF IInv, RequestsNumbered, Kin
  <1>4. HandlerSound(g)'
    BY DEF HandlerSound, Writes, Stored, HeadVersion
  <1>5. HandlerStep(h, g)
    <2>1. RowsGrow
      BY RowsSame DEF IInv
    <2>2. \A x \in handlers' : x = g \/ \E o \in handlers \ {h} : Passed(x, o)
      BY <1>1 DEF Passed, Kin
    <2> QED
      BY <2>1, <2>2, <1>1 DEF HandlerStep, Committed, helper
  <1> QED
    BY <1>2, <1>3, <1>4, <1>5, StepKeeps

LEMMA LookKeeps ==
  ASSUME IInv, UNCHANGED <<up, wire, helper, nextId, calls, faults>>, NEW h \in handlers, Look(h)
  PROVE  IInv'
  <1>0. h \in Handler /\ HandlerSound(h) /\ h.next = "look" /\ h.op \in {"get_attr", "read_dir"}
    BY DEF IInv, TypeOK, HandlersSound, HandlerSound, Look
  <1>1. PICK S \in SUBSET Paths : S = IF h.op = "read_dir" THEN Listed(Parent[h.path]) ELSE {}
    BY DEF Listed
  <1>2. PICK r \in {"ok", "missing"} : r = IF h.op = "read_dir" \/ object[h.path] # None THEN "ok" ELSE "missing"
    OBVIOUS
  <1>3. PICK g : g = [h EXCEPT !.next = "reply", !.names = S, !.res = r]
    OBVIOUS
  <1>4. g \in Handler /\ Kin(g, h) /\ g.bytes = h.bytes /\ g.next = "reply" /\ g.names = S /\ g.op = h.op
    BY <1>0, <1>3 DEF Handler, Kin
  <1>5. Goto(h, g) /\ UNCHANGED <<object, rows, history>>
    BY <1>1, <1>2, <1>3 DEF Look
  <1>6. HandlerSound(g)
    BY <1>0, <1>4 DEF HandlerSound, Writes
  <1>7. ASSUME h.op = "read_dir", NEW p \in Paths, Parent[p] = Parent[h.path]
        PROVE  Agrees(h.mount, p, g.names)
    <2>1. h.mount \in Mounts /\ g.names = Listed(Parent[h.path])
      BY <1>0, <1>1, <1>4, <1>7 DEF Handler
    <2>2. /\ mine[h.mount][p] = "present" => object[p] # None
          /\ mine[h.mount][p] = "absent" => object[p] = None
      BY <2>1 DEF IInv, ListingsAgree
    <2> QED
      BY <2>1, <2>2, <1>7 DEF Agrees, Listed
  <1>8. h.op \notin Names
    BY <1>0 DEF Names
  <1> QED
    BY <1>0, <1>4, <1>5, <1>6, <1>7, <1>8, Unchanged, GotoKeeps DEF history

LEMMA ReadKeeps ==
  ASSUME IInv, UNCHANGED <<up, wire, helper, nextId, calls, faults>>, NEW h \in handlers, GetObject(h) \/ ReadHead(h)
  PROVE  IInv'
  <1>0. /\ h \in Handler /\ HandlerSound(h) /\ h.next \in {"get", "head"} /\ h.op = "open_read" /\ h.path \in Paths
        /\ UNCHANGED <<object, rows, history>>
    BY DEF IInv, TypeOK, Handler, HandlersSound, HandlerSound, GetObject, ReadHead
  <1>1. PICK g : g \in Handler /\ Kin(g, h) /\ Goto(h, g) /\ HandlerSound(g)
    <2>1. CASE GetObject(h) /\ object[h.path] = None
      <3>1. PICK g : g = [h EXCEPT !.next = "reply", !.res = "missing"]
        OBVIOUS
      <3>2. g \in Handler /\ Kin(g, h) /\ g.next = "reply" /\ g.res = "missing" /\ g.op = h.op
        BY <3>1, <1>0 DEF Handler, Kin
      <3> QED
        BY <3>1, <3>2, <2>1, <1>0 DEF GetObject, HandlerSound, Writes
    <2>2. CASE GetObject(h) /\ object[h.path] # None
      <3>0. h.next = "get" /\ object[h.path] \in Bytes
        BY <2>2, <1>0 DEF GetObject, IInv, TypeOK
      <3>1. PICK g : g = [h EXCEPT !.next = "head", !.bytes = object[h.path]]
        OBVIOUS
      <3>2. /\ g \in Handler /\ Kin(g, h) /\ g.next = "head" /\ g.res = h.res /\ g.op = h.op
            /\ g.bytes = object[h.path]
        BY <3>0, <3>1, <1>0 DEF Handler, Kin
      <3>3. HandlerSound(g)
        BY <3>0, <3>2, <1>0 DEF HandlerSound, Writes
      <3> QED
        BY <3>1, <3>2, <3>3, <2>2 DEF GetObject
    <2>3. CASE ReadHead(h)
      <3>0. h.next = "head" /\ HeadVersion(h.path) \in Nat
        BY <2>3, <1>0 DEF ReadHead, HeadVersion, IInv, TypeOK
      <3>1. PICK g : g = [h EXCEPT !.next = "reply", !.version = HeadVersion(h.path)]
        OBVIOUS
      <3>2. /\ g \in Handler /\ Kin(g, h) /\ g.next = "reply" /\ g.res = h.res /\ g.op = h.op /\ g.path = h.path
            /\ g.bytes = h.bytes /\ g.version = HeadVersion(h.path)
        BY <3>0, <3>1, <1>0 DEF Handler, Kin
      <3>3. HandlerSound(g)
        BY <3>0, <3>2, <1>0 DEF HandlerSound, Writes
      <3> QED
        BY <3>1, <3>2, <3>3, <2>3 DEF ReadHead
    <2> QED
      BY <2>1, <2>2, <2>3
  <1>2. h.op \notin Names /\ ~Writes(h) /\ h.op # "read_dir" /\ h.next # "reply"
    BY <1>0 DEF Names, Writes
  <1> QED
    BY <1>0, <1>1, <1>2, Unchanged, GotoKeeps DEF history

LEMMA CheckVersionKeeps ==
  ASSUME IInv, UNCHANGED <<up, wire, helper, nextId, calls, faults>>, NEW h \in handlers, CheckVersion(h)
  PROVE  IInv'
  <1>0. /\ h \in Handler /\ HandlerSound(h) /\ h.next = "check" /\ Writes(h) /\ h.path \in Paths /\ h.res = "ok"
        /\ UNCHANGED <<object, rows, history>> /\ h.file \in OpenFile /\ FileOK(h.file) /\ h.path = h.file.path
    BY DEF IInv, TypeOK, Handler, HandlersSound, HandlerSound, CheckVersion, FilesSound
  <1>1. PICK g : g \in Handler /\ Kin(g, h) /\ Goto(h, g) /\ HandlerSound(g) /\ g.bytes = h.bytes
    <2>1. CASE ~assertExpectedVersion(h.path, h.file.base)
      <3>1. PICK g : g = [h EXCEPT !.next = "reply", !.res = "conflict"]
        OBVIOUS
      <3>2. g \in Handler /\ Kin(g, h) /\ g.next = "reply" /\ g.res = "conflict" /\ g.op = h.op /\ g.bytes = h.bytes
        BY <3>1, <1>0 DEF Handler, Kin
      <3> QED
        BY <3>1, <3>2, <2>1, <1>0 DEF CheckVersion, HandlerSound, Writes
    <2>2. CASE /\ assertExpectedVersion(h.path, h.file.base) /\ h.file.base # None
               /\ HeadVersion(h.path) > 0 /\ HeadBytes(h.path) = h.bytes
      <3>1. PICK g : g = [h EXCEPT !.next = "reply"]
        OBVIOUS
      <3>2. g \in Handler /\ Kin(g, h) /\ g.next = "reply" /\ g.op = h.op /\ g.path = h.path /\ g.bytes = h.bytes
        BY <3>1, <1>0 DEF Handler, Kin
      <3>3. Stored(h.path, h.bytes)
        <4>1. /\ Len(rows[h.path]) \in Nat /\ DOMAIN rows[h.path] = 1 .. Len(rows[h.path])
              /\ Len(rows[h.path]) > 0 /\ rows[h.path] # << >>
          BY <2>2, <1>0 DEF IInv, TypeOK, HeadVersion
        <4> QED
          BY <4>1, <2>2 DEF Stored, HeadBytes
      <3> QED
        BY <3>1, <3>2, <3>3, <2>2, <1>0 DEF CheckVersion, HandlerSound, Writes
    <2>3. CASE /\ assertExpectedVersion(h.path, h.file.base)
               /\ ~(h.file.base # None /\ HeadVersion(h.path) > 0 /\ HeadBytes(h.path) = h.bytes)
      <3>1. PICK g : g = [h EXCEPT !.next = "put"]
        OBVIOUS
      <3>2. /\ g \in Handler /\ Kin(g, h) /\ g.next = "put" /\ g.op = h.op /\ g.path = h.path /\ g.bytes = h.bytes
            /\ g.file = h.file /\ g.res = h.res
        BY <3>1, <1>0 DEF Handler, Kin
      <3>3. h.file.fresh => h.file.base = HeadVersion(h.path)
        <4>1. HeadVersion(h.path) \in Nat
          BY <1>0 DEF IInv, TypeOK, HeadVersion
        <4> QED
          BY <4>1, <2>3, <1>0 DEF assertExpectedVersion, FileOK
      <3>4. HandlerSound(g)
        BY <3>2, <3>3, <1>0 DEF HandlerSound, Writes
      <3> QED
        BY <3>1, <3>2, <3>4, <2>3 DEF CheckVersion
    <2> QED
      BY <2>1, <2>2, <2>3
  <1>2. ~Begun(h) /\ h.op # "read_dir" /\ h.next # "reply"
    BY <1>0 DEF Begun, Writes
  <1> QED
    BY <1>0, <1>1, <1>2, Unchanged, GotoKeeps DEF history

LEMMA SetObjectKeeps ==
  ASSUME IInv, UNCHANGED <<up, wire, helper, nextId, calls, faults>>, NEW h \in handlers, NEW g \in Handler,
         NEW p \in {h.path, h.to}, NEW b \in Bytes \cup {None}, SetObject(h, p, b), Goto(h, g), Kin(g, h),
         h.op \in Names, h.next # "reply", g.bytes = h.bytes \/ ~Writes(h), g.res = "ok", Begun(g), HandlerSound(g)
  PROVE  IInv'
  <1>1. NameSet(h, g) /\ UNCHANGED <<rows, commits, closes>>
    BY DEF NameSet, SetObject
  <1>2. h.op # "read_dir"
    BY DEF Names
  <1> QED
    BY <1>1, <1>2, Unchanged, GotoKeeps

LEMMA PutObjectKeeps ==
  ASSUME IInv, UNCHANGED <<up, wire, helper, nextId, calls, faults>>, NEW h \in handlers, PutObject(h)
  PROVE  IInv'
  <1>0. /\ h \in Handler /\ HandlerSound(h) /\ h.next = "put" /\ Writes(h) /\ h.res = "ok" /\ h.bytes \in Bytes \cup {None}
        /\ SetObject(h, h.path, h.bytes)
    BY DEF IInv, TypeOK, Handler, HandlersSound, HandlerSound, PutObject
  <1>1. PICK g : g = [h EXCEPT !.next = "commit"]
    OBVIOUS
  <1>2. /\ g \in Handler /\ Kin(g, h) /\ g.next = "commit" /\ g.op = h.op /\ g.path = h.path /\ g.bytes = h.bytes
        /\ g.file = h.file /\ g.res = h.res /\ g.raced = h.raced
    BY <1>0, <1>1 DEF Handler, Kin
  <1>3. HandlerSound(g)
    BY <1>0, <1>2 DEF HandlerSound, Writes
  <1>4. h.op \in Names /\ Begun(g) /\ Goto(h, g)
    BY <1>0, <1>1, <1>2 DEF Names, Begun, Writes, PutObject
  <1> QED
    BY <1>0, <1>2, <1>3, <1>4, SetObjectKeeps

LEMMA CopyObjectKeeps ==
  ASSUME IInv, UNCHANGED <<up, wire, helper, nextId, calls, faults>>, NEW h \in handlers, CopyObject(h)
  PROVE  IInv'
  <1>0. /\ h \in Handler /\ HandlerSound(h) /\ h.next = "copy" /\ h.op = "rename" /\ h.res = "ok" /\ h.path \in Paths
    BY DEF IInv, TypeOK, Handler, HandlersSound, HandlerSound, CopyObject
  <1>1. h.op \in Names /\ ~Begun(h) /\ h.op # "read_dir" /\ ~Writes(h) /\ h.next # "reply"
    BY <1>0 DEF Names, Begun, Writes
  <1>2. CASE object[h.path] = None
    <2>1. PICK g : g = [h EXCEPT !.next = "reply", !.res = "missing"]
      OBVIOUS
    <2>2. g \in Handler /\ Kin(g, h) /\ g.next = "reply" /\ g.op = h.op
      BY <2>1, <1>0 DEF Handler, Kin
    <2>3. HandlerSound(g)
      BY <2>2, <1>0 DEF HandlerSound, Writes
    <2>4. Goto(h, g) /\ UNCHANGED <<object, rows, history>>
      BY <2>1, <1>2 DEF CopyObject
    <2> QED
      BY <2>2, <2>3, <2>4, <1>1, Unchanged, GotoKeeps DEF history
  <1>3. CASE object[h.path] # None
    <2>0. PICK b \in Bytes \cup {None} : b = object[h.path]
      BY <1>0 DEF IInv, TypeOK
    <2>1. PICK g : g = [h EXCEPT !.next = "commit", !.bytes = b]
      OBVIOUS
    <2>2. g \in Handler /\ Kin(g, h) /\ g.next = "commit" /\ g.op = h.op /\ g.res = h.res
      BY <2>1, <1>0 DEF Handler, Kin
    <2>3. HandlerSound(g)
      BY <2>2, <1>0 DEF HandlerSound, Writes
    <2>4. Goto(h, g) /\ SetObject(h, h.to, b) /\ Begun(g)
      BY <2>0, <2>1, <2>2, <1>3 DEF CopyObject, Begun
    <2> QED
      BY <2>2, <2>3, <2>4, <1>0, <1>1, SetObjectKeeps
  <1> QED
    BY <1>2, <1>3

LEMMA DeleteObjectKeeps ==
  ASSUME IInv, UNCHANGED <<up, wire, helper, nextId, calls, faults>>, NEW h \in handlers, DeleteObject(h)
  PROVE  IInv'
  <1>0. /\ h \in Handler /\ HandlerSound(h) /\ h.next = "delete" /\ h.op \in {"unlink", "rename"} /\ h.res = "ok"
        /\ SetObject(h, h.path, None)
    BY DEF IInv, TypeOK, HandlersSound, HandlerSound, DeleteObject
  <1>1. PICK g : g = [h EXCEPT !.next = "bury"]
    OBVIOUS
  <1>2. g \in Handler /\ Kin(g, h) /\ g.next = "bury" /\ g.op = h.op /\ g.res = h.res /\ g.bytes = h.bytes
    BY <1>0, <1>1 DEF Handler, Kin
  <1>3. HandlerSound(g)
    BY <1>0, <1>2 DEF HandlerSound, Writes
  <1>4. h.op \in Names /\ Begun(g) /\ Goto(h, g)
    BY <1>0, <1>1, <1>2 DEF Names, Begun, DeleteObject
  <1> QED
    BY <1>0, <1>2, <1>3, <1>4, SetObjectKeeps

(* A version is added: the writers behind their check are raced. *)
LEMMA AddVersionKeeps ==
  ASSUME IInv, UNCHANGED <<up, wire, helper, nextId, calls, faults>>, NEW h \in handlers, NEW g \in Handler,
         NEW p \in Paths, NEW b \in Bytes \cup {None}, AddVersion(h, p, b, g), Kin(g, h), Committed(h, g),
         h.op \in Names, h.next # "reply", g.bytes = h.bytes, g.res = "ok", Begun(g), HandlerSound(g)'
  PROVE  IInv'
  <1> DEFINE Mark(o) == IF o.op = "open_write" /\ o.path = p /\ o.next \in {"put", "commit"}
                        THEN [o EXCEPT !.raced = TRUE] ELSE o
  <1>1. /\ rows' = [rows EXCEPT ![p] = Append(@, b)] /\ UNCHANGED <<object, closes, mine>>
        /\ handlers' = {Mark(o) : o \in handlers \ {h}} \cup {g}
    BY DEF AddVersion
  <1>2. /\ RowsGrow /\ rows' \in [Paths -> Seq(Bytes \cup {None})] /\ \A q \in Paths \ {p} : rows'[q] = rows[q]
    BY <1>1, RowsAppend DEF IInv
  <1>3. \A o \in handlers : o \in Handler /\ o.path \in Paths
    BY DEF IInv, TypeOK, Handler
  <1>4. ASSUME NEW o \in handlers
        PROVE  Mark(o) \in Handler /\ Passed(Mark(o), o)
    <2>1. CASE o.op = "open_write" /\ o.path = p /\ o.next \in {"put", "commit"}
      <3>1. PICK x : x = [o EXCEPT !.raced = TRUE]
        OBVIOUS
      <3>2. /\ x \in Handler /\ Kin(x, o) /\ x.next = o.next /\ x.res = o.res /\ x.bytes = o.bytes
            /\ x.version = o.version /\ x.names = o.names /\ x.raced = TRUE
        BY <3>1, <1>3 DEF Handler, Kin
      <3>3. Passed(x, o)
        BY <3>2 DEF Passed
      <3> QED
        BY <2>1, <3>1, <3>2, <3>3
    <2>2. CASE ~(o.op = "open_write" /\ o.path = p /\ o.next \in {"put", "commit"})
      BY <2>2, <1>2, <1>3 DEF Passed, Kin, Writes
    <2> QED
      BY <2>1, <2>2
  <1>5. \A o \in handlers : Mark(o).mount = o.mount /\ Mark(o).id = o.id
    BY <1>4 DEF Passed, Kin
  <1> HIDE DEF Mark
  <1>6. commits' \subseteq [mount : Mounts, file : OpenFile, raced : BOOLEAN, path : Paths, version : Nat]
    <2>1. CASE commits' = commits
      BY <2>1 DEF IInv, TypeOK
    <2>2. CASE commits' # commits
      <3>1. /\ Writes(h)
            /\ commits' = commits \cup {[mount |-> h.mount, file |-> h.file, raced |-> h.raced, path |-> h.path,
                                         version |-> HeadVersion(h.path) + 1]}
        BY <2>2 DEF Committed
      <3>2. h \in Handler /\ h.file \in OpenFile /\ HeadVersion(h.path) \in Nat
        BY <3>1, <1>3 DEF IInv, FilesSound, TypeOK, HeadVersion
      <3>3. [mount |-> h.mount, file |-> h.file, raced |-> h.raced, path |-> h.path, version |-> HeadVersion(h.path) + 1]
              \in [mount : Mounts, file : OpenFile, raced : BOOLEAN, path : Paths, version : Nat]
        BY <3>2 DEF Handler
      <3> QED
        BY <3>1, <3>3 DEF IInv, TypeOK
    <2> QED
      BY <2>1, <2>2
  <1>7. TypeOK'
    <2>1. handlers' \subseteq Handler
      BY <1>1, <1>4
    <2> QED
      BY <2>1, <1>1, <1>2, <1>6 DEF IInv, TypeOK, wire, helper
  <1>8. RequestsNumbered'
    <2>0. \A o, q \in handlers : o.mount = q.mount /\ o.id = q.id => o = q
      BY DEF IInv, RequestsNumbered
    <2>1. \A x \in handlers' : x.id \in 1 .. nextId'[x.mount]
      BY <1>1, <1>5 DEF IInv, RequestsNumbered, Kin
    <2>2. \A x, y \in handlers' : x.mount = y.mount /\ x.id = y.id => x = y
      BY <2>0, <1>1, <1>5 DEF Kin
    <2> QED
      BY <2>1, <2>2 DEF RequestsNumbered
  <1>9. HandlerStep(h, g)
    <2>1. g \in handlers' /\ \A x \in handlers' : x = g \/ \E o \in handlers \ {h} : Passed(x, o)
      BY <1>1, <1>4
    <2> QED
      BY <2>1, <1>1, <1>2 DEF HandlerStep, helper
  <1>10. h.op # "read_dir"
    BY DEF Names
  <1> QED
    BY <1>1, <1>7, <1>8, <1>9, <1>10, Unchanged, StepKeeps

LEMMA CommitKeeps ==
  ASSUME IInv, UNCHANGED <<up, wire, helper, nextId, calls, faults>>, NEW h \in handlers, Commit(h)
  PROVE  IInv'
  <1>0. /\ h \in Handler /\ HandlerSound(h) /\ h.next = "commit" /\ h.op \in {"open_write", "rename"} /\ h.res = "ok"
        /\ h.bytes \in Bytes \cup {None} /\ h.path \in Paths /\ h.to \in Paths
    BY DEF IInv, TypeOK, Handler, HandlersSound, HandlerSound, Commit
  <1>1. h.op \in Names /\ h.next # "reply"
    BY <1>0 DEF Names
  <1>2. CASE h.op = "open_write"
    <2>1. PICK g : g = [h EXCEPT !.next = "reply"]
      OBVIOUS
    <2>2. /\ g \in Handler /\ Kin(g, h) /\ g.next = "reply" /\ g.op = h.op /\ g.path = h.path /\ g.bytes = h.bytes
          /\ g.res = h.res
      BY <2>1, <1>0 DEF Handler, Kin
    <2>3. AddVersion(h, h.path, h.bytes, g) /\ Committed(h, g)
      BY <2>1, <2>2, <1>0, <1>2 DEF Commit, Committed, Writes
    <2>4. Stored(h.path, h.bytes)'
      BY <2>3, <1>0, RowsAppend DEF AddVersion, IInv
    <2>5. HandlerSound(g)'
      BY <2>2, <2>4, <1>2 DEF HandlerSound, Writes, Stored
    <2>6. Begun(g)
      BY <2>2 DEF Begun
    <2> QED
      BY <2>2, <2>3, <2>5, <2>6, <1>0, <1>1, AddVersionKeeps
  <1>3. CASE h.op # "open_write"
    <2>1. PICK g : g = [h EXCEPT !.next = "delete"]
      OBVIOUS
    <2>2. /\ g \in Handler /\ Kin(g, h) /\ g.next = "delete" /\ g.op = h.op /\ g.bytes = h.bytes /\ g.res = h.res
      BY <2>1, <1>0 DEF Handler, Kin
    <2>3. AddVersion(h, h.to, h.bytes, g) /\ Committed(h, g)
      BY <2>1, <1>3 DEF Commit, Committed
    <2>4. HandlerSound(g)'
      BY <2>2, <1>0, <1>3 DEF HandlerSound, Writes
    <2>5. Begun(g)
      BY <2>2, <1>0, <1>3 DEF Begun
    <2> QED
      BY <2>2, <2>3, <2>4, <2>5, <1>0, <1>1, AddVersionKeeps
  <1> QED
    BY <1>2, <1>3

LEMMA BuryKeeps ==
  ASSUME IInv, UNCHANGED <<up, wire, helper, nextId, calls, faults>>, NEW h \in handlers, Bury(h)
  PROVE  IInv'
  <1>0. /\ h \in Handler /\ HandlerSound(h) /\ h.next = "bury" /\ h.op \in {"unlink", "rename"} /\ h.res = "ok"
        /\ h.path \in Paths
    BY DEF IInv, TypeOK, Handler, HandlersSound, HandlerSound, Bury
  <1>1. PICK g : g = [h EXCEPT !.next = "reply"]
    OBVIOUS
  <1>2. /\ g \in Handler /\ Kin(g, h) /\ g.next = "reply" /\ g.op = h.op /\ g.bytes = h.bytes /\ g.res = h.res
    BY <1>0, <1>1 DEF Handler, Kin
  <1>3. AddVersion(h, h.path, None, g) /\ Committed(h, g)
    BY <1>1 DEF Bury, Committed
  <1>4. HandlerSound(g)'
    BY <1>0, <1>2 DEF HandlerSound, Writes
  <1>5. h.op \in Names /\ h.next # "reply" /\ Begun(g)
    BY <1>0, <1>2 DEF Names, Begun
  <1> QED
    BY <1>0, <1>2, <1>3, <1>4, <1>5, AddVersionKeeps

(* A handler that rejects keeps what it did; the callback that waits for it   *)
(* is not told its names.                                                     *)
LEMMA RejectKeeps == ASSUME IInv, NEW m \in Mounts, Reject(m) PROVE IInv'
  <1>1. PICK h \in handlers, r \in {"error", "conflict"} :
          /\ h.mount = m /\ Goto(h, [h EXCEPT !.next = "reply", !.res = r])
          /\ IF Current(h) /\ Begun(h) THEN Forget(m, {h.path, h.to}) ELSE UNCHANGED mine
    BY DEF Reject
  <1>2. h \in Handler /\ h.path \in Paths /\ h.to \in Paths /\ {h.path, h.to} \in SUBSET Paths
    BY DEF IInv, TypeOK, Handler
  <1>3. PICK g : g = [h EXCEPT !.next = "reply", !.res = r]
    OBVIOUS
  <1>4. g \in Handler /\ Kin(g, h) /\ g.next = "reply" /\ g.res # "ok" /\ g.bytes = h.bytes
    BY <1>2, <1>3 DEF Handler, Kin
  <1>5. HandlerSound(g)
    BY <1>4 DEF HandlerSound
  <1>6. NamesLeft /\ (Begun(h) => Forgets(h))
    <2>0. object' = object
      BY DEF Reject
    <2>1. CASE Current(h) /\ Begun(h)
      <3>1. /\ mine' \in [Mounts -> [Paths -> Marks]]
            /\ \A n \in Mounts, p \in Paths : mine'[n][p] \in {mine[n][p], "unknown"}
            /\ \A p \in {h.path, h.to} : mine'[m][p] = "unknown"
        BY <1>1, <1>2, <2>1, Forgotten DEF IInv
      <3> QED
        BY <1>1, <2>0, <3>1 DEF NamesLeft, Forgets
    <2>2. CASE ~(Current(h) /\ Begun(h))
      BY <1>1, <2>0, <2>2, Unchanged DEF Forgets
    <2> QED
      BY <2>1, <2>2
  <1>7. Goto(h, g) /\ UNCHANGED <<up, wire, helper, nextId, calls, rows, commits, closes>> /\ faults' \in 0 .. MaxFaults
    BY <1>1, <1>3, MoreFaults DEF Reject, IInv
  <1> QED
    BY <1>4, <1>5, <1>6, <1>7, GotoKeeps

-----------------------------------------------------------------------------
(* The theorems. *)

LEMMA InitHolds == ASSUME Init PROVE IInv
  <1>1. PICK x \in Data, seeded \in SUBSET Seeded :
          /\ object = [p \in Paths |-> IF p \in seeded THEN x ELSE None]
          /\ rows = [p \in Paths |-> IF p \in seeded THEN <<x>> ELSE << >>]
    BY DEF Init
  <1>2. x \in Bytes /\ <<x>> \in Seq(Bytes \cup {None}) /\ << >> \in Seq(Bytes \cup {None})
    BY DEF Bytes
  <1>3. object \in [Paths -> Bytes \cup {None}] /\ rows \in [Paths -> Seq(Bytes \cup {None})]
    BY <1>1, <1>2
  <1>4. TypeOK
    BY <1>3, BoundsAssumption DEF Init, TypeOK
  <1>5. handlers = {} /\ commits = {} /\ closes = {} /\ \A m \in Mounts : open[m] = {} /\ call[m] = None
    BY DEF Init
  <1>6. \A m \in Mounts, p \in Paths : mine[m][p] = "unknown"
    BY DEF Init
  <1>7. \A m \in Mounts, p \in Paths : \A S : Agrees(m, p, S)
    BY <1>6 DEF Agrees
  <1> QED
    BY <1>4, <1>5, <1>6, <1>7 DEF IInv, RequestsNumbered, FilesSound, Closing, HandlersSound, HandlesApart, AppliedOnce,
       SavedIsStored, Matching, ListingsAgree

LEMMA StutterKeeps == ASSUME IInv, UNCHANGED vars PROVE IInv'
  BY WireKeeps DEF vars, daemon, wire, helper, history, IInv, TypeOK

LEMMA HandleKeeps == ASSUME IInv, NEW m \in Mounts, Handle(m) PROVE IInv'
  <1>1. UNCHANGED <<up, wire, helper, nextId, calls, faults>>
    BY DEF Handle
  <1>2. PICK h \in handlers : \/ Look(h) \/ GetObject(h) \/ ReadHead(h) \/ CheckVersion(h) \/ PutObject(h)
                              \/ CopyObject(h) \/ Commit(h) \/ DeleteObject(h) \/ Bury(h)
    BY DEF Handle
  <1> QED
    BY <1>1, <1>2, LookKeeps, ReadKeeps, CheckVersionKeeps, PutObjectKeeps, CopyObjectKeeps, CommitKeeps,
       DeleteObjectKeeps, BuryKeeps

LEMMA AnswerKeeps == ASSUME IInv, NEW m \in Mounts, Answer(m) PROVE IInv'
  BY LookedUpKeeps, OpenedReadKeeps, SavedKeeps, RecordedKeeps, DirReadKeeps, RenamedKeeps DEF Answer

LEMMA KernelKeeps == ASSUME IInv, NEW m \in Mounts, Kernel(m) PROVE IInv'
  BY OpenKeeps, NamesKeep, ReleaseKeeps DEF Kernel

LEMMA NextKeeps == ASSUME IInv, [Next]_vars PROVE IInv'
  <1>1. CASE UNCHANGED vars
    BY <1>1, StutterKeeps
  <1>2. CASE Crash \/ Restart \/ \E m \in Mounts : CrashInFrame(m)
    BY <1>2, CrashKeeps, RestartKeeps
  <1>3. ASSUME NEW m \in Mounts,
               \/ Kernel(m) \/ Send(m) \/ SendFails(m) \/ NoticeLoss(m) \/ Drain(m) \/ TimeOut(m)
               \/ Handle(m) \/ Answer(m) \/ DropAnswer(m) \/ Disconnect(m) \/ GiveUp(m) \/ Reject(m)
        PROVE  IInv'
    BY <1>3, KernelKeeps, SendKeeps, SendFailsKeeps, NoticeLossKeeps, DrainKeeps, TimeOutKeeps, HandleKeeps,
       AnswerKeeps, DropAnswerKeeps, DisconnectKeeps, GiveUpKeeps, RejectKeeps
  <1> QED
    BY <1>1, <1>2, <1>3 DEF Next

(* Whatever mounts, transports and callbacks there are, requests stay apart   *)
(* and matched with their callbacks, handles keep their numbers, open files   *)
(* stay true to the versions they were read from, and cached listings follow  *)
(* the mount's own changes (fs.rs, ipc.rs, the daemon's handlers).            *)
THEOREM InvariantHolds == Spec => []IInv
  <1>1. Init => IInv
    BY InitHolds
  <1>2. IInv /\ [Next]_vars => IInv'
    BY NextKeeps
  <1> QED
    BY <1>1, <1>2, PTL DEF Spec

(* A close that started from a version replaces that version and nothing      *)
(* newer, unless it was raced behind the daemon's version check or its open   *)
(* read bytes of another version (open_read, release_close, writeRaw).        *)
THEOREM CloseReplacesItsVersion == Spec => []CloseReplacesWhatItRead
  <1>1. IInv => CloseReplacesWhatItRead
    <2> SUFFICES ASSUME IInv, NEW c \in commits, c.file.fresh, ~c.raced
                 PROVE  c.version = c.file.base + 1 /\ rows[c.path][c.version - 1] = c.file.saw
      BY DEF CloseReplacesWhatItRead
    <2>1. FileOK(c.file) /\ c.path = c.file.path /\ c.version = c.file.base + 1
      BY DEF IInv, FilesSound
    <2>2. c.path \in Paths
      BY DEF IInv, TypeOK
    <2>3. Len(rows[c.path]) \in Nat
      BY <2>2 DEF IInv, TypeOK
    <2>4. c.file.base \in 1 .. Len(rows[c.path]) /\ rows[c.path][c.file.base] = c.file.saw
      BY <2>1 DEF FileOK, HeadVersion
    <2>5. c.version - 1 = c.file.base
      BY <2>1, <2>3, <2>4
    <2> QED
      BY <2>1, <2>4, <2>5
  <1> QED
    BY <1>1, InvariantHolds, PTL

(* A close is committed at most once, however answers are lost, connections   *)
(* made anew and requests retried (with_retry, is_idempotent).                *)
THEOREM ClosesApplyOnce == Spec => []AppliedOnce
  <1>1. IInv => AppliedOnce
    BY DEF IInv
  <1> QED
    BY <1>1, InvariantHolds, PTL

(* What a release reports as saved is among the versions of the path, across  *)
(* crashes of the daemon (release_close, writeRaw).                           *)
THEOREM SavesAreStored == Spec => []SavedIsStored
  <1>1. IInv => SavedIsStored
    BY DEF IInv
  <1> QED
    BY <1>1, InvariantHolds, PTL

(* Between callbacks a cached listing shows the mount's own last change of a  *)
(* name (readdir_cache; release_close, unlink_path, rename_path).             *)
THEOREM OwnChangesAreListed == Spec => []OwnChangesListed
  <1>1. IInv => OwnChangesListed
    <2> SUFFICES ASSUME IInv, NEW m \in Mounts, NEW p \in Paths, call[m] = None, listing[m][Parent[p]] # None
                 PROVE  Agrees(m, p, listing[m][Parent[p]])
      BY DEF OwnChangesListed, Agrees
    <2> QED
      BY DEF IInv, ListingsAgree, Changing
  <1> QED
    BY <1>1, InvariantHolds, PTL
=============================================================================
