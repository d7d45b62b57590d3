------------------------- MODULE EmbeddingJobs_proofs -------------------------
(* Theorems about EmbeddingJobs, for any paths, clients, contents, slots,     *)
(* formats, settings, crashes and failures.                                   *)
EXTENDS EmbeddingJobs, FiniteSetTheorems, WellFoundedInduction, TLAPS

-----------------------------------------------------------------------------
(* The row a background job is at. *)

LEMMA Least ==
  ASSUME NEW S, S \subseteq Nat, S # {}
  PROVE  \E x \in S : \A y \in S : x <= y
  <1> DEFINE R == {ss \in Nat \X Nat : ss[1] < ss[2]}
  <1>1. R = OpToRel(<, Nat)
    BY Zenon DEF OpToRel
  <1>2. IsWellFoundedOn(R, Nat)
    BY <1>1, NatLessThanWellFounded, Zenon
  <1>3. \E x \in S : \A y \in S : ~(<<y, x>> \in R)
    <2> HIDE DEF R
    <2> QED
      BY <1>2, WFMin, Zenon
  <1>4. ASSUME NEW x \in Nat, NEW y \in Nat, ~(<<y, x>> \in R) PROVE x <= y
    <2>1. <<y, x>> \in Nat \X Nat
      OBVIOUS
    <2>2. ~(<<y, x>>[1] < <<y, x>>[2])
      BY <2>1, <1>4, Zenon
    <2> QED
      BY <2>2
  <1> HIDE DEF R
  <1> QED
    BY <1>3, <1>4

LEMMA FirstIsARow ==
  ASSUME NEW job, job.rows \subseteq Snapshot, job.rows # {}
  PROVE  First(job) \in job.rows
  <1>1. \A r \in job.rows : r.path \in Nat
    BY BoundAssumption DEF Snapshot, Paths
  <1>2. PICK m \in {r.path : r \in job.rows} : \A q \in {r.path : r \in job.rows} : m <= q
    <2> DEFINE S == {r.path : r \in job.rows}
    <2>1. S \subseteq Nat /\ S # {}
      BY <1>1
    <2> HIDE DEF S
    <2>2. \E x \in S : \A y \in S : x <= y
      BY <2>1, Least
    <2> QED
      BY <2>2 DEF S
  <1>3. \E r \in job.rows : \A s \in job.rows : r.path <= s.path
    BY <1>2
  <1> QED
    BY <1>3 DEF First

-----------------------------------------------------------------------------
(* Slots. *)

Tasks == running \cup Waiters

SlotsBase == IsFiniteSet(running) /\ SlotsConserved /\ QueueApart
SlotTypes == permits \in 0..Permits /\ queue \in Seq(Task) /\ running \subseteq Task

LEMMA EmbeddingsFinite ==
  ASSUME IsFiniteSet(running)
  PROVE  IsFiniteSet(Embeddings) /\ Cardinality(Embeddings) \in Nat
  BY FS_Subset, FS_CardinalityType DEF Embeddings

(* Semaphore.acquire *)
LEMMA EnterKeeps ==
  ASSUME SlotsBase, SlotTypes, NEW t \in Task, t.by # "reindex", t \notin Tasks, Enter(t)
  PROVE  SlotsBase' /\ SlotTypes' /\ Tasks' = Tasks \cup {t}
  <1>0. IsFiniteSet(Embeddings) /\ Cardinality(Embeddings) \in Nat
    BY EmbeddingsFinite DEF SlotsBase
  <1>1. CASE permits > 0
    <2>1. permits' = permits - 1 /\ running' = running \cup {t} /\ queue' = queue
      BY <1>1 DEF Enter
    <2>2. Embeddings' = Embeddings \cup {t} /\ t \notin Embeddings
      BY <2>1 DEF Embeddings, Tasks
    <2>3. Cardinality(Embeddings') = Cardinality(Embeddings) + 1
      BY <2>2, <1>0, FS_AddElement
    <2>4. IsFiniteSet(running')
      BY <2>1, FS_AddElement DEF SlotsBase
    <2>5. SlotsConserved'
      BY <2>1, <2>3, <1>0, <1>1, BoundAssumption DEF SlotsBase, SlotsConserved, SlotTypes, Embeddings
    <2>6. queue = <<>>
      BY <1>1 DEF SlotsBase, SlotsConserved
    <2>7. QueueApart' /\ Waiters' = Waiters
      BY <2>1, <2>6 DEF QueueApart, Waiters
    <2>8. SlotTypes'
      BY <2>1, <1>1, BoundAssumption DEF SlotTypes
    <2> QED
      BY <2>1, <2>4, <2>5, <2>7, <2>8 DEF SlotsBase, Tasks
  <1>2. CASE ~(permits > 0)
    <2>1. permits' = permits /\ running' = running /\ queue' = Append(queue, t)
      BY <1>2 DEF Enter
    <2>2. /\ Len(queue') = Len(queue) + 1 /\ Len(queue) \in Nat
          /\ \A i \in 1..Len(queue) : queue'[i] = queue[i]
          /\ queue'[Len(queue) + 1] = t
      BY <2>1 DEF SlotTypes
    <2>3. \A i \in 1..Len(queue) : queue[i] \in Waiters
      BY DEF Waiters
    <2>4. QueueApart'
      BY <2>1, <2>2, <2>3 DEF SlotsBase, QueueApart, Tasks
    <2>5. Waiters' = Waiters \cup {t}
      BY <2>2 DEF Waiters
    <2>6. SlotsConserved'
      BY <2>1, <1>2 DEF SlotsBase, SlotsConserved
    <2> QED
      BY <2>1, <2>4, <2>5, <2>6 DEF SlotsBase, SlotTypes, Tasks
  <1> QED
    BY <1>1, <1>2

(* Semaphore.release, and the end of an embedding without a slot. *)
LEMMA LeaveKeeps ==
  ASSUME SlotsBase, SlotTypes, NEW t \in running, Leave(t)
  PROVE  SlotsBase' /\ SlotTypes' /\ Tasks' = Tasks \ {t}
  <1>0. IsFiniteSet(Embeddings) /\ Cardinality(Embeddings) \in Nat
    BY EmbeddingsFinite DEF SlotsBase
  <1>1. t \notin Waiters
    BY DEF SlotsBase, QueueApart, Waiters
  <1>2. CASE t.by = "reindex"
    <2>1. running' = running \ {t} /\ permits' = permits /\ queue' = queue
      BY <1>2 DEF Leave
    <2>2. Embeddings' = Embeddings /\ Waiters' = Waiters
      BY <2>1, <1>2 DEF Embeddings, Waiters
    <2>3. IsFiniteSet(running')
      BY <2>1, FS_RemoveElement DEF SlotsBase
    <2>4. SlotsConserved' /\ QueueApart'
      BY ZenonT(60), <2>1, <2>2 DEF SlotsBase, SlotsConserved, QueueApart, Embeddings
    <2> QED
      BY <2>1, <2>2, <2>3, <2>4, <1>1 DEF SlotsBase, SlotTypes, Tasks
  <1>3. CASE t.by # "reindex" /\ queue = <<>>
    <2>1. running' = running \ {t} /\ permits' = permits + 1 /\ queue' = queue
      BY <1>3 DEF Leave, release
    <2>2. Embeddings' = Embeddings \ {t} /\ t \in Embeddings /\ Waiters' = Waiters
      BY <2>1, <1>3 DEF Embeddings, Waiters
    <2>3. Cardinality(Embeddings') = Cardinality(Embeddings) - 1
      BY <2>2, <1>0, FS_RemoveElement
    <2>4. IsFiniteSet(running') /\ Cardinality(Embeddings') \in Nat
      BY <2>1, <2>2, <1>0, FS_RemoveElement, FS_CardinalityType DEF SlotsBase
    <2>5. SlotsConserved'
      BY <2>1, <2>3, <1>0, <1>3, BoundAssumption DEF SlotsBase, SlotsConserved, SlotTypes, Embeddings
    <2>6. QueueApart'
      BY <2>1 DEF SlotsBase, QueueApart
    <2>7. SlotTypes'
      BY <2>1, <2>4, <2>5, BoundAssumption DEF SlotTypes, SlotsConserved, Embeddings
    <2> QED
      BY <2>1, <2>2, <2>4, <2>5, <2>6, <2>7, <1>1 DEF SlotsBase, Tasks
  <1>4. CASE t.by # "reindex" /\ queue # <<>>
    <2>1. running' = (running \ {t}) \cup {Head(queue)} /\ permits' = permits /\ queue' = Tail(queue)
      BY <1>4 DEF Leave, release
    <2>2. /\ Len(queue) \in Nat /\ Len(queue) >= 1 /\ Head(queue) = queue[1]
          /\ Len(queue') = Len(queue) - 1
          /\ \A i \in 1..Len(queue') : queue'[i] = queue[i + 1]
      BY <2>1, <1>4 DEF SlotTypes
    <2>3. Head(queue) \notin running /\ Head(queue).by # "reindex" /\ Head(queue) \in Task /\ queue' \in Seq(Task)
      BY <2>1, <2>2, <1>4 DEF SlotsBase, QueueApart, SlotTypes
    <2>4. /\ Embeddings' = (Embeddings \ {t}) \cup {Head(queue)}
          /\ t \in Embeddings /\ Head(queue) \notin Embeddings \ {t}
      BY <2>1, <2>3, <1>4 DEF Embeddings
    <2>5. IsFiniteSet(Embeddings \ {t}) /\ Cardinality(Embeddings \ {t}) = Cardinality(Embeddings) - 1
      BY <2>4, <1>0, FS_RemoveElement
    <2>6. Cardinality(Embeddings') = Cardinality(Embeddings)
      <3> DEFINE E == Embeddings \ {t}
      <3>1. IsFiniteSet(E) /\ Head(queue) \notin E /\ Embeddings' = E \cup {Head(queue)}
        BY <2>4, <2>5
      <3>2. Cardinality(E \cup {Head(queue)}) = Cardinality(E) + 1
        <4> HIDE DEF E
        <4> QED
          BY <3>1, FS_AddElement
      <3> QED
        BY <3>1, <3>2, <2>5, <1>0
    <2>7. IsFiniteSet(running')
      BY <2>1, FS_RemoveElement, FS_AddElement DEF SlotsBase
    <2>8. SlotsConserved'
      BY <2>1, <2>6, <1>0, <1>4, BoundAssumption DEF SlotsBase, SlotsConserved, SlotTypes, Embeddings
    <2>9. QueueApart'
      BY <2>1, <2>2 DEF SlotsBase, QueueApart
    <2>10. Waiters = Waiters' \cup {Head(queue)}
      <3>1. ASSUME NEW i \in 1..Len(queue) PROVE queue[i] \in Waiters' \cup {Head(queue)}
        <4>1. CASE i = 1
          BY <4>1, <2>2
        <4>2. CASE i # 1
          <5>1. i - 1 \in 1..Len(queue') /\ queue'[i - 1] = queue[i]
            BY <4>2, <2>2
          <5> QED
            BY <5>1 DEF Waiters
        <4> QED
          BY <4>1, <4>2
      <3>2. ASSUME NEW i \in 1..Len(queue') PROVE queue'[i] \in Waiters
        <4>1. i + 1 \in 1..Len(queue) /\ queue'[i] = queue[i + 1]
          BY <2>2
        <4> QED
          BY <4>1 DEF Waiters
      <3>3. Head(queue) \in Waiters
        BY <2>2 DEF Waiters
      <3> QED
        BY <3>1, <3>2, <3>3 DEF Waiters
    <2>11. SlotTypes'
      BY <2>1, <2>3 DEF SlotTypes
    <2> QED
      BY <2>1, <2>7, <2>8, <2>9, <2>10, <2>11, <1>1 DEF SlotsBase, Tasks
  <1> QED
    BY <1>2, <1>3, <1>4

-----------------------------------------------------------------------------
(* Types. *)

LEMMA ConstantsTyped ==
  /\ NoDoc \in Docs /\ NoChunks \in Chunks /\ Idle \in Call
  /\ NoMarker \in [path : 0..N, v : Versions]
  /\ Stopped \in [at : {"off", "warmup", "rows", "extract", "embed", "after"},
                  rows : SUBSET Snapshot, cursor : 0..N, doc : Docs]
  <1>1. 0 \in Versions /\ 1 \in Versions /\ 1 \in Paths /\ 0 \in 0..N /\ 0 \in 0..Formats
    BY BoundAssumption DEF Versions, Paths
  <1>2. NoDoc \in Docs /\ NoChunks \in Chunks /\ NoMarker \in [path : 0..N, v : Versions]
    BY <1>1 DEF NoDoc, Docs, NoChunks, Chunks, NoMarker
  <1>3. Idle \in Call
    BY <1>1, <1>2 DEF Idle, Call, Status
  <1> QED
    BY <1>1, <1>2, <1>3 DEF Stopped

MigType == [at : {"off", "warmup", "rows", "extract", "embed", "after"},
            rows : SUBSET Snapshot, cursor : 0..N, doc : Docs]
ScanType == [at : {"off", "wait", "rows", "read", "embed"},
             rows : SUBSET Snapshot, cursor : 0..N, doc : Docs, rerun : {"no", "yes"}]
MetaType == [format : 0..Formats, excluded : {"no", "yes"}, retried : 0..Formats,
             marker : [path : 0..N, v : Versions]]
ConfType == [format : 1..Formats, excluded : {"no", "yes"}]

LEMMA ConfTyped == ASSUME TypeOK PROVE conf \in ConfType /\ conf.format \in 0..Formats
  BY KindAssumption, BoundAssumption DEF TypeOK, ConfType

LEMMA CallUpdate ==
  ASSUME TypeOK, NEW c \in Clients, NEW r \in Call, call' = [call EXCEPT ![c] = r]
  PROVE  call' \in [Clients -> Call] /\ call'[c] = r /\ \A d \in Clients \ {c} : call'[d] = call[d]
  BY DEF TypeOK

LEMMA CallMoves ==
  ASSUME TypeOK, NEW c \in Clients,
         NEW a \in {"idle", "commit", "index", "delete", "gone", "tail", "read"}, Advance(c, a)
  PROVE  /\ call' \in [Clients -> Call] /\ \A d \in Clients \ {c} : call'[d] = call[d]
         /\ call'[c] = [call[c] EXCEPT !.at = a]
         /\ call'[c].op = call[c].op /\ call'[c].n = call[c].n /\ call'[c].path = call[c].path
         /\ call'[c].to = call[c].to /\ call'[c].at = a
  <1>1. call[c] \in Call
    BY DEF TypeOK
  <1>2. [call[c] EXCEPT !.at = a] \in Call
    BY <1>1 DEF Call
  <1>3. call' = [call EXCEPT ![c] = [call[c] EXCEPT !.at = a]]
    BY DEF Advance, TypeOK
  <1>4. call'[c] = [call[c] EXCEPT !.at = a] /\ call' \in [Clients -> Call] /\ \A d \in Clients \ {c} : call'[d] = call[d]
    BY <1>2, <1>3, CallUpdate
  <1> QED
    BY <1>1, <1>4 DEF Call

LEMMA CallReturns ==
  ASSUME TypeOK, NEW c \in Clients, Return(c)
  PROVE  call' \in [Clients -> Call] /\ call'[c] = Idle /\ \A d \in Clients \ {c} : call'[d] = call[d]
  BY CallUpdate, ConstantsTyped DEF Return

LEMMA RowText ==
  ASSUME TypeOK, NEW p \in Paths, NEW s \in Status
  PROVE  /\ WithText(p, s) \in [Paths -> Row]
         /\ \A q \in Paths : /\ WithText(p, s)[q].v = row[q].v /\ WithText(p, s)[q].live = row[q].live
                             /\ WithText(p, s)[q].image = row[q].image
  BY DEF TypeOK, WithText, Row

LEMMA RowImage ==
  ASSUME TypeOK, NEW p \in Paths, NEW s \in Status \ {"skipped"}
  PROVE  /\ WithImage(p, s) \in [Paths -> Row]
         /\ \A q \in Paths : /\ WithImage(p, s)[q].v = row[q].v /\ WithImage(p, s)[q].live = row[q].live
                             /\ q # p => WithImage(p, s)[q].image = row[q].image
         /\ WithImage(p, s)[p].image = s
  BY SMTT(40) DEF TypeOK, WithImage, Row

LEMMA RowVersion ==
  ASSUME row \in [Paths -> Row], NEW p \in Paths, NEW a \in Versions, NEW b \in {"no", "yes"}, NEW d \in Docs,
         row' = [row EXCEPT ![p].v = a, ![p].live = b, ![p].doc = d]
  PROVE  /\ row' \in [Paths -> Row] /\ \A q \in Paths \ {p} : row'[q] = row[q]
         /\ row'[p].v = a /\ row'[p].live = b /\ row'[p].doc = d
         /\ row'[p].text = row[p].text /\ row'[p].image = row[p].image
  <1>1. row[p] \in Row
    OBVIOUS
  <1>2. row' = [row EXCEPT ![p] = [row[p] EXCEPT !.v = a, !.live = b, !.doc = d]]
    OBVIOUS
  <1>3. [row[p] EXCEPT !.v = a, !.live = b, !.doc = d] \in Row
    BY <1>1 DEF Row
  <1>4. row'[p] = [row[p] EXCEPT !.v = a, !.live = b, !.doc = d] /\ row' \in [Paths -> Row] /\ \A q \in Paths \ {p} : row'[q] = row[q]
    BY <1>2, <1>3
  <1> QED
    BY <1>1, <1>4 DEF Row

LEMMA RowStatuses ==
  ASSUME NEW f \in [Paths -> Row], NEW p \in Paths, NEW s \in Status, NEW i \in Status \ {"skipped"},
         NEW g, g = [f EXCEPT ![p].text = s, ![p].image = i]
  PROVE  /\ g \in [Paths -> Row] /\ \A q \in Paths \ {p} : g[q] = f[q]
         /\ g[p].v = f[p].v /\ g[p].live = f[p].live /\ g[p].doc = f[p].doc /\ g[p].text = s /\ g[p].image = i
  <1>1. f[p] \in Row
    OBVIOUS
  <1>2. g = [f EXCEPT ![p] = [f[p] EXCEPT !.text = s, !.image = i]]
    OBVIOUS
  <1>3. [f[p] EXCEPT !.text = s, !.image = i] \in Row
    BY <1>1 DEF Row
  <1>4. g[p] = [f[p] EXCEPT !.text = s, !.image = i] /\ g \in [Paths -> Row] /\ \A q \in Paths \ {p} : g[q] = f[q]
    BY <1>2, <1>3
  <1> QED
    BY <1>1, <1>4 DEF Row

LEMMA ScheduledTyped ==
  ASSUME TypeOK, scan' = scan \/ scan' = scheduled(scan)
  PROVE  /\ scan' \in ScanType /\ scan'.rows = scan.rows /\ First(scan') = First(scan)
         /\ scan'.at = scan.at \/ (scan.at = "off" /\ scan'.at = "wait")
  <1>1. scan \in ScanType
    BY DEF TypeOK, ScanType
  <1>2. /\ scan' \in ScanType /\ scan'.rows = scan.rows
        /\ scan'.at = scan.at \/ (scan.at = "off" /\ scan'.at = "wait")
    BY <1>1 DEF scheduled, ScanType
  <1> QED
    BY <1>2 DEF First

LEMMA NextRowTyped ==
  ASSUME NEW job, NEW T, T = MigType \/ T = ScanType, job \in T, job.rows # {}
  PROVE  /\ NextRow(job) \in T /\ NextRow(job).rows \subseteq job.rows /\ NextRow(job).at = "rows"
         /\ First(job) \in job.rows /\ First(job) \in Snapshot
  <1>1. job.rows \subseteq Snapshot
    <2>1. CASE T = MigType
      BY <2>1 DEF MigType
    <2>2. CASE T = ScanType
      BY <2>2 DEF ScanType
    <2> QED
      BY <2>1, <2>2
  <1>2. First(job) \in job.rows /\ First(job).path \in 0..N /\ First(job) \in Snapshot
    BY <1>1, FirstIsARow DEF Snapshot, Paths
  <1>3. NoDoc \in Docs
    BY ConstantsTyped
  <1>4. CASE T = MigType
    BY <1>2, <1>3, <1>4 DEF NextRow, MigType
  <1>5. CASE T = ScanType
    BY <1>2, <1>3, <1>5 DEF NextRow, ScanType
  <1> QED
    BY <1>2, <1>4, <1>5

-----------------------------------------------------------------------------
(* Steps of the calls. *)

LEMMA TasksKeep ==
  ASSUME IInv, SlotsBase', Tasks' \subseteq Tasks, calls \in Nat, calls' \in Nat, calls' >= calls,
         \A t \in Tasks' : t.by = "write" => \A c \in Clients : call'[c].op = "write" => call'[c].n # t.v,
         \A t \in Tasks' : t.by = "migration" => mig'.at = "embed",
         \A t \in Tasks' : t.by = "image" => scan'.at = "embed" /\ meta'.marker = meta.marker
  PROVE  SlotsOK'
  <1>1. \A t \in Tasks : t \in Task
    BY DEF Tasks, Waiters, IInv, TypeOK
  <1>2. TasksOwned'
    BY <1>1 DEF IInv, SlotsOK, TasksOwned, Tasks, Task, Versions
  <1> QED
    BY <1>2 DEF SlotsOK, SlotsBase

SameCall(r, m) == r.op = m.op /\ r.n = m.n /\ r.path = m.path /\ r.to = m.to

(* A call begins. *)
LEMMA BeginKeeps ==
  ASSUME IInv, NEW c \in Clients, NEW op, NEW r \in Call, Begin(c, op, r),
         r.op # "none", r.n = calls + 1, r.at # "tail", r.op = "mv" => r.path # r.to,
         UNCHANGED <<up, conf, meta, text, image, slots, mig, gap>>,
         scan' = scan \/ scan' = scheduled(scan),
         obj' \in [Paths -> Docs], row' \in [Paths -> Row], killed' \subseteq killed,
         \A p \in Paths : row'[p].v = row[p].v /\ row'[p].live = row[p].live,
         \A k \in killed' : row'[k.path].image = row[k.path].image
  PROVE  IInv'
  <1>1. /\ call' \in [Clients -> Call] /\ call'[c] = r /\ \A d \in Clients \ {c} : call'[d] = call[d]
        /\ up = "yes" /\ call[c].op = "none" /\ calls' = calls + 1 /\ calls < MaxCalls
        /\ crashes' = crashes /\ fails' = fails
    BY CallUpdate DEF IInv, Begin
  <1>2. /\ scan' \in ScanType /\ scan'.rows = scan.rows /\ First(scan') = First(scan)
        /\ scan'.at = scan.at \/ (scan.at = "off" /\ scan'.at = "wait")
    BY ScheduledTyped DEF IInv
  <1>3. calls \in Nat /\ calls' \in 1..MaxCalls
    BY <1>1, BoundAssumption DEF IInv, TypeOK
  <1>4. TypeOK'
    BY <1>1, <1>2, <1>3 DEF IInv, TypeOK, slots, ScanType
  <1>5. CallsNumbered'
    <2>1. \A p \in Paths : row'[p].v <= calls'
      BY <1>1, <1>3 DEF IInv, CallsNumbered, TypeOK, Row, Versions
    <2>2. ASSUME NEW d \in Clients, Active(d)'
          PROVE  /\ call'[d].n \in 1..calls' /\ (d # c => call'[d].n # calls')
                 /\ call'[d].op = "mv" => call'[d].path # call'[d].to
      BY <2>2, <1>1, <1>3 DEF IInv, CallsNumbered, Active
    <2>3. ASSUME NEW d \in Clients, NEW e \in Clients \ {d}, Active(d)', Active(e)' PROVE call'[e].n # call'[d].n
      BY <2>2, <2>3, <1>1 DEF IInv, CallsNumbered, Active
    <2> QED
      BY <2>1, <2>2, <2>3, <1>1 DEF CallsNumbered
  <1>6. SlotsOK'
    <2>1. Tasks' = Tasks /\ SlotsBase'
      BY DEF slots, Tasks, Waiters, SlotsBase, SlotsConserved, QueueApart, IInv, SlotsOK
    <2>2. \A t \in Tasks' : t.by = "write" => \A d \in Clients : call'[d].op = "write" => call'[d].n # t.v
      BY <2>1, <1>1, <1>3 DEF IInv, SlotsOK, TasksOwned, Tasks
    <2>3. \A t \in Tasks' : /\ t.by = "migration" => mig'.at = "embed"
                            /\ t.by = "image" => scan'.at = "embed" /\ meta'.marker = meta.marker
      BY <2>1, <1>2 DEF IInv, SlotsOK, TasksOwned, Tasks
    <2> QED
      BY <2>1, <2>2, <2>3, <1>1, <1>3, TasksKeep
  <1>7. MarkerExact'
    <2>1. \A q \in scan'.rows : q.v <= calls'
      BY <1>1, <1>2, <1>3 DEF IInv, MarkerExact, TypeOK, Snapshot, Versions
    <2> QED
      BY <2>1, <1>1, <1>2 DEF IInv, MarkerExact, Scanning, NewFormat
  <1>8. KilledSettled'
    <2> SUFFICES ASSUME NEW k \in killed' PROVE KilledSettled!(k)'
      BY DEF KilledSettled
    <2>0. k \in killed /\ k.path \in Paths /\ k.v \in Nat
      BY DEF IInv, TypeOK, Snapshot, Versions
    <2>1. meta'.marker = k \/ ~isCurrent(k.path, k.v)' \/ row'[k.path].image = "failed"
      BY <2>0 DEF IInv, KilledSettled, isCurrent
    <2>2. k.v <= calls'
      BY <2>0, <1>1, <1>3 DEF IInv, KilledSettled
    <2>3. ASSUME NEW d \in Clients, Active(d)'
          PROVE  /\ call'[d].n > k.v
                 /\ call'[d].op = "mv" /\ call'[d].at = "tail" => row'[call'[d].path].v > k.v
      <3>1. CASE d = c
        BY <3>1, <2>0, <1>1, <1>3 DEF IInv, KilledSettled
      <3>2. CASE d # c
        BY <3>2, <2>3, <2>0, <1>1 DEF IInv, KilledSettled, Active, TypeOK, Call
      <3> QED
        BY <3>1, <3>2
    <2>4. Scanning' => k \notin scan'.rows
      BY <2>0, <1>2 DEF IInv, KilledSettled, Scanning
    <2> QED
      BY <2>1, <2>2, <2>3, <2>4
  <1>9. GhostsExplained'
    <2> SUFFICES ASSUME NEW p \in Paths, row'[p].live = "no" PROVE GhostsExplained!(p)!2'
      BY DEF GhostsExplained
    <2> QED
      BY <1>1 DEF IInv, GhostsExplained
  <1> QED
    BY <1>4, <1>5, <1>6, <1>7, <1>8, <1>9 DEF IInv

LEMMA NewNumber == ASSUME IInv, calls < MaxCalls PROVE calls + 1 \in Versions
  BY BoundAssumption DEF IInv, TypeOK, Versions

LEMMA PutKeeps ==
  ASSUME IInv, NEW c \in Clients, NEW p \in Paths, NEW k \in Kinds, putObject(c, p, k)
  PROVE  IInv'
  <1> DEFINE d == [id |-> calls + 1, kind |-> k]
             r == [Idle EXCEPT !.op = "write", !.at = "commit", !.n = calls + 1, !.path = p, !.doc = d]
  <1>1. calls + 1 \in Versions
    BY NewNumber DEF putObject, Begin
  <1>2. d \in Docs
    BY <1>1 DEF Docs
  <1>3. r \in Call /\ r.op = "write" /\ r.n = calls + 1 /\ r.at = "commit"
    BY <1>1, <1>2, ConstantsTyped DEF Call, Idle
  <1>4. Begin(c, "write", r) /\ obj' = [obj EXCEPT ![p] = d]
    BY DEF putObject
  <1>5. obj' \in [Paths -> Docs]
    BY <1>2, <1>4 DEF IInv, TypeOK
  <1>6. UNCHANGED <<up, conf, meta, row, text, image, slots, mig, scan, gap, killed>>
    BY DEF putObject
  <1>7. row' \in [Paths -> Row]
    BY <1>6 DEF IInv, TypeOK
  <1> HIDE DEF r, d
  <1> QED
    BY <1>3, <1>4, <1>5, <1>6, <1>7, BeginKeeps

LEMMA DeleteKeeps ==
  ASSUME IInv, NEW c \in Clients, NEW p \in Paths, deleteObject(c, p)
  PROVE  IInv'
  <1> DEFINE r == [Idle EXCEPT !.op = "rm", !.at = "commit", !.n = calls + 1, !.path = p]
  <1>1. calls + 1 \in Versions
    BY NewNumber DEF deleteObject, Begin
  <1>2. r \in Call /\ r.op = "rm" /\ r.n = calls + 1 /\ r.at = "commit"
    BY <1>1, ConstantsTyped DEF Call, Idle
  <1>3. /\ Begin(c, "rm", r) /\ obj' = [obj EXCEPT ![p] = NoDoc]
        /\ UNCHANGED <<up, conf, meta, row, text, image, slots, mig, scan, gap, killed>>
    BY DEF deleteObject
  <1>4. obj' \in [Paths -> Docs] /\ row' \in [Paths -> Row]
    BY <1>3, ConstantsTyped DEF IInv, TypeOK
  <1> HIDE DEF r
  <1> QED
    BY <1>2, <1>3, <1>4, BeginKeeps

LEMMA CopyKeeps ==
  ASSUME IInv, NEW c \in Clients, NEW p \in Paths, NEW q \in Paths, copyObject(c, p, q)
  PROVE  IInv'
  <1> DEFINE r == [Idle EXCEPT !.op = "mv", !.at = "commit", !.n = calls + 1, !.path = p, !.to = q]
  <1>1. calls + 1 \in Versions
    BY NewNumber DEF copyObject, Begin
  <1>2. r \in Call /\ r.op = "mv" /\ r.n = calls + 1 /\ r.at = "commit" /\ r.path # r.to
    BY <1>1, ConstantsTyped DEF Call, Idle, copyObject
  <1>3. /\ Begin(c, "mv", r) /\ obj' = [obj EXCEPT ![q] = obj[p]]
        /\ UNCHANGED <<up, conf, meta, row, text, image, slots, mig, scan, gap, killed>>
    BY DEF copyObject
  <1>4. obj' \in [Paths -> Docs] /\ row' \in [Paths -> Row]
    BY <1>3 DEF IInv, TypeOK
  <1> HIDE DEF r
  <1> QED
    BY <1>2, <1>3, <1>4, BeginKeeps

LEMMA ReindexKeeps ==
  ASSUME IInv, NEW c \in Clients, reindex(c)
  PROVE  IInv'
  <1> DEFINE fs == {p \in Paths : row[p].live = "yes" /\ row[p].image = "failed"}
             td == {p \in Paths : row[p].live = "yes" /\ row[p].text \in {"failed", "null", "pending"}}
             rs == {[path |-> p, v |-> row[p].v] : p \in td}
             r == [Idle EXCEPT !.op = "reindex", !.at = "read", !.n = calls + 1, !.rows = rs]
  <1>1. calls + 1 \in Versions
    BY NewNumber DEF reindex, Begin
  <1>2. rs \subseteq Snapshot
    BY DEF IInv, TypeOK, Row, Snapshot
  <1>3. /\ Begin(c, "reindex", r)
        /\ row' = [p \in Paths |-> IF p \in fs THEN [row[p] EXCEPT !.image = "pending"] ELSE row[p]]
        /\ scan' = scheduled(scan) /\ killed' = {k \in killed : k.path \notin fs}
        /\ UNCHANGED <<up, conf, meta, obj, text, image, slots, mig, gap>>
    BY DEF reindex
  <1>4. /\ row' \in [Paths -> Row]
        /\ \A p \in Paths : row'[p].v = row[p].v /\ row'[p].live = row[p].live
        /\ \A p \in Paths \ fs : row'[p].image = row[p].image
    <2> HIDE DEF fs
    <2>1. ASSUME NEW p \in Paths
          PROVE  /\ row'[p] \in Row /\ row'[p].v = row[p].v /\ row'[p].live = row[p].live
                 /\ p \notin fs => row'[p] = row[p]
      <3>1. row[p] \in Row
        BY DEF IInv, TypeOK
      <3>2. row'[p] = IF p \in fs THEN [row[p] EXCEPT !.image = "pending"] ELSE row[p]
        BY <1>3
      <3> QED
        BY <3>1, <3>2 DEF Row, Status
    <2>2. row' \in [Paths -> Row]
      BY <2>1, <1>3
    <2> QED
      BY <2>1, <2>2
  <1>5. killed' \subseteq killed /\ \A k \in killed' : row'[k.path].image = row[k.path].image
    <2> HIDE DEF fs
    <2> QED
      BY <1>3, <1>4 DEF IInv, TypeOK, Snapshot
  <1>6. obj' \in [Paths -> Docs]
    BY <1>3 DEF IInv, TypeOK
  <1> HIDE DEF rs, fs
  <1>7. r \in Call /\ r.op = "reindex" /\ r.n = calls + 1 /\ r.at = "read"
    BY <1>1, <1>2, ConstantsTyped DEF Call, Idle
  <1> HIDE DEF r
  <1> QED
    BY <1>3, <1>4, <1>5, <1>6, <1>7, BeginKeeps

(* A call goes on or returns. *)
LEMMA CallGoesOn ==
  ASSUME IInv, NEW c \in Clients, Active(c), TypeOK',
         UNCHANGED <<up, conf, meta, mig, killed, bounds>>,
         scan' = scan \/ scan' = scheduled(scan),
         \A d \in Clients \ {c} : call'[d] = call[d],
         call'[c] = Idle \/ SameCall(call'[c], call[c]),
         \A p \in Paths : row'[p].v = row[p].v \/ row'[p].v = call[c].n,
         \A k \in killed : isCurrent(k.path, k.v)' => isCurrent(k.path, k.v) /\ row'[k.path].image = row[k.path].image,
         call'[c] # Idle /\ call'[c].op = "mv" /\ call'[c].at = "tail" => row'[call[c].path].v = call[c].n
  PROVE  CallsNumbered' /\ MarkerExact' /\ KilledSettled'
  <1>1. up = "yes" /\ call[c].n \in 1..calls /\ calls' = calls /\ calls \in Nat
    BY DEF IInv, CallsNumbered, Active, bounds, TypeOK
  <1>2. /\ scan' \in ScanType /\ scan'.rows = scan.rows /\ First(scan') = First(scan)
        /\ scan'.at = scan.at \/ (scan.at = "off" /\ scan'.at = "wait")
    BY ScheduledTyped DEF IInv
  <1>3. Idle.op = "none"
    BY DEF Idle
  <1>4. CallsNumbered'
    <2>1. \A p \in Paths : row'[p].v <= calls'
      BY <1>1 DEF IInv, CallsNumbered
    <2>2. ASSUME NEW d \in Clients, Active(d)' PROVE SameCall(call'[d], call[d]) /\ Active(d)
      BY <2>2, <1>3 DEF Active, SameCall
    <2> QED
      BY <2>1, <2>2, <1>1 DEF CallsNumbered, IInv, SameCall
  <1>5. MarkerExact'
    BY <1>1, <1>2 DEF IInv, MarkerExact, Scanning, NewFormat
  <1>6. KilledSettled'
    <2> SUFFICES ASSUME NEW k \in killed' PROVE KilledSettled!(k)'
      BY DEF KilledSettled
    <2>0. k \in killed /\ k.path \in Paths /\ k.v \in Nat
      BY SMTT(40) DEF IInv, TypeOK, Snapshot, Versions
    <2>1. meta'.marker = k \/ ~isCurrent(k.path, k.v)' \/ row'[k.path].image = "failed"
      BY <2>0 DEF IInv, KilledSettled
    <2>2. k.v <= calls'
      BY <2>0, <1>1 DEF IInv, KilledSettled
    <2>3. ASSUME NEW d \in Clients, Active(d)'
          PROVE  /\ call'[d].n > k.v
                 /\ call'[d].op = "mv" /\ call'[d].at = "tail" => row'[call'[d].path].v > k.v
      <3>0. Active(c) => call[c].n > k.v
        BY <2>0 DEF IInv, KilledSettled
      <3>1. CASE d = c
        BY <3>0, <3>1, <2>3, <1>3 DEF Active, SameCall
      <3>2. CASE d # c
        <4>1. call'[d] = call[d] /\ Active(d) /\ call[d].path \in Paths
          BY <3>2, <2>3 DEF Active, IInv, TypeOK, Call
        <4> QED
          BY <4>1, <3>0, <2>0 DEF IInv, KilledSettled
      <3> QED
        BY <3>1, <3>2
    <2>4. Scanning' => k \notin scan'.rows
      BY <2>0, <1>2 DEF IInv, KilledSettled, Scanning
    <2> QED
      BY <2>1, <2>2, <2>3, <2>4
  <1> QED
    BY <1>4, <1>5, <1>6

(* The tasks of a call step that schedules nothing. *)
LEMMA CallSlots ==
  ASSUME IInv, NEW c \in Clients, UNCHANGED <<slots, meta, mig, bounds>>,
         scan' = scan \/ scan' = scheduled(scan),
         \A d \in Clients \ {c} : call'[d] = call[d],
         call'[c] = Idle \/ (call'[c].op = call[c].op /\ call'[c].n = call[c].n)
  PROVE  SlotsOK' /\ permits' \in 0..Permits /\ queue' \in Seq(Task) /\ running' \subseteq Task
  <1>1. Tasks' = Tasks /\ SlotsBase'
    BY DEF slots, Tasks, Waiters, SlotsBase, SlotsConserved, QueueApart, IInv, SlotsOK
  <1>2. Idle.op = "none"
    BY DEF Idle
  <1>3. \A t \in Tasks' : t.by = "write" => \A d \in Clients : call'[d].op = "write" => call'[d].n # t.v
    BY <1>1, <1>2 DEF IInv, SlotsOK, TasksOwned, Tasks
  <1>4. scan'.at = scan.at \/ (scan.at = "off" /\ scan'.at = "wait")
    BY ScheduledTyped DEF IInv
  <1>5. \A t \in Tasks' : /\ t.by = "migration" => mig'.at = "embed"
                          /\ t.by = "image" => scan'.at = "embed" /\ meta'.marker = meta.marker
    BY <1>1, <1>4 DEF IInv, SlotsOK, TasksOwned, Tasks
  <1>6. calls \in Nat /\ calls' = calls
    BY DEF bounds, IInv, TypeOK
  <1> QED
    BY <1>1, <1>3, <1>5, <1>6, TasksKeep DEF slots, IInv, TypeOK

LEMMA CreateVersionKeeps == ASSUME IInv, NEW c \in Clients, createVersion(c) PROVE IInv'
  <1> DEFINE p == call[c].path
  <1>0. call[c] \in Call /\ p \in Paths /\ call[c].n \in Versions /\ call[c].doc \in Docs /\ call[c].op = "write"
    BY DEF createVersion, IInv, TypeOK, Call
  <1>1. /\ call' \in [Clients -> Call] /\ \A d \in Clients \ {c} : call'[d] = call[d]
        /\ call'[c].op = call[c].op /\ call'[c].n = call[c].n /\ call'[c].path = call[c].path
        /\ call'[c].to = call[c].to /\ call'[c].at = "index"
    BY CallMoves DEF createVersion, IInv
  <1>2. UNCHANGED <<up, conf, meta, obj, text, image, slots, mig, scan, gap, killed, bounds>>
    BY DEF createVersion
  <1>3. /\ row' \in [Paths -> Row] /\ \A q \in Paths \ {p} : row'[q] = row[q]
        /\ row'[p].v = call[c].n /\ row'[p].live = "yes"
    <2>1. row' = [row EXCEPT ![p].v = call[c].n, ![p].live = "yes", ![p].doc = call[c].doc]
      BY DEF createVersion
    <2>2. row \in [Paths -> Row]
      BY DEF IInv, TypeOK
    <2>3. PICK q \in Paths, a \in Versions, b \in {"no", "yes"}, d \in Docs :
             q = p /\ a = call[c].n /\ b = "yes" /\ d = call[c].doc
      BY <1>0
    <2>4. row' = [row EXCEPT ![q].v = a, ![q].live = b, ![q].doc = d]
      BY <2>1, <2>3
    <2> HIDE DEF p
    <2>5. /\ row' \in [Paths -> Row] /\ \A r \in Paths \ {q} : row'[r] = row[r]
          /\ row'[q].v = a /\ row'[q].live = b
      BY ZenonT(60), <2>2, <2>4, RowVersion
    <2> QED
      BY <2>3, <2>5
  <1>4. TypeOK'
    BY <1>1, <1>2, <1>3 DEF IInv, TypeOK, slots, bounds
  <1>5. SlotsOK'
    BY <1>1, <1>2, CallSlots
  <1>6. \A k \in killed : isCurrent(k.path, k.v)' => isCurrent(k.path, k.v) /\ row'[k.path].image = row[k.path].image
    <2>1. \A k \in killed : k.path \in Paths /\ k.v \in Nat /\ call[c].n > k.v
      BY <1>0 DEF IInv, TypeOK, Snapshot, Versions, KilledSettled, Active
    <2> QED
      BY <2>1, <1>0, <1>3 DEF isCurrent, Versions
  <1>7. CallsNumbered' /\ MarkerExact' /\ KilledSettled'
    <2>1. Active(c) /\ \A q \in Paths : row'[q].v = row[q].v \/ row'[q].v = call[c].n
      BY <1>0, <1>3 DEF Active
    <2> QED
      BY <2>1, <1>1, <1>2, <1>4, <1>6, CallGoesOn DEF SameCall
  <1>8. GhostsExplained'
    BY <1>0, <1>1, <1>2, <1>3 DEF IInv, GhostsExplained
  <1> QED
    BY <1>4, <1>5, <1>7, <1>8 DEF IInv

LEMMA ImageChunksTyped ==
  ASSUME TypeOK, NEW p \in Paths
  PROVE  /\ [image EXCEPT ![p] = NoChunks] \in [Paths -> Chunks] /\ [text EXCEPT ![p] = NoChunks] \in [Paths -> Chunks]
         /\ \A g \in SUBSET Reasons : [gap EXCEPT ![p] = g] \in [Paths -> SUBSET Reasons]
  BY ConstantsTyped DEF TypeOK

LEMMA IndexKeeps == ASSUME IInv, NEW c \in Clients, indexForSearch(c) PROVE IInv'
  <1> DEFINE p == call[c].path
             doc == call[c].doc
             t == [by |-> "write", path |-> p, v |-> row[p].v, doc |-> doc]
  <1>0. call[c] \in Call /\ p \in Paths /\ call[c].n \in Versions /\ doc \in Docs /\ call[c].op = "write" /\ Active(c)
    BY DEF indexForSearch, IInv, TypeOK, Call, Active
  <1>1. call' \in [Clients -> Call] /\ call'[c] = Idle /\ \A d \in Clients \ {c} : call'[d] = call[d]
    BY CallReturns DEF indexForSearch, IInv
  <1>2. UNCHANGED <<up, conf, meta, obj, mig, killed, bounds>> /\ Idle.op = "none"
    BY DEF indexForSearch, Idle
  <1>3. CASE ~StillOwner(c)
    <2>1. UNCHANGED <<row, text, image, slots, scan, gap>>
      BY <1>3 DEF indexForSearch
    <2>2. TypeOK'
      BY <1>1, <1>2, <2>1 DEF IInv, TypeOK, slots, bounds
    <2>3. SlotsOK'
      BY <1>1, <1>2, <2>1, CallSlots
    <2>4. CallsNumbered' /\ MarkerExact' /\ KilledSettled'
      BY <1>0, <1>1, <1>2, <2>1, <2>2, CallGoesOn DEF isCurrent
    <2>5. GhostsExplained'
      BY <1>0, <1>1, <1>2, <2>1 DEF IInv, GhostsExplained
    <2> QED
      BY <2>2, <2>3, <2>4, <2>5 DEF IInv
  <1>4. CASE StillOwner(c)
    <2>0. row[p].v = call[c].n /\ row[p].live = "yes"
      BY <1>4 DEF StillOwner, isCurrent
    <2>1. /\ row' = [row EXCEPT ![p].text = IF HasText(doc) THEN "pending" ELSE "null",
                                ![p].image = IF imageEligible(doc) THEN "pending" ELSE "null"]
          /\ image' = [image EXCEPT ![p] = NoChunks]
          /\ text' = text \/ text' = [text EXCEPT ![p] = NoChunks]
          /\ Enter(t) \/ UNCHANGED slots
          /\ scan' = scan \/ scan' = scheduled(scan)
          /\ gap' = [gap EXCEPT ![p] = call[c].gap]
      BY <1>4 DEF indexForSearch
    <2>2. /\ row' \in [Paths -> Row] /\ \A q \in Paths \ {p} : row'[q] = row[q]
          /\ row'[p].v = row[p].v /\ row'[p].live = row[p].live
        <3>1. (IF HasText(doc) THEN "pending" ELSE "null") \in Status
        BY DEF Status
      <3>2. (IF imageEligible(doc) THEN "pending" ELSE "null") \in Status \ {"skipped"}
        BY DEF Status
      <3>3. row \in [Paths -> Row]
        BY DEF IInv, TypeOK
      <3> QED
        BY <3>1, <3>2, <3>3, <1>0, <2>1, RowStatuses
    <2>3. image' \in [Paths -> Chunks] /\ text' \in [Paths -> Chunks] /\ gap' \in [Paths -> SUBSET Reasons]
      <3>1. /\ [image EXCEPT ![p] = NoChunks] \in [Paths -> Chunks] /\ [text EXCEPT ![p] = NoChunks] \in [Paths -> Chunks]
            /\ [gap EXCEPT ![p] = call[c].gap] \in [Paths -> SUBSET Reasons] /\ text \in [Paths -> Chunks]
        <4>1. call[c].gap \in SUBSET Reasons
          BY <1>0 DEF Call
        <4> QED
          BY <4>1, <1>0, ImageChunksTyped DEF IInv, TypeOK
      <3> QED
        BY <3>1, <2>1
    <2>4. scan' \in ScanType /\ (scan'.at = scan.at \/ (scan.at = "off" /\ scan'.at = "wait"))
      BY <2>1, ScheduledTyped DEF IInv
    <2>5. SlotsOK' /\ SlotTypes'
      <3>1. CASE UNCHANGED slots
        BY <3>1, <1>1, <1>2, <2>1, CallSlots DEF SlotTypes
      <3>2. CASE Enter(t)
        <4>0. SlotsBase /\ SlotTypes
          BY DEF IInv, SlotsOK, SlotsBase, SlotTypes, TypeOK
        <4>1. t \in Task /\ t.by = "write" /\ t.v = call[c].n
          BY <1>0, <2>0 DEF Task, IInv, TypeOK, Row
        <4>2. t \notin Tasks
          BY <4>1, <1>0 DEF IInv, SlotsOK, TasksOwned, Tasks
        <4> HIDE DEF t
        <4>3. SlotsBase' /\ SlotTypes' /\ Tasks' = Tasks \cup {t}
          BY <3>2, <4>0, <4>1, <4>2, EnterKeeps
        <4>4. ASSUME NEW d \in Clients, call'[d].op = "write" PROVE call'[d].n = call[d].n /\ call[d].op = "write" /\ call[d].n # call[c].n
          BY <4>4, <1>0, <1>1, <1>2 DEF IInv, CallsNumbered, Active
        <4>5. call[c].n <= calls /\ calls' = calls
          BY <1>0, <1>2 DEF IInv, CallsNumbered, bounds
        <4>6. TasksOwned'
          <5>1. Tasks' = running' \cup Waiters' /\ Tasks = running \cup Waiters
            BY DEF Tasks
          <5>2. \A s \in Tasks' : s.by = "write" =>
                   s.v <= calls' /\ \A d \in Clients : call'[d].op = "write" => call'[d].n # s.v
            BY <4>1, <4>3, <4>4, <4>5, <5>1 DEF IInv, SlotsOK, TasksOwned
          <5>3. \A s \in Tasks' : /\ s.by = "migration" => mig'.at = "embed"
                                  /\ s.by = "image" => /\ scan'.at = "embed"
                                                       /\ s.path = meta'.marker.path /\ s.v = meta'.marker.v
            BY <4>1, <4>3, <5>1, <1>2, <2>4 DEF IInv, SlotsOK, TasksOwned
          <5>4. \A s, u \in Tasks' : s.by = u.by /\ s.by \in {"migration", "image"} => s = u
            BY <4>1, <4>3, <5>1 DEF IInv, SlotsOK, TasksOwned
          <5> QED
            BY <5>1, <5>2, <5>3, <5>4 DEF TasksOwned
        <4> QED
          BY <4>3, <4>6 DEF SlotsOK, SlotsBase
      <3> QED
        BY <3>1, <3>2, <2>1
    <2>6. TypeOK'
      BY <1>1, <1>2, <2>2, <2>3, <2>4, <2>5 DEF IInv, TypeOK, SlotTypes, ScanType, bounds
    <2>7. \A k \in killed : isCurrent(k.path, k.v)' => isCurrent(k.path, k.v) /\ row'[k.path].image = row[k.path].image
      <3>1. \A k \in killed : k.path \in Paths /\ k.v \in Nat /\ call[c].n > k.v
        BY SMTT(40), <1>0 DEF IInv, TypeOK, Snapshot, Versions, KilledSettled
      <3> QED
        BY <3>1, <1>0, <2>0, <2>2 DEF isCurrent, Versions
    <2>8. CallsNumbered' /\ MarkerExact' /\ KilledSettled'
      <3>1. \A q \in Paths : row'[q].v = row[q].v \/ row'[q].v = call[c].n
        BY <2>2
      <3> QED
        BY <3>1, <1>0, <1>1, <1>2, <2>1, <2>6, <2>7, CallGoesOn
    <2>9. GhostsExplained'
      <3> SUFFICES ASSUME NEW q \in Paths, row'[q].live = "no" PROVE GhostsExplained!(q)!2'
        BY DEF GhostsExplained
      <3>1. q # p /\ row[q].live = "no"
        BY <2>0, <2>2
      <3>2. text'[q] = text[q] /\ image'[q] = image[q] /\ gap'[q] = gap[q]
        BY <3>1, <2>1, <1>0 DEF IInv, TypeOK
      <3> QED
        BY <3>1, <3>2, <1>0, <1>1 DEF IInv, GhostsExplained
    <2> QED
      BY <2>5, <2>6, <2>8, <2>9 DEF IInv
  <1> QED
    BY <1>3, <1>4

(* A step of call c that schedules no task, from what it does to the rows. *)
LEMMA QuietCallStep ==
  ASSUME IInv, NEW c \in Clients, Active(c), TypeOK',
         UNCHANGED <<up, conf, meta, slots, mig, killed, bounds>>,
         scan' = scan \/ scan' = scheduled(scan),
         \A d \in Clients \ {c} : call'[d] = call[d],
         call'[c] = Idle \/ SameCall(call'[c], call[c]),
         \A p \in Paths : row'[p].v = row[p].v \/ row'[p].v = call[c].n,
         \A p \in Paths : \/ row'[p].v = call[c].n
                          \/ row'[p].live = row[p].live /\ row'[p].image = row[p].image
                          \/ \A k \in killed : row'[p].v > k.v,
         call'[c] # Idle /\ call'[c].op = "mv" /\ call'[c].at = "tail" => row'[call[c].path].v = call[c].n
  PROVE  CallsNumbered' /\ SlotsOK' /\ MarkerExact' /\ KilledSettled'
  <1>1. SlotsOK'
    BY CallSlots DEF SameCall
  <1>2. ASSUME NEW k \in killed, isCurrent(k.path, k.v)'
        PROVE  isCurrent(k.path, k.v) /\ row'[k.path].image = row[k.path].image
    <2>1. k.path \in Paths /\ k.v \in Nat /\ call[c].n > k.v /\ call[c].n \in Nat
      BY SMTT(40) DEF IInv, TypeOK, Snapshot, Versions, KilledSettled, CallsNumbered
    <2>2. row'[k.path].v = k.v /\ row'[k.path].live = "yes"
      BY <1>2 DEF isCurrent
    <2>3. row'[k.path].v # call[c].n /\ ~(row'[k.path].v > k.v)
      BY <2>1, <2>2
    <2> QED
      BY <2>1, <2>2, <2>3 DEF isCurrent
  <1>3. CallsNumbered' /\ MarkerExact' /\ KilledSettled'
    BY <1>2, CallGoesOn
  <1> QED
    BY <1>1, <1>3

LEMMA RmKeeps == ASSUME IInv, NEW c \in Clients, rm(c) PROVE IInv'
  <1>0. /\ call[c] \in Call /\ call[c].path \in Paths /\ call[c].n \in Versions /\ call[c].op = "rm" /\ Active(c)
        /\ row \in [Paths -> Row]
    BY DEF rm, IInv, TypeOK, Call, Active
  <1>1. call' \in [Clients -> Call] /\ call'[c] = Idle /\ \A d \in Clients \ {c} : call'[d] = call[d]
    BY CallReturns DEF rm, IInv
  <1>2. PICK p \in Paths : p = call[c].path
    BY <1>0
  <1>3. /\ row' = [row EXCEPT ![p].v = call[c].n, ![p].live = "no", ![p].doc = NoDoc,
                              ![p].text = "null", ![p].image = "null"]
        /\ text' = [text EXCEPT ![p] = NoChunks]
        /\ image' = [image EXCEPT ![p] = NoChunks]
        /\ gap' = [gap EXCEPT ![p] = {}]
        /\ UNCHANGED <<up, conf, meta, obj, slots, mig, scan, killed, bounds>>
    BY <1>2 DEF rm
  <1>4. /\ row' \in [Paths -> Row] /\ \A q \in Paths \ {p} : row'[q] = row[q]
        /\ row'[p].v = call[c].n /\ row'[p].live = "no"
    <2> DEFINE r == [row[p] EXCEPT !.v = call[c].n, !.live = "no", !.doc = NoDoc, !.text = "null", !.image = "null"]
    <2>1. row' = [row EXCEPT ![p] = r]
      BY <1>0, <1>3
    <2>2. r \in Row /\ r.v = call[c].n /\ r.live = "no"
      BY ZenonT(60), <1>0, ConstantsTyped DEF Row, Status
    <2> HIDE DEF r
    <2> QED
      BY <2>1, <2>2, <1>0
  <1>5. image' \in [Paths -> Chunks] /\ text' \in [Paths -> Chunks] /\ gap' \in [Paths -> SUBSET Reasons]
    BY <1>3, ImageChunksTyped DEF IInv
  <1>6. TypeOK'
    BY <1>1, <1>3, <1>4, <1>5 DEF IInv, TypeOK, slots, bounds
  <1>7. CallsNumbered' /\ SlotsOK' /\ MarkerExact' /\ KilledSettled'
    BY <1>0, <1>1, <1>3, <1>4, <1>6, QuietCallStep DEF SameCall
  <1>8. GhostsExplained'
    <2> SUFFICES ASSUME NEW q \in Paths, row'[q].live = "no" PROVE GhostsExplained!(q)!2'
      BY DEF GhostsExplained
    <2>1. CASE q = p
      BY <2>1, <1>3 DEF IInv, TypeOK
    <2>2. CASE q # p
      <3>1. text'[q] = text[q] /\ image'[q] = image[q] /\ gap'[q] = gap[q] /\ row[q].live = "no"
        BY SMTT(40), <2>2, <1>3, <1>4 DEF IInv, TypeOK
      <3> QED
        BY <3>1, <1>0, <1>1 DEF IInv, GhostsExplained
    <2> QED
      BY <2>1, <2>2
  <1> QED
    BY <1>6, <1>7, <1>8 DEF IInv

LEMMA MvCommitKeeps == ASSUME IInv, NEW c \in Clients, mvCommit(c) PROVE IInv'
  <1>0. /\ call[c] \in Call /\ call[c].path \in Paths /\ call[c].to \in Paths /\ call[c].n \in Versions
        /\ call[c].op = "mv" /\ call[c].at = "commit" /\ Active(c) /\ row \in [Paths -> Row] /\ obj \in [Paths -> Docs]
    BY ZenonT(60) DEF mvCommit, IInv, TypeOK, Call, Active
  <1>1. UNCHANGED <<up, conf, meta, obj, text, image, slots, mig, scan, gap, killed, bounds>>
    BY ZenonT(60) DEF mvCommit
  <1>2. CASE obj[call[c].to] = NoDoc
    <2>1. Return(c) /\ row' = row
      BY <1>2 DEF mvCommit
    <2>2. call' \in [Clients -> Call] /\ call'[c] = Idle /\ \A d \in Clients \ {c} : call'[d] = call[d]
      BY <2>1, CallReturns DEF IInv
    <2>3. TypeOK'
      BY <1>1, <2>1, <2>2 DEF IInv, TypeOK, slots, bounds
    <2>4. CallsNumbered' /\ SlotsOK' /\ MarkerExact' /\ KilledSettled'
      BY <1>0, <1>1, <2>1, <2>2, <2>3, QuietCallStep DEF SameCall
    <2>5. GhostsExplained'
      BY <1>0, <1>1, <2>1, <2>2 DEF IInv, GhostsExplained
    <2> QED
      BY <2>3, <2>4, <2>5 DEF IInv
  <1>3. CASE obj[call[c].to] # NoDoc
    <2> DEFINE g == call[c].gap \cup IF Overlapped(c) \/ obj[call[c].path] # obj[call[c].to] THEN {"source changed"} ELSE {}
               r == [call[c] EXCEPT !.at = "delete", !.doc = obj[call[c].to], !.text = row[call[c].path].text,
                                    !.image = row[call[c].path].image, !.seen = row[call[c].path].v,
                                    !.format = meta.format, !.gap = g]
    <2>1. /\ row' = [row EXCEPT ![call[c].to].v = call[c].n, ![call[c].to].live = "yes", ![call[c].to].doc = obj[call[c].to]]
          /\ call' = [call EXCEPT ![c] = r]
      BY ZenonT(60), <1>3 DEF mvCommit, IInv, TypeOK
    <2>2. r \in Call /\ r.op = "mv" /\ r.n = call[c].n /\ r.path = call[c].path /\ r.to = call[c].to /\ r.at = "delete"
      <3>1. g \in SUBSET Reasons
        BY <1>0 DEF Reasons, Call
      <3>2. row[call[c].path] \in Row /\ meta.format \in 0..Formats
        BY <1>0 DEF IInv, TypeOK
      <3> HIDE DEF g
      <3> QED
        BY <3>1, <3>2, <1>0 DEF Call, Row
    <2>3. call' \in [Clients -> Call] /\ call'[c] = r /\ \A d \in Clients \ {c} : call'[d] = call[d]
      <3> HIDE DEF r
      <3> QED
        BY <2>1, <2>2, CallUpdate DEF IInv
    <2>4. PICK p \in Paths, a \in Versions, b \in {"no", "yes"}, d \in Docs :
             p = call[c].to /\ a = call[c].n /\ b = "yes" /\ d = obj[call[c].to]
      BY <1>0
    <2>5. row' = [row EXCEPT ![p].v = a, ![p].live = b, ![p].doc = d]
      BY <2>1, <2>4
    <2>6. /\ row' \in [Paths -> Row] /\ \A q \in Paths \ {p} : row'[q] = row[q]
          /\ row'[p].v = a /\ row'[p].live = b
      BY ZenonT(60), <2>5, <1>0, RowVersion
    <2> HIDE DEF r
    <2>7. TypeOK'
      BY <1>1, <2>3, <2>6 DEF IInv, TypeOK, slots, bounds
    <2>8. CallsNumbered' /\ SlotsOK' /\ MarkerExact' /\ KilledSettled'
      BY <1>0, <1>1, <2>2, <2>3, <2>4, <2>6, <2>7, QuietCallStep DEF SameCall
    <2>9. GhostsExplained'
      BY <1>0, <1>1, <2>3, <2>4, <2>6 DEF IInv, GhostsExplained
    <2> QED
      BY SMTT(40), <2>7, <2>8, <2>9 DEF IInv
  <1> QED
    BY <1>2, <1>3

LEMMA MvDeleteKeeps == ASSUME IInv, NEW c \in Clients, mvDelete(c) PROVE IInv'
  <1>0. call[c] \in Call /\ call[c].path \in Paths /\ call[c].op = "mv" /\ call[c].at = "delete" /\ Active(c)
    BY DEF mvDelete, IInv, TypeOK, Call, Active
  <1>1. /\ obj' = [obj EXCEPT ![call[c].path] = NoDoc]
        /\ UNCHANGED <<up, conf, meta, row, text, image, slots, mig, scan, gap, killed, bounds>>
    BY DEF mvDelete
  <1>2. /\ call' \in [Clients -> Call] /\ \A d \in Clients \ {c} : call'[d] = call[d]
        /\ call'[c].op = call[c].op /\ call'[c].n = call[c].n /\ call'[c].path = call[c].path
        /\ call'[c].to = call[c].to /\ call'[c].at = "gone"
    <2> DEFINE g == call[c].gap \cup IF Overlapped(c) THEN {"source changed"} ELSE {}
               r == [call[c] EXCEPT !.at = "gone", !.gap = g]
    <2>1. call' = [call EXCEPT ![c] = r]
      BY DEF mvDelete, IInv, TypeOK
    <2>2. g \in SUBSET Reasons
      BY <1>0 DEF Reasons, Call
    <2> HIDE DEF g
    <2>3. r \in Call /\ r.op = call[c].op /\ r.n = call[c].n /\ r.path = call[c].path /\ r.to = call[c].to /\ r.at = "gone"
      BY <2>2, <1>0 DEF Call
    <2> HIDE DEF r
    <2> QED
      BY <2>1, <2>3, CallUpdate DEF IInv
  <1>3. TypeOK'
    BY <1>0, <1>1, <1>2, ConstantsTyped DEF IInv, TypeOK, slots, bounds
  <1>4. CallsNumbered' /\ SlotsOK' /\ MarkerExact' /\ KilledSettled'
    BY <1>0, <1>1, <1>2, <1>3, QuietCallStep DEF SameCall
  <1>5. GhostsExplained'
    BY <1>0, <1>1, <1>2 DEF IInv, GhostsExplained
  <1> QED
    BY <1>3, <1>4, <1>5 DEF IInv

LEMMA MvGoneKeeps == ASSUME IInv, NEW c \in Clients, mvGone(c) PROVE IInv'
  <1>0. /\ call[c] \in Call /\ call[c].path \in Paths /\ call[c].n \in Versions /\ row \in [Paths -> Row]
        /\ call[c].op = "mv" /\ call[c].at = "gone" /\ Active(c) /\ gap \in [Paths -> SUBSET Reasons]
    BY DEF mvGone, IInv, TypeOK, Call, Active
  <1> DEFINE g == call[c].gap \cup gap[call[c].path] \cup IF SourceChanged(call[c]) \/ Overlapped(c) THEN {"source changed"} ELSE {}
             r == [call[c] EXCEPT !.at = "tail", !.gap = g]
  <1>1. /\ row' = [row EXCEPT ![call[c].path].v = call[c].n, ![call[c].path].live = "no", ![call[c].path].doc = NoDoc]
        /\ call' = [call EXCEPT ![c] = r]
        /\ gap' = [gap EXCEPT ![call[c].path] = {}]
        /\ UNCHANGED <<up, conf, meta, obj, text, image, slots, mig, scan, killed, bounds>>
    BY DEF mvGone, IInv, TypeOK
  <1>2. r \in Call /\ r.op = "mv" /\ r.n = call[c].n /\ r.path = call[c].path /\ r.to = call[c].to /\ r.at = "tail"
    <2>1. g \in SUBSET Reasons
      BY <1>0 DEF Reasons, Call
    <2> HIDE DEF g
    <2> QED
      BY <2>1, <1>0 DEF Call
  <1>3. call' \in [Clients -> Call] /\ call'[c] = r /\ \A d \in Clients \ {c} : call'[d] = call[d]
    <2> HIDE DEF r
    <2> QED
      BY <1>1, <1>2, CallUpdate DEF IInv
  <1>4. PICK p \in Paths, a \in Versions, b \in {"no", "yes"}, d \in Docs :
           p = call[c].path /\ a = call[c].n /\ b = "no" /\ d = NoDoc
    BY <1>0, ConstantsTyped
  <1> HIDE DEF r
  <1>5. row' = [row EXCEPT ![p].v = a, ![p].live = b, ![p].doc = d]
    BY <1>1, <1>4
  <1>6. /\ row' \in [Paths -> Row] /\ \A q \in Paths \ {p} : row'[q] = row[q]
        /\ row'[p].v = a /\ row'[p].live = b
    BY ZenonT(60), <1>5, <1>0, RowVersion
  <1>7. gap' \in [Paths -> SUBSET Reasons] /\ \A q \in Paths \ {p} : gap'[q] = gap[q]
    BY <1>0, <1>1, <1>4
  <1>8. TypeOK'
    BY <1>1, <1>3, <1>6, <1>7 DEF IInv, TypeOK, slots, bounds
  <1>9. CallsNumbered' /\ SlotsOK' /\ MarkerExact' /\ KilledSettled'
    BY <1>0, <1>1, <1>2, <1>3, <1>4, <1>6, <1>8, QuietCallStep DEF SameCall
  <1>10. GhostsExplained'
    <2> SUFFICES ASSUME NEW q \in Paths, row'[q].live = "no" PROVE GhostsExplained!(q)!2'
      BY DEF GhostsExplained
    <2>1. CASE q = p
      BY <2>1, <1>2, <1>3, <1>4
    <2>2. CASE q # p
      <3>1. row[q].live = "no" /\ text'[q] = text[q] /\ image'[q] = image[q] /\ gap'[q] = gap[q]
        BY <2>2, <1>1, <1>6, <1>7
      <3>2. ASSUME NEW e \in Clients, call[e].at = "tail" PROVE call'[e] = call[e]
        BY <3>2, <1>0, <1>3
      <3> QED
        BY <3>1, <3>2 DEF IInv, GhostsExplained
    <2> QED
      BY <2>1, <2>2
  <1> QED
    BY <1>8, <1>9, <1>10 DEF IInv

LEMMA MvTailKeeps == ASSUME IInv, NEW c \in Clients, mvTail(c) PROVE IInv'
  <1>0. /\ call[c] \in Call /\ call[c].path \in Paths /\ call[c].to \in Paths /\ row \in [Paths -> Row]
        /\ call[c].op = "mv" /\ call[c].at = "tail" /\ Active(c)
        /\ gap \in [Paths -> SUBSET Reasons] /\ text \in [Paths -> Chunks] /\ image \in [Paths -> Chunks]
    BY ZenonT(60) DEF mvTail, IInv, TypeOK, Call, Active
  <1>1. call' \in [Clients -> Call] /\ call'[c] = Idle /\ \A d \in Clients \ {c} : call'[d] = call[d]
    BY ZenonT(60), CallReturns DEF mvTail, IInv
  <1>2. UNCHANGED <<up, conf, meta, obj, slots, mig, killed, bounds>>
    BY ZenonT(60) DEF mvTail
  <1>3. PICK p \in Paths, q \in Paths : p = call[c].path /\ q = call[c].to /\ p # q
    BY <1>0 DEF IInv, CallsNumbered
  <1>4. /\ row' \in [Paths -> Row] /\ \A r \in Paths : row'[r].v = row[r].v /\ row'[r].live = row[r].live
        /\ \A r \in Paths : r # p /\ (r # q \/ ~TargetUnchanged(call[c])) => row'[r].image = row[r].image
    <2>1. CASE TargetUnchanged(call[c])
      <3>1. PICK ti \in Status \ {"skipped"}, tt \in Status, pi \in Status \ {"skipped"}, pt \in Status :
               row' = [row EXCEPT ![q].text = tt, ![q].image = ti, ![p].image = pi, ![p].text = pt]
        <4> DEFINE kI == imageEligible(call[c].doc)
                   kT == HasText(call[c].doc) \/ kI
        <4>1. row' = [row EXCEPT ![q].text = IF kT THEN call[c].text ELSE "null",
                                 ![q].image = IF kI THEN call[c].image ELSE "null",
                                 ![p].image = IF kI THEN @ ELSE "null",
                                 ![p].text = IF kT THEN @ ELSE "null"]
          BY <2>1, <1>3 DEF mvTail
        <4> HIDE DEF kI, kT
        <4>2. row' = [row EXCEPT ![q].text = IF kT THEN call[c].text ELSE "null",
                                 ![q].image = IF kI THEN call[c].image ELSE "null",
                                 ![p].image = IF kI THEN row[p].image ELSE "null",
                                 ![p].text = IF kT THEN row[p].text ELSE "null"]
          BY <4>1, <1>3, <1>0
        <4>3. /\ (IF kT THEN call[c].text ELSE "null") \in Status
              /\ (IF kI THEN call[c].image ELSE "null") \in Status \ {"skipped"}
              /\ (IF kI THEN row[p].image ELSE "null") \in Status \ {"skipped"}
              /\ (IF kT THEN row[p].text ELSE "null") \in Status
          BY <1>0 DEF Call, Row, Status
        <4> QED
          BY <4>2, <4>3
      <3>2. ASSUME NEW r \in Paths
            PROVE  /\ row'[r] \in Row /\ row'[r].v = row[r].v /\ row'[r].live = row[r].live
                   /\ r # p /\ r # q => row'[r] = row[r]
        <4>1. row[r] \in Row
          BY <1>0
        <4>2. CASE r # p /\ r # q
          BY <4>1, <4>2, <3>1, <1>0
        <4>3. CASE r = q
          <5>1. row'[r] = [row[r] EXCEPT !.text = tt, !.image = ti]
            BY ZenonT(60), <4>3, <3>1, <1>0, <1>3
          <5> QED
            BY ZenonT(60), <5>1, <4>1, <4>3 DEF Row
        <4>4. CASE r = p
          <5>1. row'[r] = [row[r] EXCEPT !.image = pi, !.text = pt]
            BY <4>4, <3>1, <1>0, <1>3
          <5> QED
            BY <5>1, <4>1, <4>4 DEF Row
        <4> QED
          BY <4>2, <4>3, <4>4
      <3>3. row' \in [Paths -> Row]
        BY <3>1, <3>2, <1>0
      <3> QED
        BY <3>2, <3>3, <2>1
    <2>2. CASE ~TargetUnchanged(call[c])
      <3>1. row' = [row EXCEPT ![p].text = "null", ![p].image = "null"]
        BY ZenonT(60), <2>2, <1>3 DEF mvTail
      <3>2. ASSUME NEW r \in Paths
            PROVE  /\ row'[r] \in Row /\ row'[r].v = row[r].v /\ row'[r].live = row[r].live
                   /\ r # p => row'[r] = row[r]
        <4>1. row[r] \in Row
          BY <1>0
        <4>2. row'[r] = IF r = p THEN [row[r] EXCEPT !.text = "null", !.image = "null"] ELSE row[r]
          BY <3>1, <1>0
        <4> QED
          BY <4>1, <4>2 DEF Row, Status
      <3>3. row' \in [Paths -> Row]
        BY <3>1, <3>2, <1>0
      <3> QED
        BY SMTT(40), <3>2, <3>3, <2>2
    <2> QED
      BY <2>1, <2>2
  <1>5. /\ text' \in [Paths -> Chunks] /\ image' \in [Paths -> Chunks] /\ gap' \in [Paths -> SUBSET Reasons]
        /\ \A r \in Paths : r # p /\ (r # q \/ ~TargetUnchanged(call[c])) =>
              text'[r] = text[r] /\ image'[r] = image[r] /\ gap'[r] = gap[r]
        /\ p # q \/ ~TargetUnchanged(call[c]) => text'[p] = NoChunks /\ image'[p] = NoChunks
    <2>0. NoChunks \in Chunks /\ call[c].gap \subseteq Reasons
      BY ConstantsTyped, <1>0 DEF Call
    <2>1. CASE TargetUnchanged(call[c])
      <3>1. PICK tc \in Chunks, ic \in Chunks, gp \in SUBSET Reasons, gq \in SUBSET Reasons :
               /\ text' = [text EXCEPT ![p] = NoChunks, ![q] = tc]
               /\ image' = [image EXCEPT ![p] = NoChunks, ![q] = ic]
               /\ gap' = [gap EXCEPT ![p] = gp, ![q] = gq]
        <4> DEFINE kI == imageEligible(call[c].doc)
                   kT == HasText(call[c].doc) \/ kI
                   late == IF Rewritten(call[c]) THEN {"source rewritten"} ELSE {}
                   gq == call[c].gap \cup late \cup (IF call[c].text = "pending" THEN {"status carried"} ELSE {})
                                     \cup (IF call[c].format # meta.format THEN {"format changed"} ELSE {})
        <4>1. /\ text' = [text EXCEPT ![p] = NoChunks, ![q] = IF kT THEN text[p] ELSE NoChunks]
              /\ image' = [image EXCEPT ![p] = NoChunks, ![q] = IF kI THEN image[p] ELSE NoChunks]
              /\ gap' = [gap EXCEPT ![p] = gap[p] \cup late, ![q] = gq]
          BY <2>1, <1>0, <1>3 DEF mvTail
        <4>2. /\ (IF kT THEN text[p] ELSE NoChunks) \in Chunks /\ (IF kI THEN image[p] ELSE NoChunks) \in Chunks
          BY <2>0, <1>0
        <4>3. gap[p] \cup late \in SUBSET Reasons /\ gq \in SUBSET Reasons
          BY <2>0, <1>0 DEF Reasons
        <4> HIDE DEF kI, kT, late, gq
        <4> QED
          BY <4>1, <4>2, <4>3
      <3> QED
        BY <3>1, <2>0, <2>1, <1>0
    <2>2. CASE ~TargetUnchanged(call[c])
      <3>1. PICK gp \in SUBSET Reasons : /\ text' = [text EXCEPT ![p] = NoChunks]
                                         /\ image' = [image EXCEPT ![p] = NoChunks]
                                         /\ gap' = [gap EXCEPT ![p] = gp]
        <4> DEFINE late == IF Rewritten(call[c]) THEN {"source rewritten"} ELSE {}
        <4>1. /\ text' = [text EXCEPT ![p] = NoChunks] /\ image' = [image EXCEPT ![p] = NoChunks]
              /\ gap' = [gap EXCEPT ![p] = gap[p] \cup late]
          BY ZenonT(60), <2>2, <1>0, <1>3 DEF mvTail
        <4>2. gap[p] \cup late \in SUBSET Reasons
          BY ZenonT(60), <1>0 DEF Reasons
        <4> HIDE DEF late
        <4> QED
          BY ZenonT(60), <4>1, <4>2
      <3> QED
        BY <3>1, <2>0, <2>2, <1>0
    <2> QED
      BY <2>1, <2>2
  <1>6. scan' = scan \/ scan' = scheduled(scan)
    BY ZenonT(60) DEF mvTail
  <1>7. TypeOK'
    <2>1. scan' \in ScanType
      BY <1>6, ScheduledTyped DEF IInv
    <2> QED
      BY <2>1, <1>1, <1>2, <1>4, <1>5 DEF IInv, TypeOK, slots, bounds, ScanType
  <1>8. CallsNumbered' /\ SlotsOK' /\ MarkerExact' /\ KilledSettled'
    <2>1. ASSUME NEW r \in Paths
          PROVE  \/ row'[r].v = call[c].n
                 \/ row'[r].live = row[r].live /\ row'[r].image = row[r].image
                 \/ \A k \in killed : row'[r].v > k.v
      <3>1. CASE r = p
        BY <3>1, <1>0, <1>3, <1>4 DEF IInv, KilledSettled
      <3>2. CASE r # p /\ r = q /\ TargetUnchanged(call[c])
        BY <3>2, <1>3, <1>4 DEF TargetUnchanged, isCurrent
      <3>3. CASE r # p /\ (r # q \/ ~TargetUnchanged(call[c]))
        BY <3>3, <1>4
      <3> QED
        BY <3>1, <3>2, <3>3
    <2> QED
      BY <2>1, <1>0, <1>1, <1>2, <1>4, <1>6, <1>7, QuietCallStep DEF SameCall
  <1>9. GhostsExplained'
    <2> SUFFICES ASSUME NEW r \in Paths, row'[r].live = "no" PROVE GhostsExplained!(r)!2'
      BY DEF GhostsExplained
    <2>1. row[r].live = "no"
      BY <1>4
    <2>2. ~(r = q /\ TargetUnchanged(call[c]))
      BY <2>1, <1>3 DEF TargetUnchanged, isCurrent
    <2>3. CASE r = p
      BY <2>2, <2>3, <1>5
    <2>4. CASE r # p
      <3>1. text'[r] = text[r] /\ image'[r] = image[r] /\ gap'[r] = gap[r]
        BY <2>2, <2>4, <1>5
      <3>2. ASSUME NEW d \in Clients, call[d].path = r PROVE call'[d] = call[d]
        BY <3>2, <2>4, <1>1, <1>3
      <3> QED
        BY <2>1, <3>1, <3>2 DEF IInv, GhostsExplained
    <2> QED
      BY <2>3, <2>4
  <1> QED
    BY <1>7, <1>8, <1>9 DEF IInv

LEMMA ReindexReadKeeps ==
  ASSUME IInv, NEW c \in Clients, NEW r \in call[c].rows, reindexRead(c, r)
  PROVE  IInv'
  <1>0. /\ call[c] \in Call /\ call[c].op = "reindex" /\ Active(c) /\ r \in Snapshot
        /\ r.path \in Paths /\ obj[r.path] \in Docs
    BY DEF reindexRead, IInv, TypeOK, Call, Active, Snapshot
  <1>1. /\ call' = [call EXCEPT ![c] = [call[c] EXCEPT !.rows = call[c].rows \ {r}]]
        /\ UNCHANGED <<up, conf, meta, obj, row, text, image, permits, queue, mig, scan, gap, killed, bounds>>
    BY DEF reindexRead, IInv, TypeOK
  <1>2. PICK m \in Call : m = [call[c] EXCEPT !.rows = call[c].rows \ {r}]
    BY <1>0 DEF Call
  <1>3. /\ call' \in [Clients -> Call] /\ call'[c] = m /\ \A d \in Clients \ {c} : call'[d] = call[d]
        /\ SameCall(m, call[c]) /\ m.at = call[c].at
    <2>1. SameCall(m, call[c]) /\ m.at = call[c].at
      BY <1>0, <1>2 DEF Call, SameCall
    <2> QED
      BY <2>1, <1>1, <1>2, CallUpdate DEF IInv
  <1>4. PICK t \in Task : t = [by |-> "reindex", path |-> r.path, v |-> r.v, doc |-> obj[r.path]]
    BY <1>0 DEF Task, Snapshot
  <1>5. t.by = "reindex" /\ (running' = running \/ running' = running \cup {t})
    BY <1>4 DEF reindexRead
  <1>6. SlotsBase' /\ SlotTypes' /\ Waiters' = Waiters
    <2>1. Embeddings' = Embeddings /\ Waiters' = Waiters
      BY <1>1, <1>5 DEF Embeddings, Waiters
    <2>2. IsFiniteSet(running')
      BY <1>5, FS_AddElement DEF IInv, SlotsOK
    <2>3. SlotsConserved'
      BY <2>1, <1>1 DEF SlotsConserved, Embeddings, IInv, SlotsOK
    <2>4. QueueApart'
      BY <1>1, <1>5 DEF QueueApart, IInv, SlotsOK
    <2> QED
      BY <2>1, <2>2, <2>3, <2>4, <1>1, <1>5 DEF SlotsBase, SlotTypes, IInv, TypeOK
  <1>7. SlotsOK'
    <2>1. TasksOwned'
      <3>1. \A s \in running' \cup Waiters' : s \in running \cup Waiters \/ s.by = "reindex"
        BY <1>5, <1>6
      <3>2. \A d \in Clients : call'[d].op = call[d].op /\ call'[d].n = call[d].n
        BY <1>3 DEF SameCall
      <3> QED
        BY <3>1, <3>2, <1>1 DEF IInv, SlotsOK, TasksOwned, bounds
    <2> QED
      BY <2>1, <1>6 DEF SlotsOK, SlotsBase
  <1>8. TypeOK'
    BY <1>1, <1>3, <1>6 DEF IInv, TypeOK, SlotTypes, bounds
  <1>9. CallsNumbered' /\ MarkerExact' /\ KilledSettled'
    <2>1. call'[c].op # "mv"
      BY <1>0, <1>3 DEF SameCall
    <2> QED
      BY <2>1, <1>0, <1>1, <1>3, <1>8, CallGoesOn DEF isCurrent
  <1>10. GhostsExplained'
    BY <1>1, <1>3 DEF IInv, GhostsExplained, SameCall
  <1> QED
    BY <1>7, <1>8, <1>9, <1>10 DEF IInv

LEMMA ReindexDoneKeeps == ASSUME IInv, NEW c \in Clients, reindexDone(c) PROVE IInv'
  <1>0. call[c] \in Call /\ call[c].op = "reindex" /\ Active(c)
    BY DEF reindexDone, IInv, TypeOK, Active
  <1>1. call' \in [Clients -> Call] /\ call'[c] = Idle /\ \A d \in Clients \ {c} : call'[d] = call[d]
    BY CallReturns DEF reindexDone, IInv
  <1>2. UNCHANGED <<up, conf, meta, obj, row, text, image, slots, mig, scan, gap, killed, bounds>>
    BY DEF reindexDone
  <1>3. TypeOK'
    BY <1>1, <1>2 DEF IInv, TypeOK, slots, bounds
  <1>4. CallsNumbered' /\ SlotsOK' /\ MarkerExact' /\ KilledSettled'
    BY <1>0, <1>1, <1>2, <1>3, QuietCallStep
  <1>5. GhostsExplained'
    BY <1>0, <1>1, <1>2 DEF IInv, GhostsExplained
  <1> QED
    BY <1>3, <1>4, <1>5 DEF IInv

-----------------------------------------------------------------------------
(* Steps of the background. *)

LEMMA BackgroundKeeps ==
  ASSUME IInv, TypeOK', UNCHANGED <<up, call, calls>>, killed' \subseteq killed,
         \A p \in Paths : row'[p].v = row[p].v /\ row'[p].live = row[p].live,
         \A p \in Paths : row[p].live = "no" =>
            /\ text'[p] = text[p] \/ text'[p] = NoChunks
            /\ image'[p] = image[p] \/ image'[p] = NoChunks
            /\ "interrupted" \in gap[p] => "interrupted" \in gap'[p],
         \A k \in killed' : meta'.marker = k \/ ~isCurrent(k.path, k.v) \/ row'[k.path].image = "failed",
         Scanning' => \A k \in killed' : k \notin scan'.rows
  PROVE  CallsNumbered' /\ KilledSettled' /\ GhostsExplained'
  <1>1. CallsNumbered'
    BY DEF IInv, CallsNumbered, Active
  <1>2. KilledSettled'
    <2> SUFFICES ASSUME NEW k \in killed' PROVE KilledSettled!(k)'
      BY DEF KilledSettled
    <2>0. k \in killed /\ k.path \in Paths
      BY DEF IInv, TypeOK, Snapshot
    <2>1. meta'.marker = k \/ ~isCurrent(k.path, k.v)' \/ row'[k.path].image = "failed"
      BY <2>0 DEF isCurrent
    <2>2. \A c \in Clients : call[c].path \in Paths
      BY DEF IInv, TypeOK, Call
    <2> QED
      BY <2>0, <2>1, <2>2 DEF IInv, KilledSettled, Active
  <1>3. GhostsExplained'
    BY DEF IInv, GhostsExplained
  <1> QED
    BY <1>1, <1>2, <1>3

(* What is known of the killed images while the rows' image statuses stay. *)
LEMMA KilledStay ==
  ASSUME IInv, NEW k \in killed, meta'.marker = meta.marker, row'[k.path].image = row[k.path].image
  PROVE  meta'.marker = k \/ ~isCurrent(k.path, k.v) \/ row'[k.path].image = "failed"
  BY DEF IInv, KilledSettled

LEMMA TasksInTask == ASSUME IInv PROVE Tasks \subseteq Task /\ running \subseteq Tasks
  BY DEF IInv, TypeOK, Tasks, Waiters

(* An embedding ends, and the job that awaits it goes on. *)
LEMMA TaskEnds ==
  ASSUME IInv, NEW t \in running, up = "yes", Leave(t), Resume(t), UNCHANGED <<up, conf, call, calls>>
  PROVE  /\ SlotsOK' /\ SlotTypes' /\ MarkerExact'
         /\ mig' \in MigType /\ scan' \in ScanType /\ meta' \in MetaType
         /\ meta'.format = meta.format /\ meta'.excluded = meta.excluded
         /\ Scanning' => \A k \in killed : k \notin scan'.rows
         /\ \A k \in killed : k = meta.marker => k = meta'.marker
         /\ t.by = "image" => \A k \in killed : ~(k.path = t.path /\ k.v = t.v)
  <1>0. SlotsBase /\ SlotTypes /\ t \in Task /\ t \in Tasks
    BY DEF IInv, SlotsOK, SlotsBase, SlotTypes, TypeOK, Tasks
  <1>1. SlotsBase' /\ SlotTypes' /\ Tasks' = Tasks \ {t}
    BY <1>0, LeaveKeeps
  <1>2. mig \in MigType /\ scan \in ScanType /\ meta \in MetaType /\ NoMarker \in [path : 0..N, v : Versions]
    BY ConstantsTyped DEF IInv, TypeOK, MigType, ScanType, MetaType
  <1>3. CASE t.by = "image"
    <2>1. scan.at = "embed" /\ t.path = meta.marker.path /\ t.v = meta.marker.v /\ scan.rows # {} /\ meta.marker = First(scan)
      BY <1>0, <1>3 DEF IInv, SlotsOK, TasksOwned, Tasks, MarkerExact
    <2>2. mig' = mig /\ scan' = NextRow(scan) /\ meta' = [meta EXCEPT !.marker = NoMarker]
      BY <1>3 DEF Resume
    <2>3. /\ scan' \in ScanType /\ scan'.rows \subseteq scan.rows /\ scan'.at = "rows"
          /\ First(scan) \in scan.rows /\ First(scan) \in Snapshot
      BY <2>1, <2>2, <1>2, NextRowTyped
    <2>4. /\ meta' \in MetaType /\ meta'.format = meta.format /\ meta'.excluded = meta.excluded
          /\ meta'.marker = NoMarker
      BY <2>2, <1>2 DEF MetaType
    <2>5. Scanning /\ \A k \in killed : k \notin scan.rows
      BY <2>1 DEF IInv, KilledSettled, Scanning
    <2>6. MarkerExact'
      BY <2>2, <2>3, <2>4, <2>5 DEF IInv, MarkerExact, Scanning, NewFormat
    <2>7. \A s \in Tasks' : s.by # "image"
      BY <1>0, <1>1, <1>3 DEF IInv, SlotsOK, TasksOwned, Tasks
    <2>8. SlotsOK'
      <3>1. \A s \in Tasks' : s.by = "migration" => mig'.at = "embed"
        BY <1>1, <2>2 DEF IInv, SlotsOK, TasksOwned, Tasks
      <3>2. \A s \in Tasks' : s.by = "write" => \A c \in Clients : call'[c].op = "write" => call'[c].n # s.v
        BY <1>1 DEF IInv, SlotsOK, TasksOwned, Tasks
      <3> QED
        BY <1>1, <2>7, <3>1, <3>2, TasksKeep DEF IInv, TypeOK
    <2>9. \A k \in killed : k # meta.marker /\ ~(k.path = t.path /\ k.v = t.v)
      <3>1. \A k \in killed : k \in Snapshot
        BY DEF IInv, TypeOK
      <3> QED
        BY <2>1, <2>3, <2>5, <3>1 DEF Snapshot
    <2> QED
      BY <1>1, <1>2, <2>2, <2>3, <2>4, <2>5, <2>6, <2>8, <2>9
  <1>4. CASE t.by # "image"
    <2>1. scan' = scan /\ meta' = meta /\ First(scan') = First(scan)
      BY <1>4 DEF Resume
    <2>2. mig' \in MigType /\ (t.by = "migration" => mig.at = "embed" /\ mig'.at = "rows") /\ (t.by # "migration" => mig' = mig)
      <3>1. CASE t.by = "migration"
        <4>1. mig.at = "embed" /\ mig.rows # {} /\ mig' = NextRow(mig)
          BY <3>1, <1>0 DEF IInv, SlotsOK, TasksOwned, Tasks, MarkerExact, Resume
        <4> QED
          BY <4>1, <3>1, <1>2, NextRowTyped
      <3>2. CASE t.by # "migration"
        BY <3>2, <1>2 DEF Resume
      <3> QED
        BY <3>1, <3>2
    <2>3. MarkerExact'
      BY <2>1, <2>2 DEF IInv, MarkerExact, Scanning, NewFormat
    <2>4. SlotsOK'
      <3>1. \A s \in Tasks' : s.by = "migration" => mig'.at = "embed"
        BY <1>0, <1>1, <2>2 DEF IInv, SlotsOK, TasksOwned, Tasks
      <3>2. \A s \in Tasks' : s.by = "write" => \A c \in Clients : call'[c].op = "write" => call'[c].n # s.v
        BY <1>1 DEF IInv, SlotsOK, TasksOwned, Tasks
      <3>3. \A s \in Tasks' : s.by = "image" => scan'.at = "embed" /\ meta'.marker = meta.marker
        BY <1>1, <2>1 DEF IInv, SlotsOK, TasksOwned, Tasks
      <3> QED
        BY <1>1, <3>1, <3>2, <3>3, TasksKeep DEF IInv, TypeOK
    <2>5. Scanning' => \A k \in killed : k \notin scan'.rows
      BY <2>1 DEF IInv, KilledSettled, Scanning
    <2> QED
      BY <1>1, <1>2, <1>4, <2>1, <2>2, <2>3, <2>4, <2>5
  <1> QED
    BY <1>3, <1>4

LEMMA EmbeddedKeeps == ASSUME IInv, NEW t \in running, embedded(t) PROVE IInv'
  <1>0. /\ t \in Task /\ t.path \in Paths /\ t.doc \in Docs /\ t.doc.id \in Versions /\ conf.format \in 0..Formats
        /\ up = "yes" /\ Leave(t) /\ Resume(t) /\ UNCHANGED <<up, conf, obj, call, killed, bounds>> /\ calls' = calls
    BY ConfTyped DEF embedded, IInv, TypeOK, Task, Docs, bounds
  <1>1. /\ SlotsOK' /\ SlotTypes' /\ MarkerExact'
        /\ mig' \in MigType /\ scan' \in ScanType /\ meta' \in MetaType
        /\ Scanning' => \A k \in killed : k \notin scan'.rows
        /\ \A k \in killed : k = meta.marker => k = meta'.marker
        /\ t.by = "image" => \A k \in killed : ~(k.path = t.path /\ k.v = t.v)
    BY <1>0, TaskEnds
  <1>2. TextChunks(t.doc) \in Chunks /\ TextStatus(t.doc) \in Status
    BY <1>0, ConstantsTyped DEF TextChunks, TextStatus, Chunks, Status
  <1>3. /\ row' \in [Paths -> Row] /\ \A p \in Paths : row'[p].v = row[p].v /\ row'[p].live = row[p].live
        /\ \A p \in Paths : \/ row'[p].image = row[p].image
                            \/ p = t.path /\ t.by = "image" /\ isCurrent(t.path, t.v)
    <2>1. CASE ~isCurrent(t.path, t.v)
      BY <2>1 DEF embedded, IInv, TypeOK
    <2>2. CASE isCurrent(t.path, t.v) /\ t.by = "image"
      <3>1. row' = WithImage(t.path, "indexed") /\ "indexed" \in Status \ {"skipped"}
        BY <2>2 DEF embedded, Status
      <3> QED
        BY <3>1, <2>2, <1>0, RowImage DEF IInv
    <2>3. CASE isCurrent(t.path, t.v) /\ t.by # "image"
      <3>1. PICK s \in Status : row' = WithText(t.path, s)
        <4>1. row' = WithText(t.path, IF HasText(t.doc) THEN TextStatus(t.doc) ELSE "null")
          BY <2>3 DEF embedded
        <4>2. (IF HasText(t.doc) THEN TextStatus(t.doc) ELSE "null") \in Status
          BY <1>2 DEF Status
        <4> QED
          BY <4>1, <4>2
      <3> QED
        BY <3>1, <1>0, RowText DEF IInv
    <2> QED
      BY <2>1, <2>2, <2>3
  <1>4. /\ text' \in [Paths -> Chunks] /\ image' \in [Paths -> Chunks] /\ gap' \in [Paths -> SUBSET Reasons]
        /\ \A p \in Paths : \/ text'[p] = text[p] /\ image'[p] = image[p] /\ gap'[p] = gap[p]
                            \/ p = t.path /\ isCurrent(t.path, t.v)
    <2>0. /\ text \in [Paths -> Chunks] /\ image \in [Paths -> Chunks] /\ gap \in [Paths -> SUBSET Reasons]
          /\ NoChunks \in Chunks /\ [id |-> t.doc.id, format |-> conf.format] \in Chunks
      BY <1>0, ConstantsTyped DEF IInv, TypeOK, Chunks
    <2>1. CASE ~isCurrent(t.path, t.v)
      BY <2>0, <2>1 DEF embedded
    <2>2. CASE isCurrent(t.path, t.v) /\ t.by = "image"
      <3>1. image' = [image EXCEPT ![t.path] = [id |-> t.doc.id, format |-> conf.format]] /\ text' = text /\ gap' = gap
        BY <2>2 DEF embedded
      <3> QED
        BY <3>1, <2>0, <2>2, <1>0
    <2>3. CASE isCurrent(t.path, t.v) /\ t.by # "image"
      <3>1. PICK ch \in Chunks : text' = [text EXCEPT ![t.path] = ch] /\ image' = image
        <4>1. (IF HasText(t.doc) THEN TextChunks(t.doc) ELSE NoChunks) \in Chunks
          BY <1>2, <2>0
        <4> QED
          BY <4>1, <2>3 DEF embedded
      <3>2. PICK g \in SUBSET Reasons : gap' = [gap EXCEPT ![t.path] = g]
        <4> DEFINE g == (gap[t.path] \ {"foreign format"}) \cup IF NewFormat THEN {"foreign format"} ELSE {}
        <4>1. gap' = [gap EXCEPT ![t.path] = g]
          BY <2>0, <2>3, <1>0 DEF embedded
        <4>2. g \in SUBSET Reasons
          BY <2>0, <1>0 DEF Reasons
        <4> HIDE DEF g
        <4> QED
          BY <4>1, <4>2
      <3> QED
        BY <3>1, <3>2, <2>0, <2>3, <1>0
    <2> QED
      BY <2>1, <2>2, <2>3
  <1>5. TypeOK'
    BY <1>0, <1>1, <1>3, <1>4 DEF IInv, TypeOK, SlotTypes, MigType, ScanType, MetaType, bounds
  <1>6. ASSUME NEW k \in killed' PROVE meta'.marker = k \/ ~isCurrent(k.path, k.v) \/ row'[k.path].image = "failed"
    <2>1. k \in killed /\ k.path \in Paths
      BY <1>0 DEF IInv, TypeOK, Snapshot
    <2>2. meta.marker = k \/ ~isCurrent(k.path, k.v) \/ row[k.path].image = "failed"
      BY <2>1 DEF IInv, KilledSettled
    <2>3. isCurrent(k.path, k.v) /\ k.path = t.path /\ isCurrent(t.path, t.v) => k.v = t.v
      BY DEF isCurrent
    <2> QED
      BY <2>1, <2>2, <2>3, <1>1, <1>3
  <1>7. CallsNumbered' /\ KilledSettled' /\ GhostsExplained'
    <2>1. ASSUME NEW p \in Paths, row[p].live = "no" PROVE text'[p] = text[p] /\ image'[p] = image[p] /\ gap'[p] = gap[p]
      BY <2>1, <1>4 DEF isCurrent
    <2> QED
      BY <2>1, <1>0, <1>1, <1>3, <1>5, <1>6, BackgroundKeeps
  <1> QED
    BY <1>1, <1>5, <1>7 DEF IInv

LEMMA FailedKeeps == ASSUME IInv, NEW t \in running, failed(t) PROVE IInv'
  <1>0. /\ t \in Task /\ t.path \in Paths /\ up = "yes" /\ Leave(t) /\ Resume(t)
        /\ UNCHANGED <<up, conf, obj, text, image, call, gap, killed, calls, crashes>> /\ fails' \in Nat
    BY DEF failed, IInv, TypeOK, Task
  <1>1. /\ SlotsOK' /\ SlotTypes' /\ MarkerExact'
        /\ mig' \in MigType /\ scan' \in ScanType /\ meta' \in MetaType
        /\ Scanning' => \A k \in killed : k \notin scan'.rows
        /\ \A k \in killed : k = meta.marker => k = meta'.marker
    BY <1>0, TaskEnds
  <1>2. /\ row' \in [Paths -> Row] /\ \A p \in Paths : row'[p].v = row[p].v /\ row'[p].live = row[p].live
        /\ \A p \in Paths : row'[p].image = row[p].image \/ row'[p].image = "failed"
    <2>0. "failed" \in Status /\ "failed" \in Status \ {"skipped"} /\ row \in [Paths -> Row]
      BY DEF Status, IInv, TypeOK
    <2>1. row' = row \/ row' = WithImage(t.path, "failed") \/ row' = WithText(t.path, "failed")
      BY DEF failed
    <2>2. CASE row' = row
      BY <2>0, <2>2
    <2>3. CASE row' = WithImage(t.path, "failed")
      <3>1. PICK p \in Paths, s \in Status \ {"skipped"} : p = t.path /\ s = "failed"
        BY <2>0, <1>0
      <3>2. /\ WithImage(p, s) \in [Paths -> Row]
            /\ \A q \in Paths : /\ WithImage(p, s)[q].v = row[q].v /\ WithImage(p, s)[q].live = row[q].live
                                /\ q # p => WithImage(p, s)[q].image = row[q].image
            /\ WithImage(p, s)[p].image = s
        BY RowImage DEF IInv
      <3> QED
        BY <3>1, <3>2, <2>3
    <2>4. CASE row' = WithText(t.path, "failed")
      BY <2>0, <2>4, <1>0, RowText DEF IInv
    <2> QED
      BY <2>1, <2>2, <2>3, <2>4
  <1>3. TypeOK'
    BY <1>0, <1>1, <1>2 DEF IInv, TypeOK, SlotTypes, MigType, ScanType, MetaType
  <1>4. ASSUME NEW k \in killed' PROVE meta'.marker = k \/ ~isCurrent(k.path, k.v) \/ row'[k.path].image = "failed"
    <2>1. k \in killed /\ k.path \in Paths
      BY <1>0 DEF IInv, TypeOK, Snapshot
    <2>2. meta.marker = k \/ ~isCurrent(k.path, k.v) \/ row[k.path].image = "failed"
      BY <2>1 DEF IInv, KilledSettled
    <2> QED
      BY <2>1, <2>2, <1>1, <1>2
  <1>5. CallsNumbered' /\ KilledSettled' /\ GhostsExplained'
    BY <1>0, <1>1, <1>2, <1>3, <1>4, BackgroundKeeps
  <1> QED
    BY <1>1, <1>3, <1>5 DEF IInv

LEMMA InitFailedKeeps == ASSUME IInv, NEW t \in running, initFailed(t) PROVE IInv'
  <1>0. /\ t \in Task /\ t \in Tasks /\ t.by = "image" /\ up = "yes" /\ Leave(t)
        /\ scan' = [scan EXCEPT !.at = "off"] /\ meta' = [meta EXCEPT !.marker = NoMarker]
        /\ UNCHANGED <<up, conf, obj, row, text, image, call, mig, killed, calls, crashes>> /\ fails' \in Nat
    <2>1. t \in Task /\ t \in Tasks /\ fails \in Nat
      BY DEF IInv, TypeOK, Tasks
    <2>2. fails' = fails + 1
      BY DEF initFailed
    <2>3. fails' \in Nat
      BY <2>1, <2>2
    <2> QED
      BY <2>1, <2>3, Zenon DEF initFailed
  <1>1. SlotsBase' /\ SlotTypes' /\ Tasks' = Tasks \ {t}
    BY <1>0, LeaveKeeps DEF IInv, SlotsOK, SlotsBase, SlotTypes, TypeOK
  <1>2. scan.at = "embed" /\ scan.rows # {} /\ meta.marker = First(scan) /\ Scanning
    BY <1>0 DEF IInv, SlotsOK, TasksOwned, Tasks, MarkerExact, Scanning
  <1>3. /\ scan' \in ScanType /\ scan'.at = "off" /\ scan'.rows = scan.rows
        /\ meta' \in MetaType /\ meta'.marker = NoMarker /\ meta'.format = meta.format
    BY <1>0, ConstantsTyped DEF IInv, TypeOK, ScanType, MetaType
  <1>4. gap' \in [Paths -> SUBSET Reasons] /\ \A p \in Paths : gap[p] \subseteq gap'[p]
    BY DEF initFailed, IInv, TypeOK, Reasons
  <1>5. TypeOK'
    BY <1>0, <1>1, <1>3, <1>4 DEF IInv, TypeOK, SlotTypes, ScanType, MetaType
  <1>6. MarkerExact'
    BY <1>0, <1>2, <1>3 DEF IInv, MarkerExact, Scanning, NewFormat
  <1>7. SlotsOK'
    <2>1. \A s \in Tasks' : s.by # "image"
      BY <1>0, <1>1 DEF IInv, SlotsOK, TasksOwned, Tasks
    <2>2. \A s \in Tasks' : s.by = "migration" => mig'.at = "embed"
      BY <1>0, <1>1 DEF IInv, SlotsOK, TasksOwned, Tasks
    <2>3. \A s \in Tasks' : s.by = "write" => \A c \in Clients : call'[c].op = "write" => call'[c].n # s.v
      BY <1>0, <1>1 DEF IInv, SlotsOK, TasksOwned, Tasks
    <2> QED
      BY <1>0, <1>1, <2>1, <2>2, <2>3, TasksKeep DEF IInv, TypeOK
  <1>8. ASSUME NEW k \in killed' PROVE meta'.marker = k \/ ~isCurrent(k.path, k.v) \/ row'[k.path].image = "failed"
    <2>1. k \in killed /\ k \notin scan.rows
      BY <1>0, <1>2 DEF IInv, KilledSettled
    <2>2. First(scan) \in scan.rows
      BY <1>2, FirstIsARow DEF IInv, TypeOK
    <2> QED
      BY <2>1, <2>2, <1>0, <1>2 DEF IInv, KilledSettled
  <1>9. CallsNumbered' /\ KilledSettled' /\ GhostsExplained'
    BY <1>0, <1>3, <1>4, <1>5, <1>8, BackgroundKeeps DEF Scanning
  <1> QED
    BY <1>5, <1>6, <1>7, <1>9 DEF IInv

(* The tasks stay when nothing enters or leaves and nobody's task is waited for. *)
LEMMA SlotsStay ==
  ASSUME IInv, UNCHANGED <<slots, call, calls>>, mig.at = "embed" => mig'.at = "embed",
         scan.at = "embed" => scan'.at = "embed" /\ meta'.marker = meta.marker
  PROVE  SlotsOK' /\ SlotTypes'
  <1>1. Tasks' = Tasks /\ SlotsBase'
    BY DEF slots, Tasks, Waiters, SlotsBase, SlotsConserved, QueueApart, IInv, SlotsOK
  <1>2. \A s \in Tasks' : /\ s.by = "migration" => mig'.at = "embed"
                          /\ s.by = "write" => \A c \in Clients : call'[c].op = "write" => call'[c].n # s.v
                          /\ s.by = "image" => scan'.at = "embed" /\ meta'.marker = meta.marker
    BY <1>1 DEF IInv, SlotsOK, TasksOwned, Tasks
  <1> QED
    BY <1>1, <1>2, TasksKeep DEF IInv, TypeOK, SlotTypes, slots

LEMMA WarmedUpKeeps == ASSUME IInv, warmedUp PROVE IInv'
  <1>0. /\ up = "yes" /\ mig.at = "warmup" /\ mig' = [mig EXCEPT !.at = "rows"]
        /\ UNCHANGED <<up, conf, obj, text, call, slots, scan, gap, bounds>> /\ calls' = calls
        /\ killed' = IF DropImages THEN {k \in killed : k = meta.marker} ELSE killed
    BY DEF warmedUp, bounds
  <1>1. mig' \in MigType /\ mig'.at = "rows"
    BY <1>0 DEF IInv, TypeOK, MigType
  <1>2. meta' \in MetaType /\ meta'.marker = meta.marker
    BY ConfTyped DEF warmedUp, prepareEmbeddingMigration, IInv, TypeOK, MetaType, ConfType
  <1>3. /\ row' \in [Paths -> Row] /\ \A p \in Paths : row'[p].v = row[p].v /\ row'[p].live = row[p].live
        /\ ~DropImages => \A p \in Paths : row'[p].image = row[p].image
    <2>1. ASSUME NEW p \in Paths
          PROVE  /\ row'[p] \in Row /\ row'[p].v = row[p].v /\ row'[p].live = row[p].live
                 /\ ~DropImages => row'[p].image = row[p].image
      <3>0. row[p] \in Row
        BY DEF IInv, TypeOK
      <3>1. PICK s \in Status, i \in Status \ {"skipped"} :
               row'[p] = [row[p] EXCEPT !.text = s, !.image = i] /\ (~DropImages => i = row[p].image)
        <4> DEFINE s == IF row[p].live = "yes"
                        THEN Backfilled(row[p].doc, Retried(Excluded(Reset(row[p].text)))) ELSE row[p].text
                   i == IF DropImages THEN "null" ELSE row[p].image
        <4>1. row'[p] = [row[p] EXCEPT !.text = s, !.image = i]
          BY <3>0 DEF warmedUp, prepareEmbeddingMigration, Row
        <4>2. i \in Status \ {"skipped"} /\ (~DropImages => i = row[p].image)
          BY <3>0 DEF Row, Status
        <4>3. \A x \in Status : Reset(x) \in Status /\ Excluded(x) \in Status /\ Retried(x) \in Status
          BY DEF Reset, Excluded, Retried, Status
        <4>4. \A x \in Status : Backfilled(row[p].doc, x) \in Status
          BY DEF Backfilled, Status
        <4>5. s \in Status
          BY <3>0, <4>3, <4>4 DEF Row
        <4> HIDE DEF s, i
        <4> QED
          BY <4>1, <4>2, <4>5
      <3> QED
        BY <3>0, <3>1 DEF Row
    <2>2. row' \in [Paths -> Row]
      BY <2>1 DEF warmedUp, prepareEmbeddingMigration
    <2> QED
      BY <2>1, <2>2
  <1>4. image' \in [Paths -> Chunks] /\ \A p \in Paths : image'[p] = image[p] \/ image'[p] = NoChunks
    BY ConstantsTyped DEF warmedUp, prepareEmbeddingMigration, IInv, TypeOK
  <1>5. SlotsOK' /\ SlotTypes'
    <2>1. scan.at # "embed"
      BY <1>0 DEF IInv, MarkerExact, Scanning
    <2> QED
      BY <2>1, <1>0, SlotsStay
  <1>6. TypeOK'
    BY <1>0, <1>1, <1>2, <1>3, <1>4, <1>5 DEF IInv, TypeOK, SlotTypes, MigType, MetaType, bounds
  <1>7. MarkerExact'
    BY <1>0, <1>1 DEF IInv, MarkerExact, Scanning
  <1>8. ASSUME NEW k \in killed' PROVE meta'.marker = k \/ ~isCurrent(k.path, k.v) \/ row'[k.path].image = "failed"
    <2>1. k \in killed /\ k.path \in Paths /\ (DropImages => k = meta.marker)
      BY <1>0 DEF IInv, TypeOK, Snapshot
    <2> QED
      BY <2>1, <1>2, <1>3 DEF IInv, KilledSettled
  <1>9. CallsNumbered' /\ KilledSettled' /\ GhostsExplained'
    <2>1. ~Scanning' /\ killed' \subseteq killed
      BY <1>0 DEF IInv, MarkerExact, Scanning
    <2> QED
      BY <2>1, <1>0, <1>3, <1>4, <1>6, <1>8, BackgroundKeeps
  <1> QED
    BY <1>5, <1>6, <1>7, <1>9 DEF IInv

LEMMA WarmupFailedKeeps == ASSUME IInv, warmupFailed PROVE IInv'
  <1>0. /\ up = "yes" /\ mig.at = "warmup" /\ mig' = [mig EXCEPT !.at = "after"]
        /\ gap' = [p \in Paths |-> gap[p] \cup {"not migrated"}]
        /\ UNCHANGED <<up, conf, meta, obj, row, text, image, call, slots, scan, killed, calls, crashes>>
    BY DEF warmupFailed
  <1>1. mig' \in MigType /\ mig'.at = "after" /\ fails' \in Nat
    <2>1. mig \in MigType
      BY DEF IInv, TypeOK, MigType
    <2>2. mig' \in MigType /\ mig'.at = "after"
      BY <2>1, <1>0 DEF MigType
    <2>3. fails \in Nat
      BY DEF IInv, TypeOK
    <2>4. fails' = fails + 1
      BY DEF warmupFailed
    <2>5. fails' \in Nat
      BY <2>3, <2>4
    <2> QED
      BY <2>2, <2>5
  <1>2. gap' \in [Paths -> SUBSET Reasons] /\ \A p \in Paths : gap[p] \subseteq gap'[p]
    BY <1>0 DEF IInv, TypeOK, Reasons
  <1>3. ~Scanning /\ scan.at # "embed"
    BY <1>0 DEF IInv, MarkerExact, Scanning
  <1>4. SlotsOK' /\ SlotTypes'
    BY <1>0, <1>3, SlotsStay
  <1>5. TypeOK'
    BY <1>0, <1>1, <1>2, <1>4 DEF IInv, TypeOK, SlotTypes, MigType
  <1>6. MarkerExact'
    BY <1>0, <1>1 DEF IInv, MarkerExact, Scanning
  <1>7. CallsNumbered' /\ KilledSettled' /\ GhostsExplained'
    <2>1. ~Scanning' /\ \A k \in killed' : meta'.marker = k \/ ~isCurrent(k.path, k.v) \/ row'[k.path].image = "failed"
      BY <1>0, <1>3 DEF IInv, KilledSettled, Scanning
    <2> QED
      BY <2>1, <1>0, <1>2, <1>5, BackgroundKeeps
  <1> QED
    BY <1>4, <1>5, <1>6, <1>7 DEF IInv

LEMMA BatchTyped == ASSUME TypeOK, NEW n, NEW S \in SUBSET Paths PROVE Batch(n, S) \subseteq Snapshot
  BY DEF TypeOK, Row, Snapshot, Batch

LEMMA MigrationSelectKeeps == ASSUME IInv, migrationSelect PROVE IInv'
  <1>0. /\ up = "yes" /\ mig.at = "rows"
        /\ UNCHANGED <<up, conf, meta, obj, row, text, image, call, slots, scan, gap, killed, bounds>> /\ calls' = calls
    BY DEF migrationSelect, bounds
  <1>1. mig' \in MigType /\ mig'.at \in {"rows", "after"}
    <2>1. Batch(mig.cursor, PendingText) \subseteq Snapshot
      BY BatchTyped DEF IInv, PendingText
    <2>2. mig \in MigType
      BY DEF IInv, TypeOK, MigType
    <2> QED
      BY <2>1, <2>2 DEF migrationSelect, MigType
  <1>3. ~Scanning /\ scan.at # "embed"
    BY <1>0 DEF IInv, MarkerExact, Scanning
  <1>4. SlotsOK' /\ SlotTypes'
    BY <1>0, <1>3, SlotsStay
  <1>5. TypeOK'
    BY <1>0, <1>1, <1>4 DEF IInv, TypeOK, SlotTypes, MigType, bounds
  <1>6. MarkerExact'
    BY <1>0, <1>1 DEF IInv, MarkerExact, Scanning
  <1>7. CallsNumbered' /\ KilledSettled' /\ GhostsExplained'
    <2>1. ~Scanning' /\ \A k \in killed' : meta'.marker = k \/ ~isCurrent(k.path, k.v) \/ row'[k.path].image = "failed"
      BY <1>0, <1>3 DEF IInv, KilledSettled, Scanning
    <2> QED
      BY <2>1, <1>0, <1>5, BackgroundKeeps
  <1> QED
    BY <1>4, <1>5, <1>6, <1>7 DEF IInv

(* The rows and chunks after a migration step that gives a file up. *)
LEMMA TextGivenUp ==
  ASSUME IInv, NEW p \in Paths, NEW s \in Status,
         row' = row \/ row' = WithText(p, s),
         text' = text \/ text' = [text EXCEPT ![p] = NoChunks]
  PROVE  /\ row' \in [Paths -> Row] /\ text' \in [Paths -> Chunks]
         /\ \A q \in Paths : /\ row'[q].v = row[q].v /\ row'[q].live = row[q].live /\ row'[q].image = row[q].image
                             /\ text'[q] = text[q] \/ text'[q] = NoChunks
  <1>1. row \in [Paths -> Row] /\ text \in [Paths -> Chunks] /\ [text EXCEPT ![p] = NoChunks] \in [Paths -> Chunks]
    BY ImageChunksTyped DEF IInv, TypeOK
  <1>2. /\ WithText(p, s) \in [Paths -> Row]
        /\ \A q \in Paths : /\ WithText(p, s)[q].v = row[q].v /\ WithText(p, s)[q].live = row[q].live
                            /\ WithText(p, s)[q].image = row[q].image
    BY RowText DEF IInv
  <1> QED
    BY <1>1, <1>2

(* A migration step that only gives a file up. *)
LEMMA MigrationStep ==
  ASSUME IInv, mig.at \in {"rows", "extract"}, up = "yes",
         UNCHANGED <<up, conf, meta, obj, image, call, scan, gap, killed, bounds>>,
         SlotsOK', SlotTypes', mig' \in MigType, mig'.at \in {"rows", "extract", "embed"},
         mig'.at \in {"extract", "embed"} => mig'.rows # {},
         row' \in [Paths -> Row], text' \in [Paths -> Chunks],
         \A q \in Paths : /\ row'[q].v = row[q].v /\ row'[q].live = row[q].live /\ row'[q].image = row[q].image
                          /\ text'[q] = text[q] \/ text'[q] = NoChunks
  PROVE  IInv'
  <1>1. ~Scanning /\ scan.at # "embed" /\ calls' = calls
    BY DEF IInv, MarkerExact, Scanning, bounds
  <1>2. TypeOK'
    BY DEF IInv, TypeOK, SlotTypes, MigType, bounds
  <1>3. MarkerExact'
    BY <1>1 DEF IInv, MarkerExact, Scanning, bounds
  <1>4. CallsNumbered' /\ KilledSettled' /\ GhostsExplained'
    <2>1. \A k \in killed : k.path \in Paths
      BY DEF IInv, TypeOK, Snapshot
    <2>2. ~Scanning' /\ \A k \in killed' : meta'.marker = k \/ ~isCurrent(k.path, k.v) \/ row'[k.path].image = "failed"
      BY <1>1, <2>1 DEF IInv, KilledSettled, Scanning
    <2> QED
      BY <2>2, <1>1, <1>2, BackgroundKeeps
  <1> QED
    BY <1>2, <1>3, <1>4 DEF IInv

LEMMA MigrationReadKeeps == ASSUME IInv, migrationRead PROVE IInv'
  <1>0. /\ up = "yes" /\ mig.at = "rows" /\ mig.rows # {} /\ mig \in MigType
        /\ UNCHANGED <<up, conf, meta, obj, image, call, slots, scan, gap, killed, bounds>> /\ calls' = calls
    BY DEF migrationRead, bounds, IInv, TypeOK, MigType
  <1>1. /\ NextRow(mig) \in MigType /\ NextRow(mig).at = "rows"
        /\ First(mig) \in Snapshot /\ First(mig).path \in Paths
    BY <1>0, NextRowTyped DEF Snapshot
  <1>2. PICK p \in Paths : p = First(mig).path
    BY <1>1
  <1>3. mig' \in MigType /\ mig'.at \in {"rows", "extract"} /\ (mig'.at = "extract" => mig'.rows # {})
    <2>1. CASE mig' = NextRow(mig)
      BY <2>1, <1>1
    <2>2. CASE mig' = [mig EXCEPT !.at = "extract", !.doc = obj[p]]
      <3>1. obj[p] \in Docs
        BY DEF IInv, TypeOK
      <3> QED
        BY <2>2, <3>1, <1>0 DEF MigType
    <2> QED
      BY <2>1, <2>2, <1>2 DEF migrationRead
  <1>4. /\ row' \in [Paths -> Row] /\ text' \in [Paths -> Chunks]
        /\ \A q \in Paths : /\ row'[q].v = row[q].v /\ row'[q].live = row[q].live /\ row'[q].image = row[q].image
                            /\ text'[q] = text[q] \/ text'[q] = NoChunks
    <2>1. PICK s \in Status : row' = row \/ row' = WithText(p, s)
      <3>1. "skipped" \in Status /\ "failed" \in Status
        BY DEF Status
      <3>2. row' = row \/ row' = WithText(p, "skipped") \/ row' = WithText(p, "failed")
        BY <1>2 DEF migrationRead
      <3> QED
        BY <3>1, <3>2
    <2>2. text' = text \/ text' = [text EXCEPT ![p] = NoChunks]
      BY <1>2 DEF migrationRead
    <2> QED
      BY <2>1, <2>2, TextGivenUp
  <1>5. SlotsOK' /\ SlotTypes'
    <2>1. scan.at # "embed"
      BY <1>0 DEF IInv, MarkerExact, Scanning
    <2> QED
      BY <2>1, <1>0, SlotsStay
  <1> QED
    BY <1>0, <1>3, <1>4, <1>5, MigrationStep

(* A background job waits for a slot. *)
LEMMA EnterOwned ==
  ASSUME IInv, NEW t \in Task, t.by \in {"migration", "image"}, \A s \in Tasks : s.by # t.by, Enter(t),
         UNCHANGED <<call, calls, meta>>, mig.at = "embed" => mig'.at = "embed",
         scan.at = "embed" => scan'.at = "embed",
         t.by = "migration" => mig'.at = "embed",
         t.by = "image" => scan'.at = "embed" /\ t.path = meta.marker.path /\ t.v = meta.marker.v
  PROVE  SlotsOK' /\ SlotTypes'
  <1>1. SlotsBase /\ SlotTypes /\ t \notin Tasks
    BY DEF IInv, SlotsOK, SlotsBase, SlotTypes, TypeOK
  <1>2. SlotsBase' /\ SlotTypes' /\ Tasks' = Tasks \cup {t}
    BY <1>1, EnterKeeps
  <1>3. TasksOwned'
    <2>1. Tasks' = running' \cup Waiters' /\ Tasks = running \cup Waiters
      BY DEF Tasks
    <2>2. \A s \in Tasks' : s.by = "write" =>
             s.v <= calls' /\ \A d \in Clients : call'[d].op = "write" => call'[d].n # s.v
      BY <1>2, <2>1 DEF IInv, SlotsOK, TasksOwned
    <2>3. \A s \in Tasks' : /\ s.by = "migration" => mig'.at = "embed"
                            /\ s.by = "image" => /\ scan'.at = "embed"
                                                 /\ s.path = meta'.marker.path /\ s.v = meta'.marker.v
      BY <1>2, <2>1 DEF IInv, SlotsOK, TasksOwned
    <2>4. \A s, u \in Tasks' : s.by = u.by /\ s.by \in {"migration", "image"} => s = u
      BY <1>2, <2>1 DEF IInv, SlotsOK, TasksOwned
    <2> QED
      BY <2>1, <2>2, <2>3, <2>4 DEF TasksOwned
  <1> QED
    BY <1>2, <1>3 DEF SlotsOK, SlotsBase

LEMMA MigrationExtractKeeps == ASSUME IInv, migrationExtract PROVE IInv'
  <1>0. /\ up = "yes" /\ mig.at = "extract" /\ mig.rows # {} /\ mig \in MigType
        /\ UNCHANGED <<up, conf, meta, obj, image, call, scan, gap, killed, bounds>> /\ calls' = calls
    BY DEF migrationExtract, bounds, IInv, TypeOK, MigType, MarkerExact
  <1>1. /\ NextRow(mig) \in MigType /\ NextRow(mig).at = "rows"
        /\ First(mig) \in Snapshot /\ First(mig).path \in Paths
    BY <1>0, NextRowTyped DEF Snapshot
  <1>2. PICK p \in Paths : p = First(mig).path
    BY <1>1
  <1>3. /\ row' \in [Paths -> Row] /\ text' \in [Paths -> Chunks]
        /\ \A q \in Paths : /\ row'[q].v = row[q].v /\ row'[q].live = row[q].live /\ row'[q].image = row[q].image
                            /\ text'[q] = text[q] \/ text'[q] = NoChunks
    <2>1. PICK s \in Status : s = "null"
      BY DEF Status
    <2>2. row' = row \/ row' = WithText(p, s)
      BY <1>2, <2>1 DEF migrationExtract
    <2>3. text' = text \/ text' = [text EXCEPT ![p] = NoChunks]
      BY <1>2 DEF migrationExtract
    <2> QED
      BY <2>2, <2>3, TextGivenUp
  <1>4. scan.at # "embed" /\ \A s \in Tasks : s.by # "migration"
    BY <1>0 DEF IInv, MarkerExact, Scanning, SlotsOK, TasksOwned, Tasks
  <1>5. CASE ~HasText(mig.doc)
    <2>1. mig' = NextRow(mig) /\ UNCHANGED slots
      BY <1>5 DEF migrationExtract
    <2>2. SlotsOK' /\ SlotTypes'
      BY <2>1, <1>0, <1>4, SlotsStay
    <2> QED
      BY <2>1, <2>2, <1>0, <1>1, <1>3, MigrationStep
  <1>6. CASE HasText(mig.doc)
    <2> DEFINE t == [by |-> "migration", path |-> First(mig).path, v |-> First(mig).v, doc |-> mig.doc]
    <2>1. Enter(t) /\ mig' = [mig EXCEPT !.at = "embed"]
      BY <1>6 DEF migrationExtract
    <2>2. t \in Task /\ t.by = "migration"
      BY <1>0, <1>1 DEF Task, Snapshot, MigType
    <2>3. mig' \in MigType /\ mig'.at = "embed" /\ mig'.rows # {}
      BY <2>1, <1>0 DEF MigType
    <2> HIDE DEF t
    <2>4. SlotsOK' /\ SlotTypes'
      BY <2>1, <2>2, <2>3, <1>0, <1>4, EnterOwned
    <2> QED
      BY <2>3, <2>4, <1>0, <1>3, MigrationStep
  <1> QED
    BY <1>5, <1>6

LEMMA AfterMigrationKeeps == ASSUME IInv, afterMigration PROVE IInv'
  <1>0. /\ up = "yes" /\ mig.at = "after" /\ mig' = Stopped
        /\ UNCHANGED <<up, conf, obj, text, image, call, slots, gap, bounds>> /\ calls' = calls
    BY DEF afterMigration, bounds
  <1>1. mig' \in MigType /\ mig'.at = "off" /\ mig'.rows = {}
    BY <1>0, ConstantsTyped DEF MigType, Stopped
  <1>2. ~Scanning /\ scan.at \in {"off", "wait"}
    BY <1>0 DEF IInv, MarkerExact, Scanning, TypeOK
  <1>3. scan' = scan \/ scan' = scheduled(scan)
    BY DEF afterMigration
  <1>4. scan' \in ScanType /\ scan'.rows = scan.rows /\ scan'.at \in {"off", "wait"} /\ ~Scanning'
    BY <1>2, <1>3, ScheduledTyped DEF IInv, Scanning
  <1>5. SlotsOK' /\ SlotTypes'
    BY <1>0, <1>2, SlotsStay
  <1>6. /\ row' \in [Paths -> Row] /\ \A p \in Paths : row'[p].v = row[p].v /\ row'[p].live = row[p].live
        /\ ~NewFormat => \A p \in Paths :
              /\ row[p].image = "failed" =>
                    \/ row'[p].image = "failed"
                    \/ meta.marker.path = p /\ isCurrent(p, meta.marker.v) /\ conf.excluded = "yes"
              /\ meta.marker.path = p /\ isCurrent(p, meta.marker.v) /\ conf.excluded = "no" => row'[p].image = "failed"
    <2>1. CASE NewFormat
      BY <2>1 DEF afterMigration, IInv, TypeOK
    <2>2. CASE ~NewFormat
      <3>0. row' = [p \in Paths |-> Queued(Recovered(p))]
        BY <2>2 DEF afterMigration
      <3>1. ASSUME NEW p \in Paths
            PROVE  /\ row'[p] \in Row /\ row'[p].v = row[p].v /\ row'[p].live = row[p].live
                   /\ row[p].image = "failed" =>
                    \/ row'[p].image = "failed"
                    \/ meta.marker.path = p /\ isCurrent(p, meta.marker.v) /\ conf.excluded = "yes"
                   /\ meta.marker.path = p /\ isCurrent(p, meta.marker.v) /\ conf.excluded = "no" => row'[p].image = "failed"
        <4>0. row[p] \in Row
          BY DEF IInv, TypeOK
        <4>1. /\ Recovered(p) \in Row /\ Recovered(p).v = row[p].v /\ Recovered(p).live = row[p].live
              /\ ~(meta.marker.path = p /\ isCurrent(p, meta.marker.v)) => Recovered(p) = row[p]
              /\ meta.marker.path = p /\ isCurrent(p, meta.marker.v) =>
                    Recovered(p).image = IF conf.excluded = "yes" THEN "null" ELSE "failed"
          BY <4>0 DEF Recovered, Row, Status
        <4>2. \A r \in Row : /\ Queued(r) \in Row /\ Queued(r).v = r.v /\ Queued(r).live = r.live
                             /\ r.image = "failed" => Queued(r).image = "failed"
          BY DEF Queued, Row, Status
        <4>3. conf.excluded \in {"no", "yes"}
          BY ConfTyped DEF IInv, ConfType
        <4>4. row'[p] = Queued(Recovered(p))
          BY <3>0
        <4> QED
          BY <4>1, <4>2, <4>3, <4>4
      <3>2. row' \in [Paths -> Row]
        BY <3>0, <3>1
      <3> QED
        BY <3>1, <3>2
    <2> QED
      BY <2>1, <2>2
  <1>7. /\ meta' \in MetaType /\ meta'.format = meta.format
        /\ IF NewFormat THEN meta'.marker = meta.marker ELSE meta'.marker = NoMarker
    BY ConstantsTyped DEF afterMigration, IInv, TypeOK, MetaType
  <1>8. killed' \subseteq killed
    BY DEF afterMigration
  <1>9. TypeOK'
    BY <1>0, <1>1, <1>4, <1>5, <1>6, <1>7, <1>8 DEF IInv, TypeOK, SlotTypes, MigType, ScanType, MetaType, bounds
  <1>10. MarkerExact'
    BY <1>0, <1>1, <1>4, <1>7 DEF IInv, MarkerExact, Scanning, NewFormat
  <1>11. ASSUME NEW k \in killed' PROVE meta'.marker = k \/ ~isCurrent(k.path, k.v) \/ row'[k.path].image = "failed"
    <2>1. k \in killed /\ k \in Snapshot /\ k.path \in Paths
      BY <1>8 DEF IInv, TypeOK, Snapshot
    <2>2. meta.marker = k \/ ~isCurrent(k.path, k.v) \/ row[k.path].image = "failed"
      BY <2>1 DEF IInv, KilledSettled
    <2>3. CASE NewFormat
      BY <2>2, <2>3, <1>7 DEF afterMigration
    <2>4. CASE ~NewFormat /\ isCurrent(k.path, k.v)
      <3>1. conf.excluded = "yes" => k # meta.marker
        BY <2>4 DEF afterMigration
      <3>2. meta.marker.path = k.path /\ isCurrent(k.path, meta.marker.v) => k = meta.marker
        <4>1. PICK mk \in [path : 0..N, v : Versions] : mk = meta.marker
          BY DEF IInv, TypeOK
        <4>2. mk.path = k.path /\ mk.v = k.v => k = mk
          BY <2>1 DEF Snapshot
        <4>3. isCurrent(k.path, mk.v) => mk.v = k.v
          BY <2>4 DEF isCurrent
        <4> QED
          BY <4>1, <4>2, <4>3
      <3>3. conf.excluded \in {"no", "yes"}
        BY ConfTyped DEF IInv, ConfType
      <3> QED
        BY <3>1, <3>2, <3>3, <2>1, <2>2, <2>4, <1>6
    <2> QED
      BY <2>3, <2>4
  <1>12. CallsNumbered' /\ KilledSettled' /\ GhostsExplained'
    BY <1>0, <1>4, <1>6, <1>8, <1>9, <1>11, BackgroundKeeps
  <1> QED
    BY <1>5, <1>9, <1>10, <1>12 DEF IInv

LEMMA RunEndsTyped ==
  ASSUME TypeOK
  PROVE  RunEnds \in ScanType /\ RunEnds.at \in {"off", "wait"} /\ RunEnds.rows = {}
  <1>1. scan \in ScanType /\ NoDoc \in Docs /\ 0 \in 0..N
    BY ConstantsTyped, BoundAssumption DEF TypeOK, ScanType
  <1> QED
    BY <1>1 DEF RunEnds, ScanType

(* A step of the image job that takes no task and leaves the rows alone. *)
LEMMA ScanStep ==
  ASSUME IInv, up = "yes", UNCHANGED <<up, conf, meta, obj, row, text, image, call, slots, mig, gap, killed, bounds>>,
         scan.at \in {"wait", "rows"}, scan' \in ScanType, mig.at = "off",
         scan'.at \in {"off", "wait"} \/ (scan'.at = "rows" /\ ~NewFormat),
         scan'.at = "rows" => \A r \in scan'.rows : r \notin killed,
         \A r \in scan'.rows : r.v <= calls
  PROVE  IInv'
  <1>1. scan.at # "embed" /\ calls' = calls
    BY DEF bounds
  <1>2. SlotsOK' /\ SlotTypes'
    BY <1>1, SlotsStay
  <1>3. TypeOK'
    BY <1>2 DEF IInv, TypeOK, SlotTypes, ScanType, bounds
  <1>4. MarkerExact'
    BY <1>1 DEF IInv, MarkerExact, Scanning, NewFormat
  <1>5. CallsNumbered' /\ KilledSettled' /\ GhostsExplained'
    <2>1. Scanning' => \A k \in killed' : k \notin scan'.rows
      BY DEF Scanning
    <2>2. \A k \in killed' : meta'.marker = k \/ ~isCurrent(k.path, k.v) \/ row'[k.path].image = "failed"
      BY DEF IInv, KilledSettled
    <2> QED
      BY <2>1, <2>2, <1>1, <1>3, BackgroundKeeps
  <1> QED
    BY <1>2, <1>3, <1>4, <1>5 DEF IInv

LEMMA ImageSlotKeeps == ASSUME IInv, imageSlot PROVE IInv'
  <1>0. /\ up = "yes" /\ scan.at = "wait" /\ mig.at = "off" /\ scan \in ScanType
        /\ UNCHANGED <<up, conf, meta, obj, row, text, image, call, slots, mig, gap, killed, bounds>>
    BY DEF imageSlot, MigrationSlotFree, IInv, TypeOK, ScanType
  <1>1. CASE NewFormat
    BY <1>0, <1>1, RunEndsTyped, ScanStep DEF imageSlot, IInv
  <1>2. CASE ~NewFormat
    <2>1. scan' = [scan EXCEPT !.at = "rows", !.rows = {}, !.cursor = 0] /\ 0 \in 0..N
      BY <1>2, BoundAssumption DEF imageSlot
    <2>2. scan' \in ScanType /\ scan'.at = "rows" /\ scan'.rows = {}
      BY <2>1, <1>0 DEF ScanType
    <2> QED
      BY <1>0, <1>2, <2>2, ScanStep
  <1> QED
    BY <1>1, <1>2

LEMMA ImageSelectKeeps == ASSUME IInv, imageSelect PROVE IInv'
  <1>0. /\ up = "yes" /\ scan.at = "rows" /\ scan \in ScanType
        /\ UNCHANGED <<up, conf, meta, obj, row, text, image, call, slots, mig, gap, killed, bounds>>
    BY DEF imageSelect, IInv, TypeOK, ScanType
  <1>1. mig.at = "off" /\ ~NewFormat /\ meta.marker = NoMarker
    BY <1>0 DEF IInv, MarkerExact, Scanning
  <1>2. PICK b \in SUBSET Snapshot : b = Batch(scan.cursor, PendingImages)
    BY BatchTyped DEF IInv, PendingImages
  <1>3. \A r \in b : r.v <= calls /\ r \notin killed
    <2> SUFFICES ASSUME NEW r \in b PROVE r.v <= calls /\ r \notin killed
      OBVIOUS
    <2>1. r.path \in Paths /\ r.v = row[r.path].v /\ row[r.path].live = "yes" /\ row[r.path].image = "pending"
      BY <1>2 DEF Batch, PendingImages
    <2>2. r.v <= calls
      BY <2>1 DEF IInv, CallsNumbered
    <2>3. r \in killed => meta.marker = r
      BY <2>1 DEF IInv, KilledSettled, isCurrent
    <2>4. r.path # 0
      BY <2>1 DEF Paths
    <2> QED
      BY <2>2, <2>3, <2>4, <1>1 DEF NoMarker
  <1>4. CASE b = {}
    BY <1>0, <1>1, <1>2, <1>4, RunEndsTyped, ScanStep DEF imageSelect, IInv
  <1>5. CASE b # {}
    <2>1. scan' = [scan EXCEPT !.rows = b]
      BY <1>2, <1>5 DEF imageSelect
    <2>2. scan' \in ScanType /\ scan'.at = "rows" /\ scan'.rows = b
      BY <2>1, <1>0 DEF ScanType
    <2> QED
      BY <1>0, <1>1, <1>3, <2>2, ScanStep
  <1> QED
    BY <1>4, <1>5

LEMMA ImageRowKeeps == ASSUME IInv, imageRow PROVE IInv'
  <1>0. /\ up = "yes" /\ scan.at = "rows" /\ scan.rows # {} /\ scan \in ScanType
        /\ UNCHANGED <<up, conf, obj, text, image, call, slots, mig, gap, killed, bounds>> /\ calls' = calls
    BY DEF imageRow, IInv, TypeOK, ScanType, bounds
  <1>1. mig.at = "off" /\ ~NewFormat /\ meta.marker = NoMarker /\ Scanning /\ meta \in MetaType
    BY <1>0 DEF IInv, MarkerExact, Scanning, TypeOK, MetaType
  <1>2. /\ NextRow(scan) \in ScanType /\ NextRow(scan).at = "rows" /\ NextRow(scan).rows \subseteq scan.rows
        /\ First(scan) \in scan.rows /\ First(scan) \in Snapshot
    BY <1>0, NextRowTyped
  <1>3. PICK r \in Snapshot : r = First(scan)
    BY <1>2
  <1>4. r.path \in Paths /\ r \notin killed /\ r.v <= calls /\ r \in scan.rows
    BY <1>0, <1>1, <1>2, <1>3 DEF IInv, KilledSettled, MarkerExact, Snapshot
  <1>5. /\ row' \in [Paths -> Row] /\ \A p \in Paths : row'[p].v = row[p].v /\ row'[p].live = row[p].live
        /\ \A p \in Paths : row'[p].image = row[p].image \/ (p = r.path /\ isCurrent(r.path, r.v))
    <2>1. CASE row' = row
      BY <2>1 DEF IInv, TypeOK
    <2>2. CASE row' = WithImage(r.path, "null") /\ isCurrent(r.path, r.v)
      <3>1. PICK p \in Paths, s \in Status \ {"skipped"} : p = r.path /\ s = "null"
        BY <1>4 DEF Status
      <3>2. /\ WithImage(p, s) \in [Paths -> Row]
            /\ \A q \in Paths : /\ WithImage(p, s)[q].v = row[q].v /\ WithImage(p, s)[q].live = row[q].live
                                /\ q # p => WithImage(p, s)[q].image = row[q].image
        BY RowImage DEF IInv
      <3> QED
        BY <3>1, <3>2, <2>2
    <2> QED
      BY <2>1, <2>2, <1>3 DEF imageRow
  <1>6. /\ scan' \in ScanType /\ meta' \in MetaType /\ scan'.rows \subseteq scan.rows /\ meta'.format = meta.format
        /\ \/ scan'.at = "rows" /\ meta'.marker = meta.marker
           \/ scan'.at = "read" /\ meta'.marker = r /\ scan'.rows = scan.rows
    <2>1. CASE scan' = NextRow(scan) /\ meta' = meta
      BY <2>1, <1>1, <1>2
    <2>2. CASE meta' = [meta EXCEPT !.marker = r] /\ scan' = [scan EXCEPT !.at = "read"]
      <3>1. r \in [path : 0..N, v : Versions]
        BY DEF Snapshot, Paths
      <3> QED
        BY <3>1, <2>2, <1>0, <1>1 DEF ScanType, MetaType
    <2> QED
      BY <2>1, <2>2, <1>3 DEF imageRow
  <1>7. SlotsOK' /\ SlotTypes'
    BY <1>0, SlotsStay
  <1>8. TypeOK'
    BY <1>0, <1>5, <1>6, <1>7 DEF IInv, TypeOK, SlotTypes, ScanType, MetaType, bounds
  <1>9. MarkerExact'
    <2>1. scan'.at = "read" => First(scan') = r
      BY <1>3, <1>6 DEF First
    <2> QED
      BY <2>1, <1>0, <1>1, <1>6 DEF IInv, MarkerExact, Scanning, NewFormat
  <1>10. ASSUME NEW k \in killed' PROVE meta'.marker = k \/ ~isCurrent(k.path, k.v) \/ row'[k.path].image = "failed"
    <2>1. k \in killed /\ k \in Snapshot /\ k.path \in Paths /\ k # NoMarker
      BY <1>0 DEF IInv, TypeOK, Snapshot, NoMarker, Paths
    <2>2. ~isCurrent(k.path, k.v) \/ row[k.path].image = "failed"
      BY <2>1, <1>1 DEF IInv, KilledSettled
    <2>3. isCurrent(k.path, k.v) /\ k.path = r.path /\ isCurrent(r.path, r.v) => k = r
      BY <2>1 DEF isCurrent, Snapshot
    <2> QED
      BY <2>1, <2>2, <2>3, <1>0, <1>4, <1>5
  <1>11. CallsNumbered' /\ KilledSettled' /\ GhostsExplained'
    <2>1. \A k \in killed' : k \notin scan'.rows
      BY <1>0, <1>1, <1>6 DEF IInv, KilledSettled
    <2> QED
      BY <2>1, <1>0, <1>5, <1>8, <1>10, BackgroundKeeps
  <1> QED
    BY <1>7, <1>8, <1>9, <1>11 DEF IInv

LEMMA EmbedImageFileKeeps == ASSUME IInv, embedImageFile PROVE IInv'
  <1>0. /\ up = "yes" /\ scan.at = "read" /\ scan.rows # {} /\ scan \in ScanType
        /\ UNCHANGED <<up, conf, obj, text, image, call, mig, gap, killed, bounds>> /\ calls' = calls
    BY DEF embedImageFile, IInv, TypeOK, ScanType, bounds, MarkerExact
  <1>1. /\ mig.at = "off" /\ ~NewFormat /\ meta.marker = First(scan) /\ Scanning /\ meta \in MetaType
        /\ \A s \in Tasks : s.by \notin {"migration", "image"}
    BY <1>0 DEF IInv, MarkerExact, Scanning, TypeOK, MetaType, SlotsOK, TasksOwned, Tasks
  <1>2. /\ NextRow(scan) \in ScanType /\ NextRow(scan).at = "rows" /\ NextRow(scan).rows \subseteq scan.rows
        /\ First(scan) \in scan.rows /\ First(scan) \in Snapshot
    BY <1>0, NextRowTyped
  <1>3. PICK r \in Snapshot : r = First(scan)
    BY <1>2
  <1>4. /\ r.path \in Paths /\ r.v \in Versions /\ r \notin killed /\ r.v <= calls /\ r = meta.marker
        /\ obj[r.path] \in Docs
    BY <1>0, <1>1, <1>2, <1>3 DEF IInv, KilledSettled, MarkerExact, Snapshot, TypeOK
  <1>5. CASE obj[r.path] = NoDoc
    <2>1. /\ row' = IF isCurrent(r.path, r.v) THEN WithImage(r.path, "failed") ELSE row
          /\ scan' = NextRow(scan) /\ meta' = [meta EXCEPT !.marker = NoMarker] /\ UNCHANGED slots
      BY <1>3, <1>5 DEF embedImageFile
    <2>2. /\ row' \in [Paths -> Row] /\ \A p \in Paths : row'[p].v = row[p].v /\ row'[p].live = row[p].live
          /\ \A p \in Paths : row'[p].image = row[p].image \/ row'[p].image = "failed"
      <3>1. PICK p \in Paths, s \in Status \ {"skipped"} : p = r.path /\ s = "failed"
        BY <1>4 DEF Status
      <3>2. /\ WithImage(p, s) \in [Paths -> Row]
            /\ \A q \in Paths : /\ WithImage(p, s)[q].v = row[q].v /\ WithImage(p, s)[q].live = row[q].live
                                /\ q # p => WithImage(p, s)[q].image = row[q].image
            /\ WithImage(p, s)[p].image = s
        BY RowImage DEF IInv
      <3>3. row' = row \/ row' = WithImage(p, s)
        BY <2>1, <3>1
      <3>4. row \in [Paths -> Row]
        BY DEF IInv, TypeOK
      <3> QED
        BY <3>1, <3>2, <3>3, <3>4
    <2>3. meta' \in MetaType /\ meta'.marker = NoMarker /\ meta'.format = meta.format
      BY <2>1, <1>1, ConstantsTyped DEF MetaType
    <2>4. scan' \in ScanType /\ scan'.at = "rows" /\ scan'.rows \subseteq scan.rows
      BY <2>1, <1>2
    <2>5. SlotsOK' /\ SlotTypes'
      BY <2>1, <1>0, SlotsStay
    <2>6. TypeOK'
      BY <2>2, <2>3, <2>4, <2>5, <1>0 DEF IInv, TypeOK, SlotTypes, ScanType, MetaType, bounds
    <2>7. MarkerExact'
      BY <2>3, <2>4, <1>0, <1>1 DEF IInv, MarkerExact, Scanning, NewFormat
    <2>8. ASSUME NEW k \in killed' PROVE meta'.marker = k \/ ~isCurrent(k.path, k.v) \/ row'[k.path].image = "failed"
      <3>1. k \in killed /\ k \in Snapshot /\ k.path \in Paths /\ k # meta.marker
        BY <1>0, <1>4 DEF IInv, TypeOK, Snapshot
      <3>2. ~isCurrent(k.path, k.v) \/ row[k.path].image = "failed"
        BY <3>1 DEF IInv, KilledSettled
      <3> QED
        BY <3>1, <3>2, <2>2
    <2>9. CallsNumbered' /\ KilledSettled' /\ GhostsExplained'
      <3>1. \A k \in killed' : k \notin scan'.rows
        BY <1>0, <1>1, <2>4 DEF IInv, KilledSettled
      <3> QED
        BY <3>1, <1>0, <2>2, <2>6, <2>8, BackgroundKeeps
    <2> QED
      BY <2>5, <2>6, <2>7, <2>9 DEF IInv
  <1>6. CASE obj[r.path] # NoDoc
    <2> DEFINE t == [by |-> "image", path |-> r.path, v |-> r.v, doc |-> obj[r.path]]
    <2>1. /\ Enter(t) /\ scan' = [scan EXCEPT !.at = "embed", !.doc = obj[r.path]]
          /\ UNCHANGED <<row, meta>>
      BY <1>3, <1>6 DEF embedImageFile
    <2>2. t \in Task /\ t.by = "image" /\ t.path = meta.marker.path /\ t.v = meta.marker.v
      BY <1>4 DEF Task
    <2>3. scan' \in ScanType /\ scan'.at = "embed" /\ scan'.rows = scan.rows
      BY <2>1, <1>0, <1>4 DEF ScanType
    <2> HIDE DEF t
    <2>4. SlotsOK' /\ SlotTypes'
      BY <2>1, <2>2, <2>3, <1>0, <1>1, EnterOwned
    <2>5. TypeOK'
      BY <2>1, <2>3, <2>4, <1>0 DEF IInv, TypeOK, SlotTypes, ScanType, bounds
    <2>6. MarkerExact'
      <3>1. First(scan') = First(scan)
        BY <2>3 DEF First
      <3> QED
        BY <3>1, <2>1, <2>3, <1>0, <1>1 DEF IInv, MarkerExact, Scanning, NewFormat
    <2>7. CallsNumbered' /\ KilledSettled' /\ GhostsExplained'
      <3>1. \A k \in killed' : k \notin scan'.rows
        BY <1>0, <1>1, <2>3 DEF IInv, KilledSettled
      <3>2. \A k \in killed' : meta'.marker = k \/ ~isCurrent(k.path, k.v) \/ row'[k.path].image = "failed"
        BY <1>0, <2>1 DEF IInv, KilledSettled
      <3> QED
        BY <3>1, <3>2, <1>0, <2>1, <2>5, BackgroundKeeps
    <2> QED
      BY <2>4, <2>5, <2>6, <2>7 DEF IInv
  <1> QED
    BY <1>5, <1>6

-----------------------------------------------------------------------------
(* The process, and the theorems. *)

(* No slot is taken before the first task. *)
LEMMA NoTasks ==
  ASSUME permits = Permits, queue = <<>>, running = {}
  PROVE  SlotsOK /\ SlotTypes
  <1>1. {t \in running : t.by # "reindex"} = {} /\ Waiters = {} /\ running \cup Waiters = {}
    BY DEF Waiters
  <1>2. Cardinality({t \in running : t.by # "reindex"}) = 0 /\ IsFiniteSet(running)
    BY <1>1, FS_EmptySet
  <1>3. SlotsConserved
    BY <1>2, BoundAssumption DEF SlotsConserved
  <1>4. QueueApart /\ TasksOwned
    BY <1>1 DEF QueueApart, TasksOwned
  <1>5. SlotTypes
    BY BoundAssumption DEF SlotTypes
  <1> QED
    BY <1>2, <1>3, <1>4, <1>5 DEF SlotsOK

(* A call that fails ends; the others learn of it where they share a path. *)
Weaker(d) ==
    /\ call'[d].op = call[d].op /\ call'[d].at = call[d].at /\ call'[d].n = call[d].n
    /\ call'[d].path = call[d].path /\ call'[d].to = call[d].to /\ call'[d].doc = call[d].doc
    /\ call'[d].text = call[d].text /\ call'[d].image = call[d].image /\ call'[d].seen = call[d].seen
    /\ call'[d].format = call[d].format /\ call'[d].rows = call[d].rows
    /\ call[d].gap \subseteq call'[d].gap

LEMMA CallFailedDoes ==
  ASSUME TypeOK, NEW c \in Clients, callFailed(c)
  PROVE  /\ call' \in [Clients -> Call] /\ call'[c] = Idle /\ call[c].op \in {"write", "rm", "mv"}
         /\ \A d \in Clients \ {c} : Weaker(d) /\ ("interrupted" \in call'[d].gap \/ call'[d] = call[d])
         /\ \A d \in Clients \ {c}, p \in Paths :
               Touches(c, p) /\ Touches(d, p) => "interrupted" \in call'[d].gap
         /\ gap' \in [Paths -> SUBSET Reasons]
         /\ \A p \in Paths : /\ gap[p] \subseteq gap'[p]
                             /\ ~Touches(c, p) => gap'[p] = gap[p]
                             /\ Touches(c, p) => {"interrupted", "left pending"} \subseteq gap'[p]
         /\ UNCHANGED <<up, conf, meta, obj, row, text, image, slots, mig, scan, killed, calls, crashes>>
         /\ fails' \in Nat
  <1>1. /\ call[c].op \in {"write", "rm", "mv"} /\ fails' = fails + 1
        /\ gap' = [p \in Paths |-> IF Touches(c, p) THEN gap[p] \cup {"interrupted", "left pending"} ELSE gap[p]]
        /\ call' = [d \in Clients |-> IF d = c THEN Idle
                                      ELSE IF Shared(c, d) THEN [call[d] EXCEPT !.gap = @ \cup {"interrupted"}]
                                      ELSE call[d]]
        /\ UNCHANGED <<up, conf, meta, obj, row, text, image, slots, mig, scan, killed, calls, crashes>>
    BY DEF callFailed
  <1>2. /\ gap \in [Paths -> SUBSET Reasons] /\ {"interrupted", "left pending"} \subseteq Reasons
        /\ call \in [Clients -> Call] /\ fails \in Nat /\ Idle \in Call
    BY ConstantsTyped DEF TypeOK, Reasons
  <1>3. ASSUME NEW d \in Clients
        PROVE  /\ [call[d] EXCEPT !.gap = @ \cup {"interrupted"}] \in Call
               /\ call'[d] = [call[d] EXCEPT !.gap = @ \cup {"interrupted"}] => Weaker(d) /\ "interrupted" \in call'[d].gap
               /\ call'[d] = call[d] => Weaker(d)
    <2>1. call[d] \in Call
      BY <1>2
    <2>2. call[d].gap \cup {"interrupted"} \in SUBSET Reasons
      BY <2>1, <1>2 DEF Call
    <2>3. [call[d] EXCEPT !.gap = @ \cup {"interrupted"}] \in Call
      BY <2>1, <2>2 DEF Call
    <2>4. call'[d] = [call[d] EXCEPT !.gap = @ \cup {"interrupted"}] => Weaker(d) /\ "interrupted" \in call'[d].gap
      BY <2>1 DEF Call, Weaker
    <2>5. call'[d] = call[d] => Weaker(d)
      BY <2>1 DEF Weaker
    <2> QED
      BY <2>3, <2>4, <2>5
  <1>4. call' \in [Clients -> Call] /\ call'[c] = Idle
    BY <1>1, <1>2, <1>3
  <1>5. ASSUME NEW d \in Clients \ {c}
        PROVE  /\ Weaker(d) /\ (Shared(c, d) => "interrupted" \in call'[d].gap)
               /\ "interrupted" \in call'[d].gap \/ call'[d] = call[d]
    BY <1>1, <1>3
  <1>6. \A p \in Paths : /\ gap[p] \subseteq gap'[p]
                         /\ ~Touches(c, p) => gap'[p] = gap[p]
                         /\ Touches(c, p) => {"interrupted", "left pending"} \subseteq gap'[p]
    BY <1>1
  <1>7. gap' \in [Paths -> SUBSET Reasons] /\ fails' \in Nat
    <2>1. fails' \in Nat
      <3>1. fails' = fails + 1
        BY <1>1
      <3>2. fails \in Nat
        BY <1>2
      <3> QED
        BY SMT, <3>1, <3>2
    <2>2. \A p \in Paths : gap[p] \cup {"interrupted", "left pending"} \in SUBSET Reasons /\ gap[p] \in SUBSET Reasons
      BY <1>2
    <2> QED
      BY <2>1, <2>2, <1>1
  <1> QED
    BY <1>1, <1>4, <1>5, <1>6, <1>7 DEF Shared

LEMMA CallFailedKeeps == ASSUME IInv, NEW c \in Clients, callFailed(c) PROVE IInv'
  <1>0. TypeOK /\ Idle.op = "none"
    BY DEF IInv, Idle
  <1>1. /\ call' \in [Clients -> Call] /\ call'[c] = Idle /\ call[c].op \in {"write", "rm", "mv"}
        /\ \A d \in Clients \ {c} : Weaker(d)
        /\ gap' \in [Paths -> SUBSET Reasons]
        /\ \A p \in Paths : /\ gap[p] \subseteq gap'[p]
                            /\ Touches(c, p) => "interrupted" \in gap'[p]
        /\ UNCHANGED <<up, conf, meta, obj, row, text, image, slots, mig, scan, killed, calls, crashes>>
        /\ fails' \in Nat
    BY <1>0, CallFailedDoes
  <1>2. TypeOK'
    BY <1>0, <1>1 DEF TypeOK, slots
  <1>3. \A d \in Clients : Active(d)' => d # c /\ Active(d) /\ Weaker(d)
    BY <1>0, <1>1 DEF Active, Weaker
  <1>4. CallsNumbered'
    BY <1>1, <1>3 DEF IInv, CallsNumbered, Weaker
  <1>5. SlotsOK'
    <2>1. Waiters' = Waiters /\ IsFiniteSet(running)' /\ SlotsConserved' /\ QueueApart'
      BY <1>1 DEF IInv, SlotsOK, SlotsConserved, QueueApart, Waiters, slots
    <2>2. \A d \in Clients : call'[d].op = "write" => call[d].op = "write" /\ call'[d].n = call[d].n
      BY <1>0, <1>1 DEF Weaker
    <2>3. TasksOwned'
      BY <2>1, <2>2, <1>1 DEF IInv, SlotsOK, TasksOwned, slots
    <2> QED
      BY <2>1, <2>3 DEF SlotsOK
  <1>6. MarkerExact'
    BY <1>1 DEF IInv, MarkerExact, Scanning, NewFormat, First
  <1>7. KilledSettled'
    BY <1>1, <1>3 DEF IInv, KilledSettled, Weaker, isCurrent, Scanning
  <1>8. GhostsExplained'
    <2> SUFFICES ASSUME NEW p \in Paths, row[p].live = "no" PROVE GhostsExplained!(p)!2'
      BY <1>1 DEF GhostsExplained
    <2>1. CASE (text[p] = NoChunks /\ image[p] = NoChunks) \/ "interrupted" \in gap[p]
      BY <2>1, <1>1
    <2>2. ASSUME NEW d \in Clients, call[d].op = "mv", call[d].at = "tail", call[d].path = p
          PROVE  GhostsExplained!(p)!2'
      <3>1. CASE d = c
        BY <2>2, <3>1, <1>1 DEF Touches
      <3>2. CASE d # c
        BY <2>2, <3>2, <1>1 DEF Weaker
      <3> QED
        BY <3>1, <3>2
    <2> QED
      BY <2>1, <2>2 DEF IInv, GhostsExplained
  <1> QED
    BY <1>2, <1>4, <1>5, <1>6, <1>7, <1>8 DEF IInv

LEMMA CrashKeeps == ASSUME IInv, Crash PROVE IInv'
  <1>0. /\ up' = "no" /\ call' = [c \in Clients |-> Idle] /\ mig' = Stopped
        /\ scan' = [at |-> "off", rows |-> {}, cursor |-> 0, doc |-> NoDoc, rerun |-> "no"]
        /\ permits' = Permits /\ queue' = <<>> /\ running' = {}
        /\ UNCHANGED <<conf, meta, obj, row, text, image, calls, fails>>
    BY DEF Crash
  <1>1. SlotsOK' /\ SlotTypes'
    <2>1. permits' = Permits /\ queue' = <<>> /\ running' = {}
      BY <1>0
    <2>2. Waiters' = {} /\ {t \in running' : t.by # "reindex"} = {}
      BY <2>1 DEF Waiters
    <2>3. Cardinality({t \in running' : t.by # "reindex"}) = 0 /\ IsFiniteSet(running')
      BY <2>1, <2>2, FS_EmptySet
    <2>4. SlotsConserved'
      BY <2>1, <2>3, BoundAssumption DEF SlotsConserved
    <2>5. QueueApart' /\ TasksOwned'
      BY <2>1, <2>2 DEF QueueApart, TasksOwned
    <2>6. SlotTypes'
      BY <2>1, BoundAssumption DEF SlotTypes
    <2> QED
      BY <2>3, <2>4, <2>5, <2>6 DEF SlotsOK
  <1>2. scan' \in ScanType /\ scan'.at = "off" /\ scan'.rows = {}
    BY <1>0, ConstantsTyped, BoundAssumption DEF ScanType
  <1>3. mig' \in MigType /\ mig'.at = "off" /\ mig'.rows = {}
    BY <1>0, ConstantsTyped DEF MigType, Stopped
  <1>4. call' \in [Clients -> Call] /\ \A c \in Clients : ~Active(c)'
    <2>1. Idle \in Call /\ Idle.op = "none"
      BY ConstantsTyped DEF Idle
    <2> QED
      BY <2>1, <1>0 DEF Active
  <1>5. /\ killed' \subseteq Snapshot
        /\ \A k \in killed' : k \in killed \/ (k = meta.marker /\ k.v <= calls)
    <2>1. CASE scan.at \in {"read", "embed"}
      <3>1. scan.rows # {} /\ meta.marker = First(scan) /\ scan \in ScanType
        BY <2>1 DEF IInv, MarkerExact, TypeOK, ScanType
      <3>2. First(scan) \in scan.rows /\ First(scan) \in Snapshot
        BY <3>1, NextRowTyped
      <3>3. killed' = killed \cup {meta.marker} /\ killed \subseteq Snapshot
        BY <2>1 DEF Crash, IInv, TypeOK
      <3>4. meta.marker.v <= calls
        BY <3>1, <3>2 DEF IInv, MarkerExact
      <3> QED
        BY <3>1, <3>2, <3>3, <3>4
    <2>2. CASE scan.at \notin {"read", "embed"}
      BY <2>2 DEF Crash, IInv, TypeOK
    <2> QED
      BY <2>1, <2>2
  <1>6. /\ gap' \in [Paths -> SUBSET Reasons]
        /\ \A p \in Paths : gap[p] \subseteq gap'[p] /\ ((\E c \in Clients : Touches(c, p)) => "interrupted" \in gap'[p])
    <2>1. gap' = [p \in Paths |-> IF \E c \in Clients : Touches(c, p) THEN gap[p] \cup {"interrupted"} ELSE gap[p]]
      BY DEF Crash
    <2>2. gap \in [Paths -> SUBSET Reasons] /\ "interrupted" \in Reasons
      BY DEF IInv, TypeOK, Reasons
    <2> QED
      BY <2>1, <2>2
  <1>7. crashes' \in Nat
    <2>1. crashes \in Nat /\ crashes' = crashes + 1
      BY DEF IInv, TypeOK, Crash
    <2> QED
      BY <2>1
  <1>8. TypeOK'
    BY <1>0, <1>1, <1>2, <1>3, <1>4, <1>5, <1>6, <1>7 DEF IInv, TypeOK, SlotTypes, MigType, ScanType
  <1>9. CallsNumbered'
    BY <1>0, <1>4 DEF IInv, CallsNumbered
  <1>10. MarkerExact'
    BY <1>0, <1>2, <1>3 DEF MarkerExact, Scanning
  <1>11. KilledSettled'
    <2> SUFFICES ASSUME NEW k \in killed' PROVE KilledSettled!(k)'
      BY DEF KilledSettled
    <2>1. meta'.marker = k \/ ~isCurrent(k.path, k.v)' \/ row'[k.path].image = "failed"
      BY <1>0, <1>5 DEF IInv, KilledSettled, isCurrent
    <2>2. k.v <= calls'
      BY <1>0, <1>5 DEF IInv, KilledSettled
    <2>3. ~Scanning'
      BY <1>2 DEF Scanning
    <2> QED
      BY <2>1, <2>2, <2>3, <1>4 DEF Scanning
  <1>12. GhostsExplained'
    <2> SUFFICES ASSUME NEW p \in Paths, row[p].live = "no"
                 PROVE  (text[p] = NoChunks /\ image[p] = NoChunks) \/ "interrupted" \in gap'[p]
      BY <1>0 DEF GhostsExplained
    <2>1. \A c \in Clients : call[c].op = "mv" /\ call[c].path = p => Touches(c, p)
      BY DEF Touches
    <2> QED
      BY <2>1, <1>6 DEF IInv, GhostsExplained
  <1> QED
    BY <1>1, <1>8, <1>9, <1>10, <1>11, <1>12 DEF IInv

LEMMA BootKeeps == ASSUME IInv, NEW s \in Settings, Boot(s) PROVE IInv'
  <1>0. /\ up = "no" /\ up' = "yes" /\ conf' = s /\ mig' = [Stopped EXCEPT !.at = "warmup"]
        /\ gap' = [p \in Paths |-> gap[p] \ Waits]
        /\ UNCHANGED <<meta, obj, row, text, image, call, slots, scan, killed, bounds>> /\ calls' = calls
    BY DEF Boot, bounds
  <1>1. mig = Stopped /\ scan.at = "off" /\ ~Scanning
    BY <1>0 DEF IInv, MarkerExact, Scanning
  <1>2. mig' \in MigType /\ mig'.at = "warmup"
    BY <1>0, ConstantsTyped DEF MigType, Stopped
  <1>3. SlotsOK' /\ SlotTypes'
    <2>1. mig.at = "off"
      BY <1>1 DEF Stopped
    <2> QED
      BY <2>1, <1>0, <1>1, SlotsStay
  <1>g. /\ gap' \in [Paths -> SUBSET Reasons]
        /\ \A p \in Paths : "interrupted" \in gap[p] => "interrupted" \in gap'[p]
    BY <1>0 DEF IInv, TypeOK, Waits
  <1>4. TypeOK'
    BY <1>0, <1>2, <1>3, <1>g DEF IInv, TypeOK, SlotTypes, MigType, bounds
  <1>5. MarkerExact'
    BY <1>0, <1>1, <1>2 DEF IInv, MarkerExact, Scanning
  <1>6. CallsNumbered'
    <2>1. \A c \in Clients : ~Active(c)
      BY <1>0 DEF IInv, CallsNumbered
    <2> QED
      BY <2>1, <1>0 DEF IInv, CallsNumbered, Active
  <1>7. KilledSettled'
    BY <1>0 DEF IInv, KilledSettled, Active, isCurrent, Scanning
  <1>8. GhostsExplained'
    BY <1>0, <1>g DEF IInv, GhostsExplained
  <1> QED
    BY <1>3, <1>4, <1>5, <1>6, <1>7, <1>8 DEF IInv

LEMMA InitHolds == ASSUME Init PROVE IInv
  <1>0. 0 \in Versions /\ 1 \in Versions /\ 1 \in Paths /\ 0 \in 0..Formats /\ 1 \in 0..Formats /\ 0 \in 0..N
    BY BoundAssumption DEF Versions, Paths
  <1>1. Seed \in Docs /\ NoDoc \in Docs /\ NoChunks \in Chunks /\ [id |-> 1, format |-> 1] \in Chunks
    BY <1>0, ConstantsTyped DEF Seed, Docs, Chunks
  <1>2. obj \in [Paths -> Docs] /\ text \in [Paths -> Chunks] /\ image \in [Paths -> Chunks]
    BY <1>1 DEF Init
  <1>3. /\ row \in [Paths -> Row]
        /\ \A p \in Paths : /\ row[p].v \in {0, 1}
                            /\ row[p].live = "no" => text[p] = NoChunks /\ image[p] = NoChunks
    <2>1. /\ [v |-> 1, live |-> "yes", doc |-> Seed, text |-> "indexed", image |-> "indexed"] \in Row
          /\ [v |-> 0, live |-> "no", doc |-> NoDoc, text |-> "pending", image |-> "null"] \in Row
      BY <1>0, <1>1 DEF Row, Status
    <2> QED
      BY <2>1 DEF Init
  <1>4. meta \in MetaType
    BY <1>0, ConstantsTyped DEF Init, MetaType
  <1>5. call \in [Clients -> Call] /\ \A c \in Clients : ~Active(c)
    <2>1. Idle \in Call /\ Idle.op = "none"
      BY ConstantsTyped DEF Idle
    <2> QED
      BY <2>1 DEF Active, Init
  <1>6. SlotsOK /\ SlotTypes
    BY NoTasks DEF Init
  <1>7. mig \in MigType /\ scan \in ScanType /\ scan.at = "off" /\ scan.rows = {} /\ mig.at = "off"
    BY <1>0, <1>1, ConstantsTyped DEF Init, MigType, ScanType, Stopped
  <1>8. calls = 1 /\ calls \in 1..MaxCalls /\ crashes \in Nat /\ fails \in Nat
    BY BoundAssumption DEF Init
  <1>9. gap \in [Paths -> SUBSET Reasons] /\ killed = {}
    BY DEF Init
  <1>10. TypeOK
    BY <1>2, <1>3, <1>4, <1>5, <1>6, <1>7, <1>8, <1>9 DEF Init, TypeOK, SlotTypes, MigType, ScanType, MetaType
  <1>11. CallsNumbered
    BY <1>3, <1>5, <1>8 DEF CallsNumbered
  <1>12. MarkerExact
    BY <1>7 DEF Init, MarkerExact, Scanning
  <1>13. KilledSettled /\ GhostsExplained
    BY <1>3, <1>9 DEF KilledSettled, GhostsExplained
  <1> QED
    BY <1>6, <1>10, <1>11, <1>12, <1>13 DEF IInv

LEMMA StutterKeeps == ASSUME IInv, UNCHANGED vars PROVE IInv'
  <1>1. TypeOK'
    BY DEF IInv, TypeOK, vars
  <1>2. SlotsOK'
    BY DEF IInv, SlotsOK, SlotsConserved, QueueApart, TasksOwned, Waiters, vars
  <1>3. CallsNumbered' /\ GhostsExplained'
    BY DEF IInv, CallsNumbered, Active, GhostsExplained, vars
  <1>4. MarkerExact' /\ KilledSettled'
    BY DEF IInv, MarkerExact, KilledSettled, Scanning, NewFormat, First, Active, isCurrent, vars
  <1> QED
    BY <1>1, <1>2, <1>3, <1>4 DEF IInv

LEMMA NextKeeps == ASSUME IInv, [Next]_vars PROVE IInv'
  <1>1. CASE Clientele
    <2> SUFFICES ASSUME NEW c \in Clients,
                        \/ \E p \in Paths : \/ \E k \in Kinds : putObject(c, p, k)
                                            \/ deleteObject(c, p)
                                            \/ \E q \in Paths : copyObject(c, p, q)
                        \/ createVersion(c) \/ indexForSearch(c) \/ rm(c)
                        \/ mvCommit(c) \/ mvDelete(c) \/ mvGone(c) \/ mvTail(c)
                        \/ reindex(c) \/ reindexDone(c) \/ \E r \in call[c].rows : reindexRead(c, r)
                 PROVE  IInv'
      BY <1>1 DEF Clientele
    <2> QED
      BY PutKeeps, DeleteKeeps, CopyKeeps, CreateVersionKeeps, IndexKeeps, RmKeeps, MvCommitKeeps, MvDeleteKeeps,
         MvGoneKeeps, MvTailKeeps, ReindexKeeps, ReindexDoneKeeps, ReindexReadKeeps
  <1>2. CASE Background
    BY <1>2, EmbeddedKeeps, WarmedUpKeeps, MigrationSelectKeeps, MigrationReadKeeps, MigrationExtractKeeps,
       AfterMigrationKeeps, ImageSlotKeeps, ImageSelectKeeps, ImageRowKeeps, EmbedImageFileKeeps DEF Background
  <1>3. CASE Faults
    BY <1>3, FailedKeeps, InitFailedKeeps, WarmupFailedKeeps, CallFailedKeeps, CrashKeeps DEF Faults
  <1>4. CASE \E s \in Settings : Boot(s)
    BY <1>4, BootKeeps
  <1>5. CASE UNCHANGED vars
    BY <1>5, StutterKeeps
  <1> QED
    BY <1>1, <1>2, <1>3, <1>4, <1>5 DEF Next

(* The jobs never leave the inductive invariant: calls have numbers of their  *)
(* own, tasks belong to the job that waits for them, the marker names the row *)
(* the image job is at, and interrupted images stay settled.                  *)
THEOREM InvariantHolds == Spec => []IInv
  <1>1. Init => IInv
    BY InitHolds
  <1>2. IInv /\ [Next]_vars => IInv'
    BY NextKeeps
  <1> QED
    BY <1>1, <1>2, PTL DEF Spec

(* The semaphore neither leaks a slot nor hands one out twice, and nobody     *)
(* waits while one is free (Semaphore), however writes, migration and image   *)
(* job interleave, fail and are cut off by crashes.                           *)
THEOREM SlotsAreConserved == Spec => []SlotsConserved
  <1>1. IInv => SlotsConserved
    BY DEF IInv, SlotsOK
  <1> QED
    BY <1>1, InvariantHolds, PTL

(* The image job never has in hand an image whose embedding killed the        *)
(* daemon and whose failure still stands (prepareImageEmbeddings): such an    *)
(* image cannot crash the daemon at every start.                              *)
THEOREM KilledNotRetried == Spec => []NoCrashLoop
  <1>1. ASSUME IInv PROVE NoCrashLoop
    <2> SUFFICES ASSUME scan.at \in {"read", "embed"} PROVE meta.marker \notin killed
      BY DEF NoCrashLoop
    <2>1. scan.rows # {} /\ meta.marker = First(scan) /\ scan \in ScanType /\ Scanning
      BY <1>1 DEF IInv, MarkerExact, TypeOK, ScanType, Scanning
    <2>2. meta.marker \in scan.rows
      BY <2>1, NextRowTyped
    <2> QED
      BY <1>1, <2>1, <2>2 DEF IInv, KilledSettled
  <1>2. IInv => NoCrashLoop
    BY <1>1
  <1> QED
    BY <1>2, InvariantHolds, PTL

(* A deleted file has no chunks once no call is at work on it: no write,      *)
(* migration, image or reindex task that finishes late brings them back, and  *)
(* only a crash or an error in the middle of a call can leave some behind.    *)
THEOREM NoGhosts == Spec => []NoGhostChunks
  <1>1. IInv => NoGhostChunks
    BY DEF IInv, GhostsExplained, NoGhostChunks, InFlight, Touches
  <1> QED
    BY <1>1, InvariantHolds, PTL
-----------------------------------------------------------------------------
(* What the steps do to one path, to one call and to the jobs. *)

Others(c) == \A d \in Clients \ {c} : call'[d] = call[d]
SameSlots == running' = running /\ queue' = queue
RowKept(p) == row'[p].v = row[p].v /\ row'[p].live = row[p].live /\ row'[p].doc = row[p].doc

LEMMA SameTasks == ASSUME SameSlots PROVE Tasks' = Tasks
  BY DEF SameSlots, Tasks, Waiters

LEMMA FirstSame == ASSUME NEW j1, NEW j2, j1.rows = j2.rows PROVE First(j1) = First(j2)
  BY DEF First

LEMMA JobsTyped ==
  ASSUME IInv
  PROVE  /\ mig \in MigType /\ scan \in ScanType /\ meta \in MetaType /\ conf \in ConfType
         /\ row \in [Paths -> Row] /\ call \in [Clients -> Call] /\ calls \in Nat
         /\ obj \in [Paths -> Docs] /\ text \in [Paths -> Chunks] /\ image \in [Paths -> Chunks]
         /\ gap \in [Paths -> SUBSET Reasons] /\ Tasks \subseteq Task /\ running \subseteq Task
  BY TasksInTask, ConfTyped DEF IInv, TypeOK, MigType, ScanType, MetaType

LEMMA CallTyped ==
  ASSUME IInv, NEW c \in Clients
  PROVE  /\ call[c] \in Call /\ call[c].path \in Paths /\ call[c].to \in Paths /\ call[c].n \in Versions
         /\ call[c].doc \in Docs /\ call[c].seen \in Versions /\ call[c].rows \subseteq Snapshot
         /\ call[c].gap \subseteq Reasons
         /\ call[c].op = "mv" => call[c].path # call[c].to
  BY DEF IInv, TypeOK, Call, CallsNumbered, Active

LEMMA PutDoes ==
  ASSUME IInv, NEW c \in Clients, NEW p \in Paths, NEW k \in Kinds, putObject(c, p, k)
  PROVE  /\ up = "yes" /\ call[c].op = "none" /\ calls' = calls + 1 /\ Others(c) /\ SameSlots
         /\ call'[c].op = "write" /\ call'[c].at = "commit" /\ call'[c].n = calls + 1 /\ call'[c].path = p
         /\ call'[c].rows = {} /\ call'[c].doc.id = calls + 1 /\ obj' = [obj EXCEPT ![p] = call'[c].doc]
         /\ UNCHANGED <<up, conf, meta, row, text, image, mig, scan, gap, killed>>
  BY JobsTyped DEF putObject, Begin, Idle, Others, SameSlots, slots

LEMMA DeleteDoes ==
  ASSUME IInv, NEW c \in Clients, NEW p \in Paths, deleteObject(c, p)
  PROVE  /\ up = "yes" /\ call[c].op = "none" /\ calls' = calls + 1 /\ Others(c) /\ SameSlots
         /\ call'[c].op = "rm" /\ call'[c].at = "commit" /\ call'[c].n = calls + 1 /\ call'[c].path = p
         /\ call'[c].rows = {} /\ obj' = [obj EXCEPT ![p] = NoDoc]
         /\ UNCHANGED <<up, conf, meta, row, text, image, mig, scan, gap, killed>>
  BY JobsTyped DEF deleteObject, Begin, Idle, Others, SameSlots, slots

LEMMA CopyDoes ==
  ASSUME IInv, NEW c \in Clients, NEW p \in Paths, NEW q \in Paths, copyObject(c, p, q)
  PROVE  /\ up = "yes" /\ call[c].op = "none" /\ calls' = calls + 1 /\ Others(c) /\ SameSlots
         /\ call'[c].op = "mv" /\ call'[c].at = "commit" /\ call'[c].n = calls + 1 /\ call'[c].path = p
         /\ call'[c].to = q /\ p # q /\ call'[c].rows = {} /\ obj[p] # NoDoc /\ obj' = [obj EXCEPT ![q] = obj[p]]
         /\ UNCHANGED <<up, conf, meta, row, text, image, mig, scan, gap, killed>>
  BY JobsTyped DEF copyObject, Begin, Idle, Others, SameSlots, slots

LEMMA ReindexDoes ==
  ASSUME IInv, NEW c \in Clients, reindex(c)
  PROVE  /\ up = "yes" /\ call[c].op = "none" /\ calls' = calls + 1 /\ Others(c) /\ SameSlots
         /\ call'[c].op = "reindex" /\ call'[c].n = calls + 1
         /\ \A r \in call'[c].rows : \E p \in Paths : r.path = p /\ r.v = row[p].v
         /\ scan' = scheduled(scan)
         /\ \A p \in Paths : /\ RowKept(p) /\ row'[p].text = row[p].text
                             /\ row'[p].image = row[p].image \/ row'[p].image = "pending"
         /\ UNCHANGED <<up, conf, meta, obj, text, image, mig, gap>>
  <1>1. /\ up = "yes" /\ call[c].op = "none" /\ calls' = calls + 1 /\ Others(c) /\ SameSlots
        /\ scan' = scheduled(scan) /\ UNCHANGED <<up, conf, meta, obj, text, image, mig, gap>>
    BY SMTT(40), JobsTyped DEF reindex, Begin, Others, SameSlots, slots
  <1>2. PICK todo \in SUBSET Paths, again \in SUBSET Paths :
           /\ call' = [call EXCEPT ![c] = [Idle EXCEPT !.op = "reindex", !.at = "read", !.n = calls + 1,
                                              !.rows = {[path |-> p, v |-> row[p].v] : p \in todo}]]
           /\ row' = [p \in Paths |-> IF p \in again THEN [row[p] EXCEPT !.image = "pending"] ELSE row[p]]
    BY ZenonT(60) DEF reindex, Begin
  <1>3. /\ call'[c].op = "reindex" /\ call'[c].n = calls + 1
        /\ call'[c].rows = {[path |-> p, v |-> row[p].v] : p \in todo}
    BY <1>2, JobsTyped DEF Idle
  <1>4. \A r \in call'[c].rows : \E p \in Paths : r.path = p /\ r.v = row[p].v
    BY <1>3
  <1>5. ASSUME NEW p \in Paths
        PROVE  /\ RowKept(p) /\ row'[p].text = row[p].text
               /\ row'[p].image = row[p].image \/ row'[p].image = "pending"
    <2>1. row[p] \in Row
      BY SMTT(40), JobsTyped
    <2> QED
      BY <1>2, <2>1 DEF Row, RowKept
  <1> QED
    BY <1>1, <1>3, <1>4, <1>5

LEMMA CreateVersionDoes ==
  ASSUME IInv, NEW c \in Clients, createVersion(c)
  PROVE  /\ call[c].op = "write" /\ call[c].at = "commit" /\ Others(c) /\ SameSlots
         /\ call'[c] = [call[c] EXCEPT !.at = "index"]
         /\ call'[c].op = "write" /\ call'[c].at = "index" /\ call'[c].n = call[c].n
         /\ call'[c].path = call[c].path /\ call'[c].doc = call[c].doc /\ call'[c].rows = call[c].rows
         /\ row'[call[c].path].v = call[c].n /\ row'[call[c].path].live = "yes"
         /\ row'[call[c].path].doc = call[c].doc
         /\ \A p \in Paths \ {call[c].path} : row'[p] = row[p]
         /\ UNCHANGED <<up, conf, meta, obj, text, image, mig, scan, gap, killed, calls>>
  <1>1. call[c] \in Call /\ call[c].path \in Paths /\ call[c].n \in Versions /\ call[c].doc \in Docs /\ TypeOK
    BY CallTyped DEF IInv
  <1>2. /\ call[c].op = "write" /\ call[c].at = "commit" /\ SameSlots /\ Advance(c, "index")
        /\ row' = [row EXCEPT ![call[c].path].v = call[c].n, ![call[c].path].live = "yes", ![call[c].path].doc = call[c].doc]
        /\ UNCHANGED <<up, conf, meta, obj, text, image, mig, scan, gap, killed, calls>>
    BY DEF createVersion, SameSlots, slots, bounds
  <1>3. Others(c) /\ call'[c] = [call[c] EXCEPT !.at = "index"]
    BY <1>1, <1>2, CallMoves DEF Others
  <1>4. PICK p \in Paths, a \in Versions, b \in {"no", "yes"}, d \in Docs :
           p = call[c].path /\ a = call[c].n /\ b = "yes" /\ d = call[c].doc
    BY <1>1
  <1>5. row' = [row EXCEPT ![p].v = a, ![p].live = b, ![p].doc = d]
    BY <1>2, <1>4
  <1>6. (\A q \in Paths \ {p} : row'[q] = row[q]) /\ row'[p].v = a /\ row'[p].live = b /\ row'[p].doc = d
    <2>1. row[p] \in Row /\ row \in [Paths -> Row]
      BY JobsTyped
    <2>2. row' = [row EXCEPT ![p] = [row[p] EXCEPT !.v = a, !.live = b, !.doc = d]]
      BY <1>5
    <2>3. row'[p] = [row[p] EXCEPT !.v = a, !.live = b, !.doc = d] /\ \A q \in Paths \ {p} : row'[q] = row[q]
      BY <2>1, <2>2
    <2> QED
      BY <2>1, <2>3 DEF Row
  <1> QED
    BY <1>1, <1>2, <1>3, <1>4, <1>6 DEF Call

(* A write settles its search data, if the file is still its own. *)
LEMMA IndexDoes ==
  ASSUME IInv, NEW c \in Clients, indexForSearch(c)
  PROVE  /\ call[c].op = "write" /\ call[c].at = "index" /\ Others(c) /\ call'[c] = Idle
         /\ UNCHANGED <<up, conf, meta, obj, mig, killed, calls>>
         /\ \/ /\ ~isCurrent(call[c].path, call[c].n) /\ SameSlots
               /\ UNCHANGED <<row, text, image, scan, gap>>
            \/ /\ isCurrent(call[c].path, call[c].n)
               /\ \A p \in Paths : RowKept(p)
               /\ \A p \in Paths \ {call[c].path} : row'[p] = row[p] /\ text'[p] = text[p] /\ image'[p] = image[p] /\ gap'[p] = gap[p]
               /\ row'[call[c].path].text \in {"pending", "null"} /\ row'[call[c].path].image \in {"pending", "null"}
               /\ image'[call[c].path] = NoChunks /\ gap'[call[c].path] = call[c].gap
               /\ row'[call[c].path].image = "pending" => scan' = scheduled(scan)
               /\ scan' = scan \/ scan' = scheduled(scan)
               /\ \/ row'[call[c].path].text = "null" /\ SameSlots
                  \/ Enter([by |-> "write", path |-> call[c].path, v |-> call[c].n, doc |-> call[c].doc])
  <1>0. call[c] \in Call /\ call[c].path \in Paths /\ TypeOK
    BY CallTyped DEF IInv
  <1>1. /\ call[c].op = "write" /\ call[c].at = "index" /\ Others(c) /\ call'[c] = Idle
        /\ UNCHANGED <<up, conf, meta, obj, mig, killed, calls>>
    BY <1>0, CallReturns DEF indexForSearch, Others, bounds
  <1>2. CASE ~StillOwner(c)
    BY <1>1, <1>2 DEF indexForSearch, StillOwner, SameSlots, slots
  <1>3. CASE StillOwner(c)
    <2>1. PICK p \in Paths, s \in Status, i \in Status \ {"skipped"} :
             /\ p = call[c].path /\ s = (IF HasText(call[c].doc) THEN "pending" ELSE "null")
             /\ i = (IF imageEligible(call[c].doc) THEN "pending" ELSE "null")
      BY <1>0 DEF Status
    <2>2. /\ row' = [row EXCEPT ![p].text = s, ![p].image = i]
          /\ image' = [image EXCEPT ![p] = NoChunks] /\ gap' = [gap EXCEPT ![p] = call[c].gap]
          /\ scan' = IF imageEligible(call[c].doc) THEN scheduled(scan) ELSE scan
          /\ IF HasText(call[c].doc)
             THEN text' = text /\ Enter([by |-> "write", path |-> p, v |-> row[p].v, doc |-> call[c].doc])
             ELSE text' = [text EXCEPT ![p] = NoChunks] /\ UNCHANGED slots
      BY <1>3, <2>1 DEF indexForSearch
    <2>3. /\ \A q \in Paths \ {p} : row'[q] = row[q]
          /\ row'[p].v = row[p].v /\ row'[p].live = row[p].live /\ row'[p].doc = row[p].doc
          /\ row'[p].text = s /\ row'[p].image = i
      BY <2>2, JobsTyped, RowStatuses
    <2>4. row[p].v = call[c].n /\ isCurrent(p, call[c].n)
      BY <1>3, <2>1 DEF StillOwner, isCurrent
    <2>5. /\ \A q \in Paths \ {p} : text'[q] = text[q] /\ image'[q] = image[q] /\ gap'[q] = gap[q]
          /\ image'[p] = NoChunks /\ gap'[p] = call[c].gap
      BY <2>2, JobsTyped
    <2>6. \A q \in Paths : RowKept(q)
      BY <2>3 DEF RowKept
    <2>7. \/ row'[p].text = "null" /\ SameSlots
          \/ Enter([by |-> "write", path |-> p, v |-> call[c].n, doc |-> call[c].doc])
      BY <2>1, <2>2, <2>3, <2>4 DEF SameSlots, slots
    <2>8. (row'[p].image = "pending" => scan' = scheduled(scan)) /\ (scan' = scan \/ scan' = scheduled(scan))
      BY <2>1, <2>2, <2>3
    <2>9. s \in {"pending", "null"} /\ i \in {"pending", "null"}
      BY <2>1
    <2> QED
      BY <1>1, <2>1, <2>3, <2>4, <2>5, <2>6, <2>7, <2>8, <2>9
  <1> QED
    BY <1>2, <1>3

LEMMA RmDoes ==
  ASSUME IInv, NEW c \in Clients, rm(c)
  PROVE  /\ call[c].op = "rm" /\ call[c].at = "commit" /\ Others(c) /\ call'[c] = Idle /\ SameSlots
         /\ row'[call[c].path].v = call[c].n /\ row'[call[c].path].live = "no" /\ row'[call[c].path].doc = NoDoc
         /\ row'[call[c].path].text = "null" /\ row'[call[c].path].image = "null"
         /\ text'[call[c].path] = NoChunks /\ image'[call[c].path] = NoChunks /\ gap'[call[c].path] = {}
         /\ \A p \in Paths \ {call[c].path} : row'[p] = row[p] /\ text'[p] = text[p] /\ image'[p] = image[p] /\ gap'[p] = gap[p]
         /\ UNCHANGED <<up, conf, meta, obj, mig, scan, killed, calls>>
  <1>0. call[c] \in Call /\ call[c].path \in Paths /\ TypeOK
    BY CallTyped DEF IInv
  <1>1. /\ call[c].op = "rm" /\ call[c].at = "commit" /\ Others(c) /\ call'[c] = Idle /\ SameSlots
        /\ UNCHANGED <<up, conf, meta, obj, mig, scan, killed, calls>>
    BY <1>0, CallReturns DEF rm, Others, bounds, SameSlots, slots
  <1>2. PICK p \in Paths, a \in Versions : p = call[c].path /\ a = call[c].n
    BY <1>0, CallTyped
  <1>3. /\ row' = [row EXCEPT ![p].v = a, ![p].live = "no", ![p].doc = NoDoc, ![p].text = "null", ![p].image = "null"]
        /\ text' = [text EXCEPT ![p] = NoChunks]
        /\ image' = [image EXCEPT ![p] = NoChunks]
        /\ gap' = [gap EXCEPT ![p] = {}]
    BY <1>2 DEF rm
  <1>4. row[p] \in Row /\ row \in [Paths -> Row]
    BY JobsTyped
  <1>5. row' = [row EXCEPT ![p] = [row[p] EXCEPT !.v = a, !.live = "no", !.doc = NoDoc, !.text = "null", !.image = "null"]]
    BY <1>3
  <1>6. /\ row'[p] = [row[p] EXCEPT !.v = a, !.live = "no", !.doc = NoDoc, !.text = "null", !.image = "null"]
        /\ \A q \in Paths \ {p} : row'[q] = row[q]
    BY <1>4, <1>5
  <1>7. row'[p].v = a /\ row'[p].live = "no" /\ row'[p].doc = NoDoc /\ row'[p].text = "null" /\ row'[p].image = "null"
    BY <1>4, <1>6 DEF Row
  <1>8. /\ text'[p] = NoChunks /\ image'[p] = NoChunks /\ gap'[p] = {}
        /\ \A q \in Paths \ {p} : text'[q] = text[q] /\ image'[q] = image[q] /\ gap'[q] = gap[q]
    BY <1>3, JobsTyped
  <1> QED
    BY SMTT(40), <1>1, <1>2, <1>6, <1>7, <1>8

(* A move commits its destination, or gives up because the copy is gone. *)
LEMMA MvCommitDoes ==
  ASSUME IInv, NEW c \in Clients, mvCommit(c)
  PROVE  /\ call[c].op = "mv" /\ call[c].at = "commit" /\ Others(c) /\ SameSlots
         /\ UNCHANGED <<up, conf, meta, obj, text, image, mig, scan, gap, killed, calls>>
         /\ \/ obj[call[c].to] = NoDoc /\ call'[c] = Idle /\ row' = row
            \/ /\ obj[call[c].to] # NoDoc
               /\ row'[call[c].to].v = call[c].n /\ row'[call[c].to].live = "yes" /\ row'[call[c].to].doc = obj[call[c].to]
               /\ \A p \in Paths \ {call[c].to} : row'[p] = row[p]
               /\ call'[c].op = "mv" /\ call'[c].at = "delete" /\ call'[c].n = call[c].n
               /\ call'[c].path = call[c].path /\ call'[c].to = call[c].to /\ call'[c].doc = obj[call[c].to]
               /\ call'[c].text = row[call[c].path].text /\ call'[c].image = row[call[c].path].image
               /\ call'[c].seen = row[call[c].path].v /\ call'[c].format = meta.format /\ call'[c].rows = call[c].rows
               /\ call[c].gap \subseteq call'[c].gap
               /\ "source changed" \notin call'[c].gap => ~Overlapped(c) /\ obj[call[c].path] = obj[call[c].to]
  <1>0. call[c] \in Call /\ call[c].to \in Paths /\ call[c].path \in Paths /\ TypeOK
    BY SMTT(40), CallTyped DEF IInv
  <1>1. /\ call[c].op = "mv" /\ call[c].at = "commit" /\ SameSlots
        /\ UNCHANGED <<up, conf, meta, obj, text, image, mig, scan, gap, killed, calls>>
    BY ZenonT(60) DEF mvCommit, bounds, SameSlots, slots
  <1>2. CASE obj[call[c].to] = NoDoc
    <2>1. Return(c) /\ row' = row
      BY <1>2 DEF mvCommit
    <2> QED
      BY <1>0, <1>1, <1>2, <2>1, CallReturns DEF Others
  <1>3. CASE obj[call[c].to] # NoDoc
    <2>1. PICK g : g = call[c].gap \cup IF Overlapped(c) \/ obj[call[c].path] # obj[call[c].to] THEN {"source changed"} ELSE {}
      OBVIOUS
    <2>2. call' = [call EXCEPT ![c].at = "delete", ![c].doc = obj[call[c].to], ![c].text = row[call[c].path].text,
                               ![c].image = row[call[c].path].image, ![c].seen = row[call[c].path].v,
                               ![c].format = meta.format, ![c].gap = g]
      <3>1. call' = [call EXCEPT ![c].at = "delete", ![c].doc = obj[call[c].to], ![c].text = row[call[c].path].text,
                                 ![c].image = row[call[c].path].image, ![c].seen = row[call[c].path].v,
                                 ![c].format = meta.format,
                                 ![c].gap = @ \cup IF Overlapped(c) \/ obj[call[c].path] # obj[call[c].to]
                                                    THEN {"source changed"} ELSE {}]
        BY ZenonT(60), <1>3 DEF mvCommit
      <3> QED
        BY ZenonT(60), <3>1, <2>1
    <2>3. call \in [Clients -> Call]
      BY JobsTyped
    <2>4. call' = [call EXCEPT ![c] = [call[c] EXCEPT !.at = "delete", !.doc = obj[call[c].to], !.text = row[call[c].path].text,
                               !.image = row[call[c].path].image, !.seen = row[call[c].path].v,
                               !.format = meta.format, !.gap = g]]
      BY <2>2, <2>3
    <2>5. /\ call'[c] = [call[c] EXCEPT !.at = "delete", !.doc = obj[call[c].to], !.text = row[call[c].path].text,
                               !.image = row[call[c].path].image, !.seen = row[call[c].path].v,
                               !.format = meta.format, !.gap = g]
          /\ \A d \in Clients \ {c} : call'[d] = call[d]
      BY <2>3, <2>4
    <2>6. /\ call'[c].op = call[c].op /\ call'[c].at = "delete" /\ call'[c].n = call[c].n
          /\ call'[c].path = call[c].path /\ call'[c].to = call[c].to /\ call'[c].doc = obj[call[c].to]
          /\ call'[c].text = row[call[c].path].text /\ call'[c].image = row[call[c].path].image
          /\ call'[c].seen = row[call[c].path].v /\ call'[c].format = meta.format /\ call'[c].rows = call[c].rows
          /\ call'[c].gap = g
      BY <2>5, <1>0 DEF Call
    <2>7. PICK p \in Paths, a \in Versions, d \in Docs : p = call[c].to /\ a = call[c].n /\ d = obj[call[c].to]
      BY SMTT(40), <1>0, CallTyped, JobsTyped
    <2>8. row' = [row EXCEPT ![p].v = a, ![p].live = "yes", ![p].doc = d]
      BY ZenonT(60), <1>3, <2>7 DEF mvCommit
    <2>9. row[p] \in Row /\ row \in [Paths -> Row]
      BY JobsTyped
    <2>10. row' = [row EXCEPT ![p] = [row[p] EXCEPT !.v = a, !.live = "yes", !.doc = d]]
      BY <2>8
    <2>11. row'[p] = [row[p] EXCEPT !.v = a, !.live = "yes", !.doc = d] /\ \A q \in Paths \ {p} : row'[q] = row[q]
      BY <2>9, <2>10
    <2>12. row'[p].v = a /\ row'[p].live = "yes" /\ row'[p].doc = d
      BY <2>9, <2>11 DEF Row
    <2>13. "source changed" \notin g => ~Overlapped(c) /\ obj[call[c].path] = obj[call[c].to]
      BY <2>1
    <2>14. call[c].gap \subseteq g
      BY <2>1
    <2> QED
      BY ZenonT(60), <1>1, <1>3, <2>5, <2>6, <2>7, <2>11, <2>12, <2>13, <2>14 DEF Others
  <1> QED
    BY <1>2, <1>3

LEMMA MvDeleteDoes ==
  ASSUME IInv, NEW c \in Clients, mvDelete(c)
  PROVE  /\ call[c].op = "mv" /\ call[c].at = "delete" /\ Others(c) /\ SameSlots
         /\ call'[c].op = "mv" /\ call'[c].at = "gone" /\ call'[c].n = call[c].n
         /\ call'[c].path = call[c].path /\ call'[c].to = call[c].to /\ call'[c].doc = call[c].doc
         /\ call'[c].text = call[c].text /\ call'[c].image = call[c].image
         /\ call'[c].seen = call[c].seen /\ call'[c].format = call[c].format /\ call'[c].rows = call[c].rows
         /\ call[c].gap \subseteq call'[c].gap
         /\ "source changed" \notin call'[c].gap => "source changed" \notin call[c].gap /\ ~Overlapped(c)
         /\ obj' = [obj EXCEPT ![call[c].path] = NoDoc]
         /\ UNCHANGED <<up, conf, meta, row, text, image, mig, scan, gap, killed, calls>>
  <1>0. call[c] \in Call /\ call \in [Clients -> Call]
    BY CallTyped, JobsTyped
  <1>1. PICK g : g = call[c].gap \cup IF Overlapped(c) THEN {"source changed"} ELSE {}
    OBVIOUS
  <1>2. call' = [call EXCEPT ![c].at = "gone", ![c].gap = g]
    BY <1>0, <1>1 DEF mvDelete
  <1>3. call' = [call EXCEPT ![c] = [call[c] EXCEPT !.at = "gone", !.gap = g]]
    BY <1>0, <1>2
  <1>4. call'[c] = [call[c] EXCEPT !.at = "gone", !.gap = g] /\ \A d \in Clients \ {c} : call'[d] = call[d]
    BY <1>0, <1>3
  <1>5. "source changed" \notin g => "source changed" \notin call[c].gap /\ ~Overlapped(c)
    BY <1>1
  <1>6. /\ call[c].op = "mv" /\ call[c].at = "delete" /\ SameSlots
        /\ obj' = [obj EXCEPT ![call[c].path] = NoDoc]
        /\ UNCHANGED <<up, conf, meta, row, text, image, mig, scan, gap, killed, calls>>
    BY DEF mvDelete, SameSlots, slots, bounds
  <1>7. call[c].gap \subseteq g
    BY <1>1
  <1>8. /\ call'[c].op = call[c].op /\ call'[c].at = "gone" /\ call'[c].n = call[c].n
        /\ call'[c].path = call[c].path /\ call'[c].to = call[c].to /\ call'[c].doc = call[c].doc
        /\ call'[c].text = call[c].text /\ call'[c].image = call[c].image
        /\ call'[c].seen = call[c].seen /\ call'[c].format = call[c].format /\ call'[c].rows = call[c].rows
        /\ call'[c].gap = g
    BY <1>0, <1>4 DEF Call
  <1> QED
    BY ZenonT(60), <1>4, <1>5, <1>6, <1>7, <1>8 DEF Others

LEMMA MvGoneDoes ==
  ASSUME IInv, NEW c \in Clients, mvGone(c)
  PROVE  /\ call[c].op = "mv" /\ call[c].at = "gone" /\ Others(c) /\ SameSlots
         /\ call'[c].op = "mv" /\ call'[c].at = "tail" /\ call'[c].n = call[c].n
         /\ call'[c].path = call[c].path /\ call'[c].to = call[c].to /\ call'[c].doc = call[c].doc
         /\ call'[c].text = call[c].text /\ call'[c].image = call[c].image
         /\ call'[c].seen = call[c].seen /\ call'[c].format = call[c].format /\ call'[c].rows = call[c].rows
         /\ call[c].gap \subseteq call'[c].gap /\ gap[call[c].path] \subseteq call'[c].gap
         /\ "source changed" \notin call'[c].gap => ~SourceChanged(call[c]) /\ ~Overlapped(c)
         /\ row'[call[c].path].v = call[c].n /\ row'[call[c].path].live = "no" /\ row'[call[c].path].doc = NoDoc
         /\ \A p \in Paths \ {call[c].path} : row'[p] = row[p] /\ gap'[p] = gap[p]
         /\ UNCHANGED <<up, conf, meta, obj, text, image, mig, scan, killed, calls>>
  <1>0. call[c] \in Call /\ call \in [Clients -> Call] /\ call[c].path \in Paths
    BY CallTyped, JobsTyped
  <1>1. PICK g : g = call[c].gap \cup gap[call[c].path] \cup IF SourceChanged(call[c]) \/ Overlapped(c) THEN {"source changed"} ELSE {}
    OBVIOUS
  <1>2. call' = [call EXCEPT ![c].at = "tail", ![c].gap = g]
    BY <1>0, <1>1 DEF mvGone
  <1>3. call' = [call EXCEPT ![c] = [call[c] EXCEPT !.at = "tail", !.gap = g]]
    BY <1>0, <1>2
  <1>4. call'[c] = [call[c] EXCEPT !.at = "tail", !.gap = g] /\ \A d \in Clients \ {c} : call'[d] = call[d]
    BY <1>0, <1>3
  <1>5. /\ "source changed" \notin g => ~SourceChanged(call[c]) /\ ~Overlapped(c)
        /\ call[c].gap \subseteq g /\ gap[call[c].path] \subseteq g
    BY <1>1
  <1>6. /\ call[c].op = "mv" /\ call[c].at = "gone" /\ SameSlots
        /\ UNCHANGED <<up, conf, meta, obj, text, image, mig, scan, killed, calls>>
    BY DEF mvGone, SameSlots, slots, bounds
  <1>7. PICK p \in Paths, a \in Versions : p = call[c].path /\ a = call[c].n
    BY <1>0, CallTyped
  <1>8. row' = [row EXCEPT ![p].v = a, ![p].live = "no", ![p].doc = NoDoc] /\ gap' = [gap EXCEPT ![p] = {}]
    BY <1>7 DEF mvGone
  <1>9. row[p] \in Row /\ row \in [Paths -> Row]
    BY JobsTyped
  <1>10. row' = [row EXCEPT ![p] = [row[p] EXCEPT !.v = a, !.live = "no", !.doc = NoDoc]]
    BY <1>8
  <1>11. row'[p] = [row[p] EXCEPT !.v = a, !.live = "no", !.doc = NoDoc] /\ \A q \in Paths \ {p} : row'[q] = row[q]
    BY <1>9, <1>10
  <1>12. row'[p].v = a /\ row'[p].live = "no" /\ row'[p].doc = NoDoc
    BY <1>9, <1>11 DEF Row
  <1>13. \A q \in Paths \ {p} : gap'[q] = gap[q]
    BY <1>8, JobsTyped
  <1>14. /\ call'[c].op = call[c].op /\ call'[c].at = "tail" /\ call'[c].n = call[c].n
         /\ call'[c].path = call[c].path /\ call'[c].to = call[c].to /\ call'[c].doc = call[c].doc
         /\ call'[c].text = call[c].text /\ call'[c].image = call[c].image
         /\ call'[c].seen = call[c].seen /\ call'[c].format = call[c].format /\ call'[c].rows = call[c].rows
         /\ call'[c].gap = g
    BY <1>0, <1>4 DEF Call
  <1> QED
    BY <1>4, <1>5, <1>6, <1>7, <1>11, <1>12, <1>13, <1>14 DEF Others

(* A move takes its source's search data along, or drops it. *)
MvTailEffect(c, p, q) ==
  /\ call[c].op = "mv" /\ call[c].at = "tail" /\ Others(c) /\ call'[c] = Idle /\ SameSlots /\ p # q
  /\ UNCHANGED <<up, conf, meta, obj, mig, killed, calls>>
  /\ \A r \in Paths : RowKept(r)
  /\ \A r \in Paths \ {p, q} : row'[r] = row[r] /\ text'[r] = text[r] /\ image'[r] = image[r] /\ gap'[r] = gap[r]
  /\ text'[p] = NoChunks /\ image'[p] = NoChunks
  /\ gap[p] \subseteq gap'[p] /\ (Rewritten(call[c]) => "source rewritten" \in gap'[p])
  /\ row'[p].text \in {row[p].text, "null"} /\ row'[p].image \in {row[p].image, "null"}
  /\ scan' = scan \/ scan' = scheduled(scan)
  /\ \/ /\ TargetUnchanged(call[c])
        /\ row'[q].text = "null" \/ (row'[q].text = call[c].text /\ text'[q] = text[p])
        /\ image'[q] \in {NoChunks, image[p]}
        /\ \/ row'[q].image = "null"
           \/ /\ row'[q].image = call[c].image /\ image'[q] = image[p] /\ conf.excluded = "no"
              /\ call[c].image = "pending" => scan' = scheduled(scan)
        /\ call[c].gap \subseteq gap'[q]
        /\ Rewritten(call[c]) => "source rewritten" \in gap'[q]
        /\ call[c].text = "pending" => "status carried" \in gap'[q]
        /\ call[c].format # meta.format => "format changed" \in gap'[q]
     \/ /\ ~TargetUnchanged(call[c])
        /\ row'[q] = row[q] /\ text'[q] = text[q] /\ image'[q] = image[q] /\ gap'[q] = gap[q]

LEMMA MvTailDoes ==
  ASSUME IInv, NEW c \in Clients, mvTail(c), NEW p \in Paths, NEW q \in Paths, p = call[c].path, q = call[c].to
  PROVE  MvTailEffect(c, p, q)
  <1>0. call[c] \in Call /\ TypeOK /\ (call[c].op = "mv" => p # q)
    BY CallTyped DEF IInv
  <1>1. /\ call[c].op = "mv" /\ call[c].at = "tail" /\ Others(c) /\ call'[c] = Idle /\ SameSlots
        /\ UNCHANGED <<up, conf, meta, obj, mig, killed, calls>>
    BY ZenonT(60), <1>0, CallReturns DEF mvTail, Others, bounds, SameSlots, slots
  <1>2. p # q /\ row \in [Paths -> Row] /\ row[p] \in Row /\ row[q] \in Row
    BY <1>0, <1>1, JobsTyped
  <1>3. PICK l : l = IF Rewritten(call[c]) THEN {"source rewritten"} ELSE {}
    OBVIOUS
  <1>4. CASE TargetUnchanged(call[c])
    <2>1. PICK kI, kT, tt, ti, pi, pt, g :
             /\ kI = imageEligible(call[c].doc) /\ kT = (HasText(call[c].doc) \/ kI)
             /\ tt = (IF kT THEN call[c].text ELSE "null") /\ ti = (IF kI THEN call[c].image ELSE "null")
             /\ pi = (IF kI THEN row[p].image ELSE "null") /\ pt = (IF kT THEN row[p].text ELSE "null")
             /\ g = call[c].gap \cup l \cup (IF call[c].text = "pending" THEN {"status carried"} ELSE {})
                                \cup (IF call[c].format # meta.format THEN {"format changed"} ELSE {})
      BY ZenonT(60)
    <2>2. /\ text' = [text EXCEPT ![p] = NoChunks, ![q] = IF kT THEN text[p] ELSE NoChunks]
          /\ image' = [image EXCEPT ![p] = NoChunks, ![q] = IF kI THEN image[p] ELSE NoChunks]
          /\ scan' = IF kI /\ call[c].image = "pending" THEN scheduled(scan) ELSE scan
          /\ gap' = [gap EXCEPT ![p] = @ \cup l, ![q] = g]
      BY ZenonT(60), <1>3, <1>4, <2>1 DEF mvTail
    <2>3. row' = [row EXCEPT ![q].text = tt, ![q].image = ti, ![p].image = pi, ![p].text = pt]
      <3>1. row' = [row EXCEPT ![call[c].to].text = IF kT THEN call[c].text ELSE "null",
                               ![call[c].to].image = IF kI THEN call[c].image ELSE "null",
                               ![call[c].path].image = IF kI THEN @ ELSE "null",
                               ![call[c].path].text = IF kT THEN @ ELSE "null"]
        BY ZenonT(60), <1>4, <2>1 DEF mvTail
      <3>2. row' = [row EXCEPT ![q].text = tt, ![q].image = ti, ![p].image = IF kI THEN @ ELSE "null", ![p].text = IF kT THEN @ ELSE "null"]
        BY ZenonT(60), <3>1, <2>1
      <3>3. CASE kI
        BY ZenonT(60), <3>2, <3>3, <1>2, <2>1
      <3>4. CASE ~kI
        BY <3>2, <3>4, <1>2, <2>1
      <3> QED
        BY Zenon, <3>3, <3>4
    <2>4. row' = [row EXCEPT ![q] = [row[q] EXCEPT !.text = tt, !.image = ti], ![p] = [row[p] EXCEPT !.image = pi, !.text = pt]]
      BY <2>3, <1>2
    <2>5. /\ row'[q] = [row[q] EXCEPT !.text = tt, !.image = ti] /\ row'[p] = [row[p] EXCEPT !.image = pi, !.text = pt]
          /\ \A r \in Paths \ {p, q} : row'[r] = row[r]
      BY <2>4, <1>2
    <2>6. /\ row'[q].text = tt /\ row'[q].image = ti /\ row'[p].text = pt /\ row'[p].image = pi
          /\ \A r \in Paths : RowKept(r)
      <3>1. row'[q].text = tt /\ row'[q].image = ti /\ RowKept(q)
        BY <2>5, <1>2 DEF Row, RowKept
      <3>2. row'[p].text = pt /\ row'[p].image = pi /\ RowKept(p)
        BY <2>5, <1>2 DEF Row, RowKept
      <3>3. \A r \in Paths \ {p, q} : RowKept(r)
        BY <2>5 DEF RowKept
      <3> QED
        BY <3>1, <3>2, <3>3
    <2>7. /\ \A r \in Paths \ {p, q} : text'[r] = text[r] /\ image'[r] = image[r] /\ gap'[r] = gap[r]
          /\ text'[p] = NoChunks /\ image'[p] = NoChunks /\ gap'[p] = gap[p] \cup l /\ gap'[q] = g
          /\ text'[q] = (IF kT THEN text[p] ELSE NoChunks) /\ image'[q] = (IF kI THEN image[p] ELSE NoChunks)
      BY <2>2, <1>2, JobsTyped
    <2>8. row'[q].text = "null" \/ (row'[q].text = call[c].text /\ text'[q] = text[p])
      BY <2>1, <2>6, <2>7
    <2>9. /\ image'[q] \in {NoChunks, image[p]}
          /\ \/ row'[q].image = "null"
             \/ /\ row'[q].image = call[c].image /\ image'[q] = image[p] /\ conf.excluded = "no"
                /\ call[c].image = "pending" => scan' = scheduled(scan)
      BY <2>1, <2>2, <2>6, <2>7 DEF imageEligible
    <2>10. /\ call[c].gap \subseteq gap'[q]
           /\ Rewritten(call[c]) => "source rewritten" \in gap'[q]
           /\ call[c].text = "pending" => "status carried" \in gap'[q]
           /\ call[c].format # meta.format => "format changed" \in gap'[q]
           /\ gap[p] \subseteq gap'[p] /\ (Rewritten(call[c]) => "source rewritten" \in gap'[p])
      BY <2>1, <2>7, <1>3
    <2>11. row'[p].text \in {row[p].text, "null"} /\ row'[p].image \in {row[p].image, "null"}
      BY <2>1, <2>6
    <2>12. scan' = scan \/ scan' = scheduled(scan)
      BY <2>2
    <2> QED
      BY <1>1, <1>2, <1>4, <2>5, <2>6, <2>7, <2>8, <2>9, <2>10, <2>11, <2>12 DEF MvTailEffect
  <1>5. CASE ~TargetUnchanged(call[c])
    <2>1. /\ text' = [text EXCEPT ![p] = NoChunks] /\ image' = [image EXCEPT ![p] = NoChunks]
          /\ row' = [row EXCEPT ![p].text = "null", ![p].image = "null"]
          /\ gap' = [gap EXCEPT ![p] = @ \cup l] /\ scan' = scan
      BY ZenonT(60), <1>3, <1>5 DEF mvTail
    <2>2. row' = [row EXCEPT ![p] = [row[p] EXCEPT !.text = "null", !.image = "null"]]
      BY <2>1, <1>2
    <2>3. row'[p] = [row[p] EXCEPT !.text = "null", !.image = "null"] /\ \A r \in Paths \ {p} : row'[r] = row[r]
      BY <2>2, <1>2
    <2>4. row'[p].text = "null" /\ row'[p].image = "null" /\ \A r \in Paths : RowKept(r)
      BY ZenonT(60), <2>3, <1>2 DEF Row, RowKept
    <2>5. /\ \A r \in Paths \ {p} : text'[r] = text[r] /\ image'[r] = image[r] /\ gap'[r] = gap[r]
          /\ text'[p] = NoChunks /\ image'[p] = NoChunks /\ gap'[p] = gap[p] \cup l
      BY <2>1, JobsTyped
    <2>6. gap[p] \subseteq gap'[p] /\ (Rewritten(call[c]) => "source rewritten" \in gap'[p])
      BY <2>5, <1>3
    <2>7. /\ row'[q] = row[q] /\ text'[q] = text[q] /\ image'[q] = image[q] /\ gap'[q] = gap[q]
          /\ \A r \in Paths \ {p, q} : row'[r] = row[r] /\ text'[r] = text[r] /\ image'[r] = image[r] /\ gap'[r] = gap[r]
      BY <1>2, <2>3, <2>5
    <2>8. row'[p].text \in {row[p].text, "null"} /\ row'[p].image \in {row[p].image, "null"}
      BY <2>4
    <2>9. scan' = scan
      BY <2>1
    <2> QED
      BY ZenonT(60), <1>1, <1>2, <1>5, <2>4, <2>5, <2>6, <2>7, <2>8, <2>9 DEF MvTailEffect
  <1> QED
    BY <1>4, <1>5

LEMMA ReindexReadDoes ==
  ASSUME IInv, NEW c \in Clients, NEW r \in call[c].rows, reindexRead(c, r)
  PROVE  /\ call[c].op = "reindex" /\ call'[c].op = "reindex" /\ call'[c].n = call[c].n /\ Others(c)
         /\ call'[c].rows \subseteq call[c].rows /\ r \in Snapshot
         /\ \/ Tasks' = Tasks
            \/ /\ obj[r.path] # NoDoc
               /\ Tasks' = Tasks \cup {[by |-> "reindex", path |-> r.path, v |-> r.v, doc |-> obj[r.path]]}
         /\ UNCHANGED <<up, conf, meta, obj, row, text, image, mig, scan, gap, killed, calls>>
  <1>0. call[c] \in Call /\ call \in [Clients -> Call] /\ r \in Snapshot
    BY CallTyped, JobsTyped
  <1>1. /\ call[c].op = "reindex" /\ call' = [call EXCEPT ![c] = [call[c] EXCEPT !.rows = call[c].rows \ {r}]]
        /\ UNCHANGED <<up, conf, meta, obj, row, text, image, queue, mig, scan, gap, killed, calls>>
        /\ running' = IF obj[r.path] = NoDoc THEN running
                      ELSE running \cup {[by |-> "reindex", path |-> r.path, v |-> r.v, doc |-> obj[r.path]]}
    BY <1>0 DEF reindexRead, bounds
  <1>2. call'[c] = [call[c] EXCEPT !.rows = call[c].rows \ {r}] /\ Others(c)
    BY <1>0, <1>1 DEF Others
  <1>3. call'[c].op = call[c].op /\ call'[c].n = call[c].n /\ call'[c].rows \subseteq call[c].rows
    BY <1>0, <1>2 DEF Call
  <1>4. Waiters' = Waiters
    BY <1>1 DEF Waiters
  <1>5. \/ Tasks' = Tasks
        \/ /\ obj[r.path] # NoDoc
           /\ Tasks' = Tasks \cup {[by |-> "reindex", path |-> r.path, v |-> r.v, doc |-> obj[r.path]]}
    BY <1>1, <1>4 DEF Tasks
  <1> QED
    BY <1>0, <1>1, <1>2, <1>3, <1>5

LEMMA ReindexDoneDoes ==
  ASSUME IInv, NEW c \in Clients, reindexDone(c)
  PROVE  /\ call[c].op = "reindex" /\ call'[c] = Idle /\ Others(c) /\ SameSlots
         /\ UNCHANGED <<up, conf, meta, obj, row, text, image, mig, scan, gap, killed, calls>>
  BY CallReturns DEF reindexDone, Others, IInv, SameSlots, slots, bounds

Backstage == UNCHANGED <<up, conf, obj, call, calls>> /\ \A p \in Paths : RowKept(p)

LEMMA WithTextDoes ==
  ASSUME IInv, NEW p \in Paths, NEW s, row' = WithText(p, s)
  PROVE  /\ \A q \in Paths : RowKept(q) /\ row'[q].image = row[q].image
         /\ row'[p].text = s /\ \A q \in Paths \ {p} : row'[q] = row[q]
  <1>1. row \in [Paths -> Row] /\ row[p] \in Row
    BY JobsTyped
  <1>2. row' = [row EXCEPT ![p] = [row[p] EXCEPT !.text = s]]
    BY DEF WithText
  <1>3. row'[p] = [row[p] EXCEPT !.text = s] /\ \A q \in Paths \ {p} : row'[q] = row[q]
    BY <1>1, <1>2
  <1>4. RowKept(p) /\ row'[p].text = s /\ row'[p].image = row[p].image
    BY <1>1, <1>3 DEF Row, RowKept
  <1> QED
    BY <1>3, <1>4 DEF RowKept

LEMMA WithImageDoes ==
  ASSUME IInv, NEW p \in Paths, NEW s, row' = WithImage(p, s)
  PROVE  /\ \A q \in Paths : RowKept(q) /\ row'[q].text = row[q].text
         /\ row'[p].image = s /\ \A q \in Paths \ {p} : row'[q] = row[q]
  <1>1. row \in [Paths -> Row] /\ row[p] \in Row
    BY JobsTyped
  <1>2. row' = [row EXCEPT ![p] = [row[p] EXCEPT !.image = s]]
    BY DEF WithImage
  <1>3. row'[p] = [row[p] EXCEPT !.image = s] /\ \A q \in Paths \ {p} : row'[q] = row[q]
    BY <1>1, <1>2
  <1>4. RowKept(p) /\ row'[p].image = s /\ row'[p].text = row[p].text
    BY <1>1, <1>3 DEF Row, RowKept
  <1> QED
    BY <1>3, <1>4 DEF RowKept

LEMMA NextRowDoes ==
  ASSUME NEW job, job \in MigType \/ job \in ScanType, job.rows # {}
  PROVE  /\ NextRow(job).at = "rows" /\ NextRow(job).rows = job.rows \ {First(job)}
         /\ NextRow(job).cursor = First(job).path
         /\ job \in ScanType => NextRow(job).rerun = job.rerun
         /\ First(job) \in job.rows /\ First(job) \in Snapshot /\ First(job).path \in Paths
  <1>1. First(job) \in job.rows /\ First(job) \in Snapshot
    BY NextRowTyped
  <1>2. First(job).path \in Paths
    BY <1>1 DEF Snapshot
  <1>3. CASE job \in MigType
    <2>1. job \notin ScanType \/ NextRow(job).rerun = job.rerun
      BY <1>3 DEF NextRow, MigType, ScanType
    <2> QED
      BY <1>1, <1>2, <1>3, <2>1 DEF NextRow, MigType
  <1>4. CASE job \in ScanType
    BY <1>1, <1>2, <1>4 DEF NextRow, ScanType
  <1> QED
    BY <1>3, <1>4

(* The end of a task, and the row the job behind it goes on to. *)
LEMMA ResumeDoes ==
  ASSUME IInv, NEW t \in running, Leave(t), Resume(t)
  PROVE  /\ Tasks' = Tasks \ {t} /\ t \in Tasks /\ t \in Task /\ meta'.format = meta.format
         /\ t.by = "migration" => /\ mig.at = "embed" /\ mig.rows # {} /\ mig'.at = "rows"
                                  /\ mig'.rows = mig.rows \ {First(mig)} /\ mig'.cursor = First(mig).path
         /\ t.by # "migration" => mig' = mig
         /\ t.by = "image" => /\ scan.at = "embed" /\ scan.rows # {} /\ scan'.at = "rows"
                              /\ t.path = First(scan).path /\ t.v = First(scan).v
                              /\ scan'.rows = scan.rows \ {First(scan)} /\ scan'.cursor = First(scan).path
                              /\ scan'.rerun = scan.rerun
         /\ t.by # "image" => scan' = scan
  <1>0. SlotsBase /\ SlotTypes /\ t \in Task /\ t \in Tasks
    BY DEF IInv, SlotsOK, SlotsBase, SlotTypes, TypeOK, Tasks
  <1>1. Tasks' = Tasks \ {t}
    BY <1>0, LeaveKeeps
  <1>2. mig \in MigType /\ scan \in ScanType /\ meta \in MetaType
    BY JobsTyped
  <1>3. meta'.format = meta.format
    BY <1>2 DEF Resume, MetaType
  <1>4. ASSUME t.by = "migration"
        PROVE  /\ mig.at = "embed" /\ mig.rows # {} /\ mig'.at = "rows"
               /\ mig'.rows = mig.rows \ {First(mig)} /\ mig'.cursor = First(mig).path
    <2>1. mig.at = "embed" /\ mig.rows # {} /\ mig' = NextRow(mig)
      BY <1>0, <1>4 DEF IInv, SlotsOK, TasksOwned, Tasks, MarkerExact, Resume
    <2> QED
      BY <1>2, <2>1, NextRowDoes
  <1>5. ASSUME t.by = "image"
        PROVE  /\ scan.at = "embed" /\ scan.rows # {} /\ scan'.at = "rows"
               /\ t.path = First(scan).path /\ t.v = First(scan).v
               /\ scan'.rows = scan.rows \ {First(scan)} /\ scan'.cursor = First(scan).path
               /\ scan'.rerun = scan.rerun
    <2>1. scan.at = "embed" /\ t.path = meta.marker.path /\ t.v = meta.marker.v /\ scan.rows # {} /\ meta.marker = First(scan)
      BY <1>0, <1>5 DEF IInv, SlotsOK, TasksOwned, Tasks, MarkerExact
    <2>2. scan' = NextRow(scan)
      BY <1>5 DEF Resume
    <2> QED
      BY <1>2, <2>1, <2>2, NextRowDoes
  <1>6. (t.by # "migration" => mig' = mig) /\ (t.by # "image" => scan' = scan)
    BY DEF Resume
  <1> QED
    BY <1>0, <1>1, <1>3, <1>4, <1>5, <1>6

LEMMA EmbeddedDoes ==
  ASSUME IInv, NEW t \in running, embedded(t)
  PROVE  /\ Leave(t) /\ Resume(t) /\ Backstage /\ up = "yes" /\ t.path \in Paths
         /\ \A p \in Paths : p # t.path \/ ~isCurrent(t.path, t.v) =>
               row'[p] = row[p] /\ text'[p] = text[p] /\ image'[p] = image[p] /\ gap'[p] = gap[p]
         /\ isCurrent(t.path, t.v) /\ t.by = "image" =>
               /\ row'[t.path].image = "indexed" /\ row'[t.path].text = row[t.path].text
               /\ image'[t.path].id = t.doc.id /\ image'[t.path].format = conf.format
               /\ text'[t.path] = text[t.path] /\ gap'[t.path] = gap[t.path]
         /\ isCurrent(t.path, t.v) /\ t.by # "image" =>
               /\ row'[t.path].text \in {"indexed", "skipped", "null"} /\ row'[t.path].image = row[t.path].image
               /\ row'[t.path].text = "indexed" => text'[t.path].id = t.doc.id /\ text'[t.path].format = conf.format
               /\ image'[t.path] = image[t.path]
               /\ gap'[t.path] = (gap[t.path] \ {"foreign format"}) \cup IF NewFormat THEN {"foreign format"} ELSE {}
  <1>0. t \in Task /\ t.path \in Paths
    BY JobsTyped DEF Task
  <1>1. Leave(t) /\ Resume(t) /\ UNCHANGED <<up, conf, obj, call, calls>> /\ up = "yes"
    BY DEF embedded, bounds
  <1>2. CASE ~isCurrent(t.path, t.v)
    <2>1. row' = row /\ text' = text /\ image' = image /\ gap' = gap
      BY <1>2 DEF embedded
    <2> QED
      BY <1>0, <1>1, <1>2, <2>1 DEF Backstage, RowKept
  <1>3. CASE isCurrent(t.path, t.v) /\ t.by = "image"
    <2>1. /\ image' = [image EXCEPT ![t.path] = [id |-> t.doc.id, format |-> conf.format]]
          /\ row' = WithImage(t.path, "indexed") /\ text' = text /\ gap' = gap
      BY <1>3 DEF embedded
    <2>2. /\ \A q \in Paths : RowKept(q) /\ row'[q].text = row[q].text
          /\ row'[t.path].image = "indexed" /\ \A q \in Paths \ {t.path} : row'[q] = row[q]
      BY <2>1, <1>0, WithImageDoes
    <2>3. /\ \A q \in Paths \ {t.path} : image'[q] = image[q]
          /\ image'[t.path].id = t.doc.id /\ image'[t.path].format = conf.format
      BY <2>1, <1>0, JobsTyped
    <2> QED
      BY <1>0, <1>1, <1>3, <2>1, <2>2, <2>3 DEF Backstage
  <1>4. CASE isCurrent(t.path, t.v) /\ t.by # "image"
    <2>1. PICK s : s = IF HasText(t.doc) THEN TextStatus(t.doc) ELSE "null"
      OBVIOUS
    <2>2. /\ text' = [text EXCEPT ![t.path] = IF HasText(t.doc) THEN TextChunks(t.doc) ELSE NoChunks]
          /\ row' = WithText(t.path, s) /\ image' = image
          /\ gap' = [gap EXCEPT ![t.path] = (@ \ {"foreign format"}) \cup IF NewFormat THEN {"foreign format"} ELSE {}]
      BY <1>4, <2>1 DEF embedded
    <2>3. s \in {"indexed", "skipped", "null"}
      BY <2>1 DEF TextStatus
    <2>4. /\ \A q \in Paths : RowKept(q) /\ row'[q].image = row[q].image
          /\ row'[t.path].text = s /\ \A q \in Paths \ {t.path} : row'[q] = row[q]
      BY <2>2, <1>0, WithTextDoes
    <2>5. s = "indexed" => text'[t.path].id = t.doc.id /\ text'[t.path].format = conf.format
      BY <2>1, <2>2, <1>0, JobsTyped DEF TextChunks
    <2>6. /\ \A q \in Paths \ {t.path} : text'[q] = text[q] /\ gap'[q] = gap[q]
          /\ gap'[t.path] = (gap[t.path] \ {"foreign format"}) \cup IF NewFormat THEN {"foreign format"} ELSE {}
      BY <2>2, <1>0, JobsTyped
    <2> QED
      BY <1>0, <1>1, <1>4, <2>2, <2>3, <2>4, <2>5, <2>6 DEF Backstage
  <1> QED
    BY <1>2, <1>3, <1>4

LEMMA FailedDoes ==
  ASSUME IInv, NEW t \in running, failed(t)
  PROVE  /\ Leave(t) /\ Resume(t) /\ Backstage /\ up = "yes" /\ t.path \in Paths
         /\ text' = text /\ image' = image /\ gap' = gap
         /\ \A p \in Paths : p # t.path \/ ~isCurrent(t.path, t.v) => row'[p] = row[p]
         /\ isCurrent(t.path, t.v) /\ t.by = "image" => row'[t.path].image = "failed" /\ row'[t.path].text = row[t.path].text
         /\ isCurrent(t.path, t.v) /\ t.by # "image" => row'[t.path].text = "failed" /\ row'[t.path].image = row[t.path].image
  <1>0. t \in Task /\ t.path \in Paths
    BY JobsTyped DEF Task
  <1>1. /\ Leave(t) /\ Resume(t) /\ UNCHANGED <<up, conf, obj, call, calls>> /\ up = "yes"
        /\ text' = text /\ image' = image /\ gap' = gap
    BY DEF failed
  <1>2. CASE ~isCurrent(t.path, t.v)
    <2>1. row' = row
      BY <1>2 DEF failed
    <2> QED
      BY <1>0, <1>1, <1>2, <2>1 DEF Backstage, RowKept
  <1>3. CASE isCurrent(t.path, t.v) /\ t.by = "image"
    <2>1. row' = WithImage(t.path, "failed")
      BY <1>3 DEF failed
    <2> QED
      BY <1>0, <1>1, <1>3, <2>1, WithImageDoes DEF Backstage
  <1>4. CASE isCurrent(t.path, t.v) /\ t.by # "image"
    <2>1. row' = WithText(t.path, "failed")
      BY <1>4 DEF failed
    <2> QED
      BY <1>0, <1>1, <1>4, <2>1, WithTextDoes DEF Backstage
  <1> QED
    BY <1>2, <1>3, <1>4

LEMMA InitFailedDoes ==
  ASSUME IInv, NEW t \in running, initFailed(t)
  PROVE  /\ Backstage /\ up = "yes" /\ Tasks' = Tasks \ {t} /\ t \in Tasks /\ t.by = "image"
         /\ meta'.format = meta.format /\ mig' = mig /\ row' = row /\ text' = text /\ image' = image
         /\ scan'.rows = scan.rows
         /\ \A p \in Paths : /\ gap[p] \subseteq gap'[p] /\ gap'[p] \subseteq gap[p] \cup {"images stopped"}
                             /\ row[p].image = "pending" => "images stopped" \in gap'[p]
  <1>0. SlotsBase /\ SlotTypes /\ t \in Tasks
    BY DEF IInv, SlotsOK, SlotsBase, SlotTypes, TypeOK, Tasks
  <1>1. /\ Leave(t) /\ UNCHANGED <<up, conf, obj, call, calls>> /\ up = "yes" /\ t.by = "image"
        /\ mig' = mig /\ row' = row /\ text' = text /\ image' = image
        /\ gap' = [p \in Paths |-> IF row[p].image = "pending" THEN gap[p] \cup {"images stopped"} ELSE gap[p]]
        /\ meta' = [meta EXCEPT !.marker = NoMarker] /\ scan' = [scan EXCEPT !.at = "off"]
    BY DEF initFailed
  <1>2. Tasks' = Tasks \ {t}
    BY <1>0, <1>1, LeaveKeeps
  <1>3. meta'.format = meta.format /\ scan'.rows = scan.rows
    BY <1>1, JobsTyped DEF MetaType, ScanType
  <1> QED
    BY <1>0, <1>1, <1>2, <1>3 DEF Backstage, RowKept

LEMMA WarmedUpDoes ==
  ASSUME IInv, warmedUp
  PROVE  /\ Backstage /\ up = "yes" /\ SameSlots /\ mig.at = "warmup" /\ mig'.at = "rows"
         /\ mig'.rows = mig.rows /\ mig'.cursor = mig.cursor /\ scan' = scan /\ text' = text /\ gap' = gap
         /\ meta'.format = conf.format
         /\ \A p \in Paths : row'[p].text = "indexed" => row[p].text = "indexed" /\ (row[p].live = "yes" => ~NewFormat)
         /\ \/ DropImages /\ \A p \in Paths : row'[p].image = "null" /\ image'[p] = NoChunks
            \/ ~DropImages /\ image' = image /\ \A p \in Paths : row'[p].image = row[p].image
  <1>1. /\ up = "yes" /\ SameSlots /\ mig.at = "warmup" /\ mig' = [mig EXCEPT !.at = "rows"] /\ scan' = scan
        /\ text' = text /\ gap' = gap /\ UNCHANGED <<up, conf, obj, call, calls>>
    BY DEF warmedUp, SameSlots, slots, bounds
  <1>2. /\ image' = IF DropImages THEN [p \in Paths |-> NoChunks] ELSE image
        /\ meta' = [meta EXCEPT !.format = conf.format, !.excluded = conf.excluded, !.retried = conf.format]
    BY DEF warmedUp, prepareEmbeddingMigration
  <1>3. mig'.at = "rows" /\ mig'.rows = mig.rows /\ mig'.cursor = mig.cursor /\ meta'.format = conf.format
    BY <1>1, <1>2, JobsTyped DEF MigType, MetaType
  <1>4. ASSUME NEW p \in Paths
        PROVE  /\ RowKept(p)
               /\ row'[p].text = "indexed" => row[p].text = "indexed" /\ (row[p].live = "yes" => ~NewFormat)
               /\ row'[p].image = (IF DropImages THEN "null" ELSE row[p].image)
    <2>1. row[p] \in Row
      BY JobsTyped
    <2>2. PICK s : s = IF row[p].live = "yes" THEN Backfilled(row[p].doc, Retried(Excluded(Reset(row[p].text)))) ELSE row[p].text
      OBVIOUS
    <2>3. row'[p] = [row[p] EXCEPT !.text = s, !.image = IF DropImages THEN "null" ELSE @]
      BY <2>1, <2>2 DEF warmedUp, prepareEmbeddingMigration
    <2>4. s = "indexed" => row[p].text = "indexed" /\ (row[p].live = "yes" => ~NewFormat)
      BY <2>2 DEF Backfilled, Retried, Excluded, Reset
    <2> QED
      BY <2>1, <2>3, <2>4 DEF Row, RowKept
  <1> QED
    BY <1>1, <1>2, <1>3, <1>4 DEF Backstage

LEMMA WarmupFailedDoes ==
  ASSUME IInv, warmupFailed
  PROVE  /\ Backstage /\ up = "yes" /\ SameSlots /\ mig.at = "warmup" /\ mig'.at = "after" /\ mig'.rows = mig.rows
         /\ scan' = scan /\ row' = row /\ text' = text /\ image' = image /\ meta' = meta
         /\ \A p \in Paths : gap'[p] = gap[p] \cup {"not migrated"}
  BY JobsTyped DEF warmupFailed, Backstage, RowKept, SameSlots, slots, MigType

(* A batch is the pending rows beyond the cursor, as they are now. *)
LEMMA MigrationSelectDoes ==
  ASSUME IInv, migrationSelect
  PROVE  /\ Backstage /\ up = "yes" /\ SameSlots /\ mig.at = "rows" /\ mig.rows = {}
         /\ scan' = scan /\ row' = row /\ text' = text /\ image' = image /\ meta' = meta /\ gap' = gap
         /\ mig'.at \in {"rows", "after"} /\ (mig'.at = "after" => mig'.rows = {})
         /\ \A r \in mig'.rows : \E p \in Paths : r.path = p /\ r.v = row[p].v
         /\ \A p \in Paths : row[p].live = "yes" /\ row[p].text = "pending" /\ mig.cursor < p => Here(p) \in mig'.rows
  <1>1. /\ Backstage /\ up = "yes" /\ SameSlots /\ mig.at = "rows" /\ mig.rows = {}
        /\ scan' = scan /\ row' = row /\ text' = text /\ image' = image /\ meta' = meta /\ gap' = gap
    BY DEF migrationSelect, Backstage, RowKept, SameSlots, slots, bounds
  <1>2. PICK rows : rows = Batch(mig.cursor, PendingText)
    OBVIOUS
  <1>3. mig' = IF rows = {} THEN [mig EXCEPT !.at = "after"] ELSE [mig EXCEPT !.rows = rows]
    BY <1>2 DEF migrationSelect
  <1>4. mig'.rows = rows /\ mig'.at \in {"rows", "after"} /\ (mig'.at = "after" => mig'.rows = {})
    BY <1>1, <1>3, JobsTyped DEF MigType
  <1>5. \A r \in rows : \E p \in Paths : r.path = p /\ r.v = row[p].v
    BY <1>2 DEF Batch, PendingText
  <1>6. \A p \in Paths : row[p].live = "yes" /\ row[p].text = "pending" /\ mig.cursor < p => Here(p) \in rows
    <2> SUFFICES ASSUME NEW p \in Paths, row[p].live = "yes", row[p].text = "pending", mig.cursor < p
                 PROVE  Here(p) \in rows
      OBVIOUS
    <2>1. p > mig.cursor
      BY JobsTyped DEF Paths, MigType
    <2> QED
      BY <1>2, <2>1 DEF Batch, PendingText, Here
  <1> QED
    BY <1>1, <1>4, <1>5, <1>6

TextDropped(p) ==
  /\ RowKept(p) /\ row'[p].image = row[p].image
  /\ \/ row'[p].text = row[p].text /\ text'[p] = text[p]
     \/ /\ row'[p].text \in {"skipped", "failed", "null"}
        /\ text'[p] = text[p] \/ row[p].live = "yes"

LEMMA Untouched ==
  ASSUME IInv, row' = row, text' = text PROVE \A p \in Paths : TextDropped(p)
  BY DEF TextDropped, RowKept

LEMMA MigrationReadDoes ==
  ASSUME IInv, migrationRead
  PROVE  /\ Backstage /\ up = "yes" /\ SameSlots /\ mig.at = "rows" /\ mig.rows # {} /\ First(mig) \in mig.rows /\ First(mig).path \in Paths
         /\ scan' = scan /\ image' = image /\ meta' = meta /\ gap' = gap
         /\ \A p \in Paths : TextDropped(p)
         /\ \/ /\ mig' = NextRow(mig)
               /\ \A p \in Paths : row[p].live = "yes" /\ Here(p) = First(mig) => row'[p].text # "pending"
            \/ /\ mig'.at = "extract" /\ mig'.rows = mig.rows /\ mig'.doc = obj[First(mig).path]
               /\ obj[First(mig).path] # NoDoc /\ row' = row /\ text' = text
  <1>1. /\ up = "yes" /\ SameSlots /\ mig.at = "rows" /\ mig.rows # {}
        /\ scan' = scan /\ image' = image /\ meta' = meta /\ gap' = gap /\ UNCHANGED <<up, conf, obj, call, calls>>
    BY DEF migrationRead, SameSlots, slots, bounds
  <1>2. PICK r : r = First(mig)
    OBVIOUS
  <1>3. r \in mig.rows /\ r.path \in Paths
    BY <1>1, <1>2, JobsTyped, NextRowDoes
  <1>4. CASE conf.excluded = "yes" /\ isCurrent(r.path, r.v)
    <2>1. row' = WithText(r.path, "skipped") /\ text' = [text EXCEPT ![r.path] = NoChunks] /\ mig' = NextRow(mig)
      BY <1>2, <1>4 DEF migrationRead
    <2>2. /\ \A q \in Paths : RowKept(q) /\ row'[q].image = row[q].image
          /\ row'[r.path].text = "skipped" /\ \A q \in Paths \ {r.path} : row'[q] = row[q]
      BY <2>1, <1>3, WithTextDoes
    <2>3. \A q \in Paths \ {r.path} : text'[q] = text[q]
      BY <2>1, <1>3, JobsTyped
    <2>4. \A p \in Paths : TextDropped(p)
      BY <2>2, <2>3, <1>4 DEF TextDropped, isCurrent
    <2>5. \A p \in Paths : row[p].live = "yes" /\ Here(p) = r => row'[p].text # "pending"
      BY <2>2 DEF Here
    <2> QED
      BY <1>1, <1>2, <1>3, <2>1, <2>2, <2>4, <2>5 DEF Backstage
  <1>5. CASE conf.excluded = "yes" /\ ~isCurrent(r.path, r.v)
    <2>1. row' = row /\ text' = text /\ mig' = NextRow(mig)
      BY <1>2, <1>5 DEF migrationRead
    <2>2. \A p \in Paths : ~(row[p].live = "yes" /\ Here(p) = r)
      BY <1>5 DEF Here, isCurrent
    <2> QED
      BY <1>1, <1>2, <1>3, <2>1, <2>2, Untouched DEF Backstage, RowKept
  <1>6. CASE conf.excluded = "no" /\ obj[r.path] = NoDoc
    <2>1. /\ text' = text /\ mig' = NextRow(mig)
          /\ row' = IF row[r.path].text = "pending" /\ row[r.path].v = r.v THEN WithText(r.path, "failed") ELSE row
      BY <1>2, <1>6 DEF migrationRead
    <2>2. CASE row[r.path].text = "pending" /\ row[r.path].v = r.v
      <3>1. /\ \A q \in Paths : RowKept(q) /\ row'[q].image = row[q].image
            /\ row'[r.path].text = "failed" /\ \A q \in Paths \ {r.path} : row'[q] = row[q]
        BY <2>1, <2>2, <1>3, WithTextDoes
      <3>2. \A p \in Paths : TextDropped(p)
        BY <3>1, <2>1 DEF TextDropped
      <3>3. \A p \in Paths : row[p].live = "yes" /\ Here(p) = r => row'[p].text # "pending"
        BY <3>1 DEF Here
      <3> QED
        BY <1>1, <1>2, <1>3, <2>1, <3>1, <3>2, <3>3 DEF Backstage
    <2>3. CASE ~(row[r.path].text = "pending" /\ row[r.path].v = r.v)
      <3>1. row' = row
        BY <2>1, <2>3
      <3>2. \A p \in Paths : row[p].live = "yes" /\ Here(p) = r => row'[p].text # "pending"
        BY <2>3, <3>1 DEF Here
      <3> QED
        BY <1>1, <1>2, <1>3, <2>1, <3>1, <3>2, Untouched DEF Backstage, RowKept
    <2> QED
      BY <2>2, <2>3
  <1>7. CASE conf.excluded = "no" /\ obj[r.path] # NoDoc
    <2>1. row' = row /\ text' = text /\ mig' = [mig EXCEPT !.at = "extract", !.doc = obj[r.path]]
      BY <1>2, <1>7 DEF migrationRead
    <2>2. mig'.at = "extract" /\ mig'.rows = mig.rows /\ mig'.doc = obj[r.path]
      BY <2>1, JobsTyped DEF MigType
    <2> QED
      BY <1>1, <1>2, <1>3, <1>7, <2>1, <2>2, Untouched DEF Backstage, RowKept
  <1>8. conf.excluded \in {"no", "yes"}
    BY JobsTyped DEF ConfType
  <1> QED
    BY <1>4, <1>5, <1>6, <1>7, <1>8

LEMMA MigrationExtractDoes ==
  ASSUME IInv, migrationExtract
  PROVE  /\ Backstage /\ up = "yes" /\ mig.at = "extract" /\ mig.rows # {} /\ First(mig) \in mig.rows /\ First(mig).path \in Paths
         /\ scan' = scan /\ image' = image /\ meta' = meta /\ gap' = gap
         /\ \A p \in Paths : TextDropped(p)
         /\ \/ /\ mig' = NextRow(mig) /\ SameSlots
               /\ \A p \in Paths : row[p].live = "yes" /\ Here(p) = First(mig) => row'[p].text # "pending"
            \/ /\ mig'.at = "embed" /\ mig'.rows = mig.rows /\ row' = row /\ text' = text
               /\ Tasks' = Tasks \cup {[by |-> "migration", path |-> First(mig).path, v |-> First(mig).v, doc |-> mig.doc]}
  <1>1. /\ up = "yes" /\ mig.at = "extract" /\ mig.rows # {}
        /\ scan' = scan /\ image' = image /\ meta' = meta /\ gap' = gap /\ UNCHANGED <<up, conf, obj, call, calls>>
    BY DEF migrationExtract, IInv, MarkerExact, bounds
  <1>2. PICK r : r = First(mig)
    OBVIOUS
  <1>3. r \in mig.rows /\ r \in Snapshot /\ r.path \in Paths
    BY <1>1, <1>2, JobsTyped, NextRowDoes
  <1>4. CASE ~HasText(mig.doc) /\ isCurrent(r.path, r.v)
    <2>1. row' = WithText(r.path, "null") /\ text' = [text EXCEPT ![r.path] = NoChunks] /\ mig' = NextRow(mig) /\ SameSlots
      BY <1>2, <1>4 DEF migrationExtract, SameSlots, slots
    <2>2. /\ \A q \in Paths : RowKept(q) /\ row'[q].image = row[q].image
          /\ row'[r.path].text = "null" /\ \A q \in Paths \ {r.path} : row'[q] = row[q]
      BY <2>1, <1>3, WithTextDoes
    <2>3. \A q \in Paths \ {r.path} : text'[q] = text[q]
      BY <2>1, <1>3, JobsTyped
    <2>4. \A p \in Paths : TextDropped(p)
      BY <2>2, <2>3, <1>4 DEF TextDropped, isCurrent
    <2>5. \A p \in Paths : row[p].live = "yes" /\ Here(p) = r => row'[p].text # "pending"
      BY <2>2 DEF Here
    <2> QED
      BY <1>1, <1>2, <1>3, <2>1, <2>2, <2>4, <2>5 DEF Backstage
  <1>5. CASE ~HasText(mig.doc) /\ ~isCurrent(r.path, r.v)
    <2>1. row' = row /\ text' = text /\ mig' = NextRow(mig) /\ SameSlots
      BY <1>2, <1>5 DEF migrationExtract, SameSlots, slots
    <2>2. \A p \in Paths : ~(row[p].live = "yes" /\ Here(p) = r)
      BY <1>5 DEF Here, isCurrent
    <2> QED
      BY <1>1, <1>2, <1>3, <2>1, <2>2, Untouched DEF Backstage, RowKept
  <1>6. CASE HasText(mig.doc)
    <2>1. PICK t : t = [by |-> "migration", path |-> r.path, v |-> r.v, doc |-> mig.doc]
      OBVIOUS
    <2>2. row' = row /\ text' = text /\ mig' = [mig EXCEPT !.at = "embed"] /\ Enter(t)
      BY <1>2, <1>6, <2>1 DEF migrationExtract
    <2>3. mig'.at = "embed" /\ mig'.rows = mig.rows
      BY <2>2, JobsTyped DEF MigType
    <2>4. t \in Task /\ t.by = "migration"
      BY <1>3, <2>1, JobsTyped DEF Task, Snapshot, MigType
    <2>5. t \notin Tasks
      BY <2>4, <1>1 DEF IInv, SlotsOK, TasksOwned, Tasks
    <2>6. SlotsBase /\ SlotTypes
      BY DEF IInv, SlotsOK, SlotsBase, SlotTypes, TypeOK
    <2>7. Tasks' = Tasks \cup {t}
      BY <2>2, <2>4, <2>5, <2>6, EnterKeeps
    <2> QED
      BY <1>1, <1>2, <1>3, <2>1, <2>2, <2>3, <2>7, Untouched DEF Backstage, RowKept
  <1> QED
    BY <1>4, <1>5, <1>6

LEMMA AfterMigrationDoes ==
  ASSUME IInv, afterMigration
  PROVE  /\ Backstage /\ up = "yes" /\ SameSlots /\ mig.at = "after" /\ mig'.at = "off" /\ mig'.rows = {}
         /\ text' = text /\ image' = image /\ gap' = gap /\ meta'.format = meta.format
         /\ scan' = scan \/ scan' = scheduled(scan)
         /\ \A p \in Paths : /\ row'[p].text = row[p].text
                             /\ row'[p].image = row[p].image \/ row'[p].image \in {"null", "failed", "pending"}
         /\ \/ NewFormat
            \/ scan' = scheduled(scan)
            \/ \A p \in Paths : ~(row'[p].live = "yes" /\ row'[p].image = "pending" /\ conf.excluded = "no")
  <1>1. /\ up = "yes" /\ SameSlots /\ mig.at = "after" /\ mig' = Stopped
        /\ text' = text /\ image' = image /\ gap' = gap /\ UNCHANGED <<up, conf, obj, call, calls>>
    BY DEF afterMigration, SameSlots, slots, bounds
  <1>2. mig'.at = "off" /\ mig'.rows = {}
    BY <1>1 DEF Stopped
  <1>3. CASE NewFormat /\ UNCHANGED <<row, meta, scan, killed>>
    BY <1>1, <1>2, <1>3 DEF Backstage, RowKept
  <1>4. CASE ~(NewFormat /\ UNCHANGED <<row, meta, scan, killed>>)
    <2>1. /\ row' = [p \in Paths |-> Queued(Recovered(p))]
          /\ meta' = [meta EXCEPT !.marker = NoMarker]
          /\ scan' = IF \E p \in Paths : row'[p].live = "yes" /\ row'[p].image = "pending"
                                        /\ conf.excluded = "no"
                     THEN scheduled(scan) ELSE scan
      BY <1>4 DEF afterMigration
    <2>2. meta'.format = meta.format
      BY <2>1, JobsTyped DEF MetaType
    <2>3. ASSUME NEW p \in Paths
          PROVE  /\ RowKept(p) /\ row'[p].text = row[p].text
                 /\ row'[p].image = row[p].image \/ row'[p].image \in {"null", "failed", "pending"}
      <3>1. row[p] \in Row
        BY JobsTyped
      <3>2. PICK s : s = Recovered(p)
        OBVIOUS
      <3>3. /\ s \in Row /\ s.v = row[p].v /\ s.live = row[p].live /\ s.doc = row[p].doc /\ s.text = row[p].text
            /\ s.image = row[p].image \/ s.image \in {"null", "failed"}
        BY <3>1, <3>2 DEF Recovered, Row, Status
      <3>4. row'[p] = Queued(s)
        BY <2>1, <3>2
      <3>5. /\ Queued(s).v = s.v /\ Queued(s).live = s.live /\ Queued(s).doc = s.doc /\ Queued(s).text = s.text
            /\ Queued(s).image = s.image \/ Queued(s).image = "pending"
        BY <3>3 DEF Queued, Row
      <3> QED
        BY <3>3, <3>4, <3>5 DEF RowKept
    <2> QED
      BY <1>1, <1>2, <2>1, <2>2, <2>3 DEF Backstage
  <1> QED
    BY <1>3, <1>4

LEMMA ImageSlotDoes ==
  ASSUME IInv, imageSlot
  PROVE  /\ Backstage /\ up = "yes" /\ SameSlots /\ mig.at = "off"
         /\ UNCHANGED <<row, text, image, meta, mig, gap>> /\ scan'.rows = {}
         /\ NewFormat \/ (scan'.at = "rows" /\ scan'.cursor = 0)
  <1>1. /\ Backstage /\ up = "yes" /\ SameSlots /\ mig.at = "off"
        /\ UNCHANGED <<row, text, image, meta, mig, gap>>
        /\ scan' = IF NewFormat THEN RunEnds ELSE [scan EXCEPT !.at = "rows", !.rows = {}, !.cursor = 0]
    BY DEF imageSlot, Backstage, RowKept, SameSlots, slots, MigrationSlotFree, bounds
  <1>2. scan'.rows = {} /\ (NewFormat \/ (scan'.at = "rows" /\ scan'.cursor = 0))
    BY <1>1, JobsTyped DEF RunEnds, ScanType
  <1> QED
    BY <1>1, <1>2

LEMMA ImageSelectDoes ==
  ASSUME IInv, imageSelect
  PROVE  /\ Backstage /\ up = "yes" /\ SameSlots /\ scan.at = "rows" /\ scan.rows = {}
         /\ UNCHANGED <<row, text, image, meta, mig, gap>>
         /\ \A r \in scan'.rows : \E p \in Paths : r.path = p /\ r.v = row[p].v
         /\ scan.rerun = "yes" => scan'.rerun = "yes" \/ scan'.at = "wait"
         /\ \A p \in Paths : row[p].live = "yes" /\ row[p].image = "pending" /\ conf.excluded = "no" /\ scan.cursor < p
               => scan'.at = "rows" /\ Here(p) \in scan'.rows
  <1>1. /\ Backstage /\ up = "yes" /\ SameSlots /\ scan.at = "rows" /\ scan.rows = {}
        /\ UNCHANGED <<row, text, image, meta, mig, gap>>
    BY DEF imageSelect, Backstage, RowKept, SameSlots, slots, bounds
  <1>2. PICK rows : rows = Batch(scan.cursor, PendingImages)
    OBVIOUS
  <1>3. scan' = IF rows = {} THEN RunEnds ELSE [scan EXCEPT !.rows = rows]
    BY <1>2 DEF imageSelect
  <1>4. /\ scan'.rows = rows /\ (rows # {} => scan'.at = "rows")
        /\ scan.rerun = "yes" => scan'.rerun = "yes" \/ scan'.at = "wait"
    BY <1>1, <1>3, JobsTyped DEF RunEnds, ScanType
  <1>5. \A r \in rows : \E p \in Paths : r.path = p /\ r.v = row[p].v
    BY <1>2 DEF Batch, PendingImages
  <1>6. \A p \in Paths : row[p].live = "yes" /\ row[p].image = "pending" /\ conf.excluded = "no" /\ scan.cursor < p
               => Here(p) \in rows
    <2> SUFFICES ASSUME NEW p \in Paths, row[p].live = "yes", row[p].image = "pending", conf.excluded = "no", scan.cursor < p
                 PROVE  Here(p) \in rows
      OBVIOUS
    <2>1. p > scan.cursor
      BY JobsTyped DEF Paths, ScanType
    <2> QED
      BY <1>2, <2>1 DEF Batch, PendingImages, Here
  <1> QED
    BY <1>1, <1>4, <1>5, <1>6

LEMMA ImageRowDoes ==
  ASSUME IInv, imageRow
  PROVE  /\ Backstage /\ up = "yes" /\ SameSlots /\ scan.at = "rows" /\ scan.rows # {}
         /\ UNCHANGED <<text, image, mig, gap>> /\ meta'.format = meta.format
         /\ \A p \in Paths : row'[p].text = row[p].text /\ row'[p].image \in {row[p].image, "null"}
         /\ \/ /\ scan' = NextRow(scan)
               /\ \A p \in Paths : row[p].live = "yes" /\ Here(p) = First(scan) => row'[p].image # "pending"
            \/ scan'.at = "read" /\ scan'.rows = scan.rows /\ scan'.rerun = scan.rerun /\ row' = row
  <1>1. /\ up = "yes" /\ SameSlots /\ scan.at = "rows" /\ scan.rows # {}
        /\ UNCHANGED <<text, image, mig, gap>> /\ UNCHANGED <<up, conf, obj, call, calls>>
    BY DEF imageRow, SameSlots, slots, bounds
  <1>2. PICK r : r = First(scan)
    OBVIOUS
  <1>3. r \in scan.rows /\ r.path \in Paths
    BY <1>1, <1>2, JobsTyped, NextRowDoes
  <1>4. CASE ~isCurrent(r.path, r.v)
    <2>1. row' = row /\ meta' = meta /\ scan' = NextRow(scan)
      BY <1>2, <1>4 DEF imageRow
    <2>2. \A p \in Paths : ~(row[p].live = "yes" /\ Here(p) = r)
      BY <1>4 DEF Here, isCurrent
    <2> QED
      BY <1>1, <1>2, <2>1, <2>2 DEF Backstage, RowKept
  <1>5. CASE isCurrent(r.path, r.v) /\ ~imageEligible(row[r.path].doc)
    <2>1. row' = WithImage(r.path, "null") /\ meta' = meta /\ scan' = NextRow(scan)
      BY <1>2, <1>5 DEF imageRow
    <2>2. /\ \A q \in Paths : RowKept(q) /\ row'[q].text = row[q].text
          /\ row'[r.path].image = "null" /\ \A q \in Paths \ {r.path} : row'[q] = row[q]
      BY <2>1, <1>3, WithImageDoes
    <2>3. \A p \in Paths : row[p].live = "yes" /\ Here(p) = r => row'[p].image # "pending"
      BY <2>2 DEF Here
    <2> QED
      BY <1>1, <1>2, <2>1, <2>2, <2>3 DEF Backstage
  <1>6. CASE isCurrent(r.path, r.v) /\ imageEligible(row[r.path].doc)
    <2>1. row' = row /\ meta' = [meta EXCEPT !.marker = r] /\ scan' = [scan EXCEPT !.at = "read"]
      BY <1>2, <1>6 DEF imageRow
    <2>2. meta'.format = meta.format /\ scan'.at = "read" /\ scan'.rows = scan.rows /\ scan'.rerun = scan.rerun
      BY <2>1, JobsTyped DEF MetaType, ScanType
    <2> QED
      BY <1>1, <1>2, <2>1, <2>2 DEF Backstage, RowKept
  <1> QED
    BY <1>4, <1>5, <1>6

LEMMA EmbedImageDoes ==
  ASSUME IInv, embedImageFile
  PROVE  /\ Backstage /\ up = "yes" /\ scan.at = "read" /\ scan.rows # {} /\ First(scan) \in scan.rows /\ First(scan).path \in Paths
         /\ UNCHANGED <<text, image, mig, gap>> /\ meta'.format = meta.format
         /\ \A p \in Paths : row'[p].text = row[p].text /\ row'[p].image \in {row[p].image, "failed"}
         /\ \/ /\ scan' = NextRow(scan) /\ SameSlots
               /\ \A p \in Paths : row[p].live = "yes" /\ Here(p) = First(scan) => row'[p].image # "pending"
            \/ /\ scan'.at = "embed" /\ scan'.rows = scan.rows /\ scan'.rerun = scan.rerun /\ row' = row
               /\ obj[First(scan).path] # NoDoc
               /\ Tasks' = Tasks \cup {[by |-> "image", path |-> First(scan).path, v |-> First(scan).v, doc |-> obj[First(scan).path]]}
  <1>1. /\ up = "yes" /\ scan.at = "read" /\ scan.rows # {}
        /\ UNCHANGED <<text, image, mig, gap>> /\ UNCHANGED <<up, conf, obj, call, calls>>
    BY DEF embedImageFile, IInv, MarkerExact, bounds
  <1>2. PICK r : r = First(scan)
    OBVIOUS
  <1>3. r \in scan.rows /\ r \in Snapshot /\ r.path \in Paths
    BY <1>1, <1>2, JobsTyped, NextRowDoes
  <1>4. CASE obj[r.path] = NoDoc
    <2>1. /\ row' = IF isCurrent(r.path, r.v) THEN WithImage(r.path, "failed") ELSE row
          /\ scan' = NextRow(scan) /\ meta' = [meta EXCEPT !.marker = NoMarker] /\ SameSlots
      BY <1>2, <1>4 DEF embedImageFile, SameSlots, slots
    <2>2. meta'.format = meta.format
      BY <2>1, JobsTyped DEF MetaType
    <2>3. CASE isCurrent(r.path, r.v)
      <3>1. row' = WithImage(r.path, "failed")
        BY <2>1, <2>3
      <3>2. /\ \A q \in Paths : RowKept(q) /\ row'[q].text = row[q].text
            /\ row'[r.path].image = "failed" /\ \A q \in Paths \ {r.path} : row'[q] = row[q]
        BY <3>1, <1>3, WithImageDoes
      <3>3. \A p \in Paths : row[p].live = "yes" /\ Here(p) = r => row'[p].image # "pending"
        BY <3>2 DEF Here
      <3> QED
        BY <1>1, <1>2, <1>3, <2>1, <2>2, <3>2, <3>3 DEF Backstage
    <2>4. CASE ~isCurrent(r.path, r.v)
      <3>1. row' = row
        BY <2>1, <2>4
      <3>2. \A p \in Paths : ~(row[p].live = "yes" /\ Here(p) = r)
        BY <2>4 DEF Here, isCurrent
      <3> QED
        BY <1>1, <1>2, <1>3, <2>1, <2>2, <3>1, <3>2 DEF Backstage, RowKept
    <2> QED
      BY <2>3, <2>4
  <1>5. CASE obj[r.path] # NoDoc
    <2>1. PICK t : t = [by |-> "image", path |-> r.path, v |-> r.v, doc |-> obj[r.path]]
      OBVIOUS
    <2>2. row' = row /\ meta' = meta /\ scan' = [scan EXCEPT !.at = "embed", !.doc = obj[r.path]] /\ Enter(t)
      BY <1>2, <1>5, <2>1 DEF embedImageFile
    <2>3. scan'.at = "embed" /\ scan'.rows = scan.rows /\ scan'.rerun = scan.rerun
      BY <2>2, JobsTyped DEF ScanType
    <2>4. t \in Task /\ t.by = "image"
      BY <1>3, <2>1, JobsTyped DEF Task, Snapshot
    <2>5. t \notin Tasks
      BY <2>4, <1>1 DEF IInv, SlotsOK, TasksOwned, Tasks
    <2>6. SlotsBase /\ SlotTypes
      BY DEF IInv, SlotsOK, SlotsBase, SlotTypes, TypeOK
    <2>7. Tasks' = Tasks \cup {t}
      BY <2>2, <2>4, <2>5, <2>6, EnterKeeps
    <2> QED
      BY <1>1, <1>2, <1>3, <1>5, <2>1, <2>2, <2>3, <2>7 DEF Backstage, RowKept
  <1> QED
    BY <1>4, <1>5

LEMMA CrashDoes ==
  ASSUME IInv, Crash
  PROVE  /\ up' = "no" /\ Tasks' = {} /\ mig' = Stopped /\ scan'.rows = {} /\ scan'.at = "off" /\ calls' = calls
         /\ \A c \in Clients : call'[c] = Idle
         /\ \A p \in Paths : gap[p] \subseteq gap'[p] /\ (InFlight(p) => "interrupted" \in gap'[p])
         /\ UNCHANGED <<conf, meta, obj, row, text, image>>
  <1>1. /\ up' = "no" /\ mig' = Stopped /\ scan'.rows = {} /\ scan'.at = "off" /\ calls' = calls
        /\ running' = {} /\ queue' = <<>> /\ call' = [c \in Clients |-> Idle]
        /\ gap' = [p \in Paths |-> IF \E c \in Clients : Touches(c, p) THEN gap[p] \cup {"interrupted"} ELSE gap[p]]
        /\ UNCHANGED <<conf, meta, obj, row, text, image>>
    BY DEF Crash
  <1>2. Tasks' = {}
    BY <1>1 DEF Tasks, Waiters
  <1> QED
    BY <1>1, <1>2 DEF InFlight

LEMMA BootDoes ==
  ASSUME IInv, NEW s \in Settings, Boot(s)
  PROVE  /\ up = "no" /\ up' = "yes" /\ Tasks' = Tasks /\ mig'.at = "warmup" /\ mig'.rows = {} /\ mig'.cursor = 0 /\ scan.at = "off"
         /\ \A c \in Clients : call[c].op = "none"
         /\ UNCHANGED <<meta, obj, row, text, image, call, scan, calls>>
         /\ \A p \in Paths : gap'[p] = gap[p] \ Waits
  <1>1. /\ up = "no" /\ up' = "yes" /\ SameSlots /\ mig'.at = "warmup" /\ mig'.rows = {} /\ mig'.cursor = 0
        /\ UNCHANGED <<meta, obj, row, text, image, call, scan, calls>>
        /\ \A p \in Paths : gap'[p] = gap[p] \ Waits
    BY DEF Boot, Stopped, SameSlots, slots, bounds
  <1>2. scan.at = "off" /\ \A c \in Clients : call[c].op = "none"
    BY <1>1 DEF IInv, MarkerExact, CallsNumbered, Active
  <1> QED
    BY <1>1, <1>2, SameTasks

-----------------------------------------------------------------------------
(* Pending files have owners. *)

PendingAt(p) ==
  row[p].live = "yes" /\ ~Owed(p) =>
     /\ row[p].text = "pending" => TextOwner(p)
     /\ row[p].image = "pending" /\ conf.excluded = "no" => ImageOwner(p)

LEMMA OwedKept ==
  ASSUME NEW c \in Clients, NEW p \in Paths, Others(c), row'[p].v = row[p].v, Owed(p),
         Owns(call[c], p) /\ call[c].n = row[p].v => Owns(call[c], p)' /\ call'[c].n = call[c].n
  PROVE  Owed(p)'
  <1>1. PICK d \in Clients : Owns(call[d], p) /\ call[d].n = row[p].v
    BY DEF Owed
  <1>2. CASE d = c
    BY <1>1, <1>2 DEF Owed
  <1>3. CASE d # c
    <2>1. call'[d] = call[d]
      BY <1>3 DEF Others
    <2> QED
      BY <1>1, <2>1 DEF Owed, Owns
  <1> QED
    BY <1>2, <1>3

LEMMA OwedSame ==
  ASSUME NEW p \in Paths, call' = call, row'[p].v = row[p].v
  PROVE  Owed(p)' <=> Owed(p)
  BY DEF Owed, Owns

LEMMA TextOwnerKept ==
  ASSUME NEW p \in Paths, row'[p].v = row[p].v, TextOwner(p), mig' = mig,
         \A t \in Tasks : t \in Tasks' \/ t.by = "image" \/ t.path # p \/ t.v # row[p].v,
         gap[p] \cap {"status carried", "not migrated", "left pending"} \subseteq gap'[p]
  PROVE  TextOwner(p)'
  BY DEF TextOwner, Tasks, Here

LEMMA ImageOwnerKept ==
  ASSUME NEW p \in Paths, scan \in ScanType, row'[p].v = row[p].v, ImageOwner(p), mig'.at = mig.at, meta'.format = meta.format, conf' = conf,
         scan' = scan, gap[p] \cap {"images stopped", "left pending"} \subseteq gap'[p]
  PROVE  ImageOwner(p)'
  BY DEF ImageOwner, Here, NewFormat

LEMMA ImageScheduled ==
  ASSUME NEW p \in Paths, scan \in ScanType, scan' = scheduled(scan) PROVE ImageOwner(p)'
  <1>1. scan'.rerun = "yes" \/ scan'.at = "wait"
    BY DEF scheduled, ScanType
  <1> QED
    BY <1>1 DEF ImageOwner

LEMMA PendingKept ==
  ASSUME IInv, NEW p \in Paths, PendingAt(p), RowKept(p), row'[p].text = row[p].text, row'[p].image = row[p].image,
         Owed(p) => Owed(p)', mig' = mig, meta'.format = meta.format, conf' = conf,
         scan' = scan \/ scan' = scheduled(scan),
         \A t \in Tasks : t \in Tasks' \/ t.by = "image" \/ t.path # p \/ t.v # row[p].v,
         gap[p] \subseteq gap'[p]
  PROVE  PendingAt(p)'
  <1>1. TextOwner(p) => TextOwner(p)'
    BY TextOwnerKept DEF RowKept
  <1>2. ImageOwner(p) => ImageOwner(p)'
    BY ImageOwnerKept, ImageScheduled, JobsTyped DEF RowKept
  <1> QED
    BY <1>1, <1>2 DEF PendingAt, RowKept

LEMMA ShapeKept ==
  ASSUME MigrationShape, mig' = mig, \A t \in Tasks' : t \in Tasks \/ t.by # "migration"
  PROVE  MigrationShape'
  BY DEF MigrationShape, Tasks

LEMMA PInvFrom ==
  ASSUME MigrationShape', \A p \in Paths : PendingAt(p)' PROVE PInv'
  BY DEF PInv, PendingOwned, PendingAt

LEMMA PInvGives ==
  ASSUME PInv, up = "yes" PROVE MigrationShape /\ \A p \in Paths : PendingAt(p)
  BY DEF PInv, PendingOwned, PendingAt

(* Calls. *)
LEMMA CallKeepsPending ==
  ASSUME IInv, PInv, NEW c \in Clients, up = "yes", Others(c),
         \A p \in Paths : ~Owns(call[c], p) \/ call[c].n # row[p].v \/ (Owns(call[c], p)' /\ call'[c].n = call[c].n),
         \A p \in Paths : RowKept(p) /\ row'[p].text = row[p].text,
         \A p \in Paths : row'[p].image = row[p].image \/ scan' = scheduled(scan),
         mig' = mig, meta' = meta, conf' = conf, gap' = gap, scan' = scan \/ scan' = scheduled(scan),
         Tasks \subseteq Tasks', \A t \in Tasks' : t \in Tasks \/ t.by # "migration"
  PROVE  PInv'
  <1>0. MigrationShape /\ (\A p \in Paths : PendingAt(p)) /\ scan \in ScanType
    BY PInvGives, JobsTyped
  <1>1. MigrationShape'
    BY <1>0, ShapeKept
  <1>2. ASSUME NEW p \in Paths PROVE PendingAt(p)'
    <2>1. RowKept(p) /\ row'[p].v = row[p].v
      BY DEF RowKept
    <2>2. Owed(p) => Owed(p)'
      BY <2>1, OwedKept
    <2>3. CASE row'[p].image = row[p].image
      BY <1>0, <2>1, <2>2, <2>3, PendingKept
    <2>4. CASE scan' = scheduled(scan)
      <3>1. TextOwner(p) => TextOwner(p)'
        BY <2>1, TextOwnerKept
      <3>2. ImageOwner(p)'
        BY <1>0, <2>4, ImageScheduled
      <3> QED
        BY <1>0, <2>2, <3>1, <3>2 DEF PendingAt, RowKept
    <2> QED
      BY <2>3, <2>4
  <1> QED
    BY <1>1, <1>2, PInvFrom

LEMMA BeginsPending ==
  ASSUME IInv, PInv, NEW c \in Clients,
         \/ \E p \in Paths : \/ \E k \in Kinds : putObject(c, p, k)
                             \/ deleteObject(c, p)
                             \/ \E q \in Paths : copyObject(c, p, q)
         \/ reindex(c)
  PROVE  PInv'
  <1>1. CASE \E p \in Paths : \E k \in Kinds : putObject(c, p, k)
    <2>1. PICK p \in Paths, k \in Kinds : putObject(c, p, k)
      BY <1>1
    <2> QED
      BY <2>1, PutDoes, SameTasks, CallKeepsPending DEF Owns, RowKept
  <1>2. CASE \E p \in Paths : deleteObject(c, p)
    <2>1. PICK p \in Paths : deleteObject(c, p)
      BY <1>2
    <2> QED
      BY <2>1, DeleteDoes, SameTasks, CallKeepsPending DEF Owns, RowKept
  <1>3. CASE \E p \in Paths : \E q \in Paths : copyObject(c, p, q)
    <2>1. PICK p \in Paths, q \in Paths : copyObject(c, p, q)
      BY <1>3
    <2> QED
      BY <2>1, CopyDoes, SameTasks, CallKeepsPending DEF Owns, RowKept
  <1>4. CASE reindex(c)
    <2>1. \A p \in Paths : ~Owns(call[c], p)
      BY <1>4, ReindexDoes DEF Owns
    <2> QED
      BY <1>4, <2>1, ReindexDoes, SameTasks, CallKeepsPending
  <1> QED
    BY <1>1, <1>2, <1>3, <1>4

LEMMA UpWhenActive == ASSUME IInv, NEW c \in Clients, call[c].op # "none" PROVE up = "yes"
  BY DEF IInv, CallsNumbered, Active

LEMMA CommitPending ==
  ASSUME IInv, PInv, NEW c \in Clients, createVersion(c) \/ mvCommit(c)
  PROVE  PInv'
  <1>0. call[c].path \in Paths /\ call[c].to \in Paths /\ up = "yes" /\ scan \in ScanType
    BY ZenonT(60), CallTyped, JobsTyped, UpWhenActive DEF createVersion, mvCommit
  <1>1. MigrationShape /\ \A p \in Paths : PendingAt(p)
    BY <1>0, PInvGives
  <1>2. CASE createVersion(c)
    <2>0. /\ call[c].op = "write" /\ call[c].at = "commit" /\ Others(c) /\ SameSlots
          /\ \A p \in Paths \ {call[c].path} : row'[p] = row[p]
          /\ UNCHANGED <<conf, meta, mig, scan, gap>>
      BY <1>2, CreateVersionDoes
    <2>00. /\ call'[c].op = "write" /\ call'[c].at = "index" /\ call'[c].n = call[c].n /\ call'[c].path = call[c].path
           /\ row'[call[c].path].v = call[c].n
      BY <1>2, CreateVersionDoes
    <2>1. Tasks' = Tasks
      BY <2>0, SameTasks
    <2>2. MigrationShape'
      BY <1>1, <2>0, <2>1, ShapeKept
    <2>3. ASSUME NEW p \in Paths PROVE PendingAt(p)'
      <3>1. CASE p = call[c].path
        <4>1. Owed(p)'
          BY <2>00, <3>1 DEF Owed, Owns
        <4> QED
          BY <4>1 DEF PendingAt
      <3>2. CASE p # call[c].path
        <4>1. row'[p] = row[p] /\ ~Owns(call[c], p) /\ Others(c)
          BY <2>0, <3>2 DEF Owns
        <4>2. Owed(p) => Owed(p)'
          BY <4>1, OwedKept
        <4> QED
          BY <1>1, <2>0, <2>1, <4>1, <4>2, PendingKept DEF RowKept
      <3> QED
        BY <3>1, <3>2
    <2> QED
      BY <2>2, <2>3, PInvFrom
  <1>3. CASE mvCommit(c)
    <2>0. /\ call[c].op = "mv" /\ call[c].at = "commit" /\ Others(c) /\ SameSlots
          /\ UNCHANGED <<conf, meta, mig, scan, gap>>
      BY <1>3, MvCommitDoes
    <2>00. \/ row' = row
           \/ /\ \A p \in Paths \ {call[c].to} : row'[p] = row[p]
              /\ call'[c].op = "mv" /\ call'[c].at = "delete" /\ call'[c].n = call[c].n /\ call'[c].to = call[c].to
              /\ row'[call[c].to].v = call[c].n
      BY <1>3, MvCommitDoes
    <2>1. Tasks' = Tasks
      BY <2>0, SameTasks
    <2>2. MigrationShape'
      BY <1>1, <2>0, <2>1, ShapeKept
    <2>3. ASSUME NEW p \in Paths PROVE PendingAt(p)'
      <3>1. CASE p = call[c].to /\ row' # row
        <4>1. Owed(p)'
          BY <2>00, <3>1 DEF Owed, Owns
        <4> QED
          BY <4>1 DEF PendingAt
      <3>2. CASE ~(p = call[c].to /\ row' # row)
        <4>1. row'[p] = row[p] /\ ~Owns(call[c], p) /\ Others(c)
          BY <2>0, <2>00, <3>2 DEF Owns
        <4>2. Owed(p) => Owed(p)'
          BY <4>1, OwedKept
        <4> QED
          BY <1>1, <2>0, <2>1, <4>1, <4>2, PendingKept DEF RowKept
      <3> QED
        BY <3>1, <3>2
    <2> QED
      BY <2>2, <2>3, PInvFrom
  <1> QED
    BY SMTT(40), <1>2, <1>3

(* The write's task, which no other write has. *)
LEMMA IndexEnters ==
  ASSUME IInv, NEW c \in Clients, call[c].op = "write",
         Enter([by |-> "write", path |-> call[c].path, v |-> call[c].n, doc |-> call[c].doc])
  PROVE  Tasks' = Tasks \cup {[by |-> "write", path |-> call[c].path, v |-> call[c].n, doc |-> call[c].doc]}
  <1>1. PICK t : t = [by |-> "write", path |-> call[c].path, v |-> call[c].n, doc |-> call[c].doc]
    OBVIOUS
  <1>2. t \in Task /\ t.by = "write" /\ t.v = call[c].n
    BY <1>1, CallTyped DEF Task
  <1>3. t \notin Tasks
    BY <1>2 DEF IInv, SlotsOK, TasksOwned, Tasks
  <1>4. SlotsBase /\ SlotTypes
    BY DEF IInv, SlotsOK, SlotsBase, SlotTypes, TypeOK
  <1>5. Tasks' = Tasks \cup {t}
    BY <1>1, <1>2, <1>3, <1>4, EnterKeeps
  <1> QED
    BY <1>1, <1>5

LEMMA IndexPending ==
  ASSUME IInv, PInv, NEW c \in Clients, indexForSearch(c)
  PROVE  PInv'
  <1>0. call[c].path \in Paths /\ up = "yes" /\ scan \in ScanType
    BY CallTyped, JobsTyped, UpWhenActive DEF indexForSearch
  <1>1. MigrationShape /\ \A p \in Paths : PendingAt(p)
    BY <1>0, PInvGives
  <1>2. /\ call[c].op = "write" /\ call[c].at = "index" /\ Others(c) /\ call'[c] = Idle
        /\ mig' = mig /\ meta' = meta /\ conf' = conf
    BY IndexDoes
  <1>3. CASE ~isCurrent(call[c].path, call[c].n)
    <2>1. SameSlots /\ UNCHANGED <<row, text, image, scan, gap>>
      BY <1>3, IndexDoes
    <2>2. Tasks' = Tasks
      BY <2>1, SameTasks
    <2>3. MigrationShape'
      BY <1>1, <1>2, <2>2, ShapeKept
    <2>4. ASSUME NEW p \in Paths PROVE PendingAt(p)'
      <3>1. CASE row[p].live = "yes"
        <4>1. ~(Owns(call[c], p) /\ call[c].n = row[p].v)
          BY <1>2, <1>3, <3>1 DEF Owns, isCurrent
        <4>2. Owed(p) => Owed(p)'
          BY <1>2, <2>1, <4>1, OwedKept
        <4> QED
          BY <1>1, <1>2, <2>1, <2>2, <4>2, PendingKept DEF RowKept
      <3>2. CASE row[p].live # "yes"
        BY <2>1, <3>2 DEF PendingAt
      <3> QED
        BY <3>1, <3>2
    <2> QED
      BY <2>3, <2>4, PInvFrom
  <1>4. CASE isCurrent(call[c].path, call[c].n)
    <2>1. PICK t : t = [by |-> "write", path |-> call[c].path, v |-> call[c].n, doc |-> call[c].doc]
      OBVIOUS
    <2>2. /\ \A p \in Paths : RowKept(p)
          /\ \A p \in Paths \ {call[c].path} : row'[p] = row[p] /\ gap'[p] = gap[p]
          /\ row'[call[c].path].image = "pending" => scan' = scheduled(scan)
          /\ scan' = scan \/ scan' = scheduled(scan)
          /\ (row'[call[c].path].text = "null" /\ SameSlots) \/ Enter(t)
      BY <1>4, <2>1, IndexDoes
    <2>3. (row'[call[c].path].text = "null" /\ Tasks' = Tasks) \/ Tasks' = Tasks \cup {t}
      BY <1>2, <2>1, <2>2, SameTasks, IndexEnters
    <2>4. t.by = "write" /\ t.path = call[c].path /\ t.v = call[c].n
      BY <2>1
    <2>5. MigrationShape'
      BY <1>1, <1>2, <2>3, <2>4, ShapeKept
    <2>6. ASSUME NEW p \in Paths PROVE PendingAt(p)'
      <3>1. CASE p = call[c].path
        <4>1. row'[p].v = call[c].n
          BY <1>4, <2>2, <3>1 DEF RowKept, isCurrent
        <4>2. row'[p].text = "pending" => TextOwner(p)'
          <5>1. SUFFICES ASSUME row'[p].text = "pending" PROVE TextOwner(p)'
            OBVIOUS
          <5>2. t \in Tasks'
            BY <2>3, <3>1, <5>1
          <5> QED
            BY <2>4, <3>1, <4>1, <5>2 DEF TextOwner, Tasks
        <4>3. row'[p].image = "pending" => ImageOwner(p)'
          BY <1>0, <2>2, <3>1, ImageScheduled
        <4> QED
          BY <4>2, <4>3 DEF PendingAt
      <3>2. CASE p # call[c].path
        <4>1. row'[p] = row[p] /\ ~Owns(call[c], p) /\ gap'[p] = gap[p] /\ RowKept(p)
          BY <1>2, <2>2, <3>2 DEF Owns
        <4>2. Owed(p) => Owed(p)'
          BY <1>2, <4>1, OwedKept
        <4>3. Tasks \subseteq Tasks'
          BY <2>3
        <4> QED
          BY <1>1, <1>2, <2>2, <4>1, <4>2, <4>3, PendingKept
      <3> QED
        BY <3>1, <3>2
    <2> QED
      BY <2>5, <2>6, PInvFrom
  <1> QED
    BY <1>3, <1>4

(* A step that deletes one path, or settles a move. *)
LEMMA RmPending ==
  ASSUME IInv, PInv, NEW c \in Clients, rm(c) \/ mvDelete(c) \/ mvGone(c)
  PROVE  PInv'
  <1>0. call[c].path \in Paths /\ up = "yes" /\ (call[c].op = "mv" => call[c].path # call[c].to)
    BY CallTyped, UpWhenActive DEF rm, mvDelete, mvGone
  <1>1. MigrationShape /\ \A p \in Paths : PendingAt(p)
    BY <1>0, PInvGives
  <1>2. /\ Others(c) /\ SameSlots /\ UNCHANGED <<conf, meta, mig, scan>>
        /\ \A p \in Paths : row'[p].live = "no" \/ (row'[p] = row[p] /\ gap'[p] = gap[p])
        /\ \A p \in Paths : Owns(call[c], p) => Owns(call[c], p)' /\ call'[c].n = call[c].n
    <2>1. CASE rm(c)
      BY <2>1, <1>0, RmDoes DEF Owns
    <2>2. CASE mvDelete(c)
      BY <2>2, <1>0, MvDeleteDoes DEF Owns
    <2>3. CASE mvGone(c)
      BY <2>3, <1>0, MvGoneDoes DEF Owns
    <2> QED
      BY <2>1, <2>2, <2>3
  <1>3. Tasks' = Tasks
    BY <1>2, SameTasks
  <1>4. MigrationShape'
    BY <1>1, <1>2, <1>3, ShapeKept
  <1>5. ASSUME NEW p \in Paths PROVE PendingAt(p)'
    <2>1. CASE row'[p].live = "no"
      BY <2>1 DEF PendingAt
    <2>2. CASE row'[p] = row[p] /\ gap'[p] = gap[p]
      <3>1. Owed(p) => Owed(p)'
        BY <1>2, <2>2, OwedKept
      <3> QED
        BY <1>1, <1>2, <1>3, <2>2, <3>1, PendingKept DEF RowKept
    <2> QED
      BY <1>2, <2>1, <2>2
  <1> QED
    BY SMTT(40), <1>4, <1>5, PInvFrom

LEMMA MvTailPending ==
  ASSUME IInv, PInv, NEW c \in Clients, mvTail(c)
  PROVE  PInv'
  <1>0. up = "yes" /\ scan \in ScanType
    BY JobsTyped, UpWhenActive DEF mvTail
  <1>1. MigrationShape /\ \A p \in Paths : PendingAt(p)
    BY <1>0, PInvGives
  <1>2. PICK p \in Paths, q \in Paths : p = call[c].path /\ q = call[c].to
    BY CallTyped
  <1>20. MvTailEffect(c, p, q)
    BY <1>2, MvTailDoes
  <1>3. /\ call[c].op = "mv" /\ call[c].at = "tail" /\ Others(c) /\ SameSlots /\ p # q /\ UNCHANGED <<conf, meta, mig>>
        /\ \A r \in Paths : RowKept(r)
        /\ \A r \in Paths \ {p, q} : row'[r] = row[r] /\ gap'[r] = gap[r]
        /\ gap[p] \subseteq gap'[p]
        /\ row'[p].text \in {row[p].text, "null"} /\ row'[p].image \in {row[p].image, "null"}
        /\ scan' = scan \/ scan' = scheduled(scan)
    BY <1>20 DEF MvTailEffect
  <1>4. Tasks' = Tasks
    BY <1>3, SameTasks
  <1>5. MigrationShape'
    BY <1>1, <1>3, <1>4, ShapeKept
  <1>6. ASSUME NEW r \in Paths, ~(Owns(call[c], r) /\ call[c].n = row[r].v) PROVE Owed(r) => Owed(r)'
    BY <1>3, <1>6, OwedKept DEF RowKept
  <1>7. ASSUME NEW r \in Paths PROVE PendingAt(r)'
    <2>1. CASE r = p
      <3>1. ~Owns(call[c], r)
        BY <1>2, <1>3, <2>1 DEF Owns
      <3>2. Owed(r) => Owed(r)'
        BY <1>6, <3>1
      <3>3. RowKept(r) /\ row'[r].v = row[r].v
        BY <1>3 DEF RowKept
      <3>4. TextOwner(r) => TextOwner(r)'
        BY <1>3, <1>4, <2>1, <3>3, TextOwnerKept
      <3>5. ImageOwner(r) => ImageOwner(r)'
        BY <1>0, <1>3, <2>1, <3>3, ImageOwnerKept, ImageScheduled
      <3> QED
        BY <1>1, <1>3, <2>1, <3>2, <3>3, <3>4, <3>5 DEF PendingAt, RowKept
    <2>2. CASE r = q /\ TargetUnchanged(call[c])
      <3>1. row'[r].text = "pending" => "status carried" \in gap'[r]
        BY <1>20, <2>2 DEF MvTailEffect
      <3>2. row'[r].image = "pending" => scan' = scheduled(scan)
        BY <1>20, <2>2 DEF MvTailEffect
      <3>3. row'[r].image = "pending" => ImageOwner(r)'
        BY <1>0, <3>2, ImageScheduled
      <3>4. row'[r].text = "pending" => TextOwner(r)'
        BY <3>1 DEF TextOwner
      <3> QED
        BY <3>3, <3>4 DEF PendingAt
    <2>3. CASE r # p /\ (r = q => ~TargetUnchanged(call[c]))
      <3>1. row'[r] = row[r] /\ gap'[r] = gap[r] /\ RowKept(r)
        BY <1>20, <1>3, <2>3 DEF MvTailEffect
      <3>2. CASE row[r].live = "yes"
        <4>1. ~(Owns(call[c], r) /\ call[c].n = row[r].v)
          BY <1>2, <1>3, <2>3, <3>2 DEF Owns, TargetUnchanged, isCurrent
        <4>2. Owed(r) => Owed(r)'
          BY <1>6, <4>1
        <4> QED
          BY <1>1, <1>3, <1>4, <3>1, <4>2, PendingKept
      <3>3. CASE row[r].live # "yes"
        BY <3>1, <3>3 DEF PendingAt
      <3> QED
        BY <3>2, <3>3
    <2> QED
      BY <2>1, <2>2, <2>3
  <1> QED
    BY SMTT(40), <1>5, <1>7, PInvFrom

LEMMA ReindexPending ==
  ASSUME IInv, PInv, NEW c \in Clients, reindexDone(c) \/ \E r \in call[c].rows : reindexRead(c, r)
  PROVE  PInv'
  <1>1. CASE reindexDone(c)
    <2>1. \A p \in Paths : ~Owns(call[c], p) /\ RowKept(p)
      BY <1>1, ReindexDoneDoes DEF Owns, RowKept
    <2> QED
      BY <1>1, <2>1, ReindexDoneDoes, UpWhenActive, SameTasks, CallKeepsPending
  <1>2. CASE \E r \in call[c].rows : reindexRead(c, r)
    <2>1. PICK r \in call[c].rows : reindexRead(c, r)
      BY <1>2
    <2>2. \A p \in Paths : ~Owns(call[c], p) /\ RowKept(p)
      BY <2>1, ReindexReadDoes DEF Owns, RowKept
    <2>3. Tasks \subseteq Tasks' /\ \A t \in Tasks' : t \in Tasks \/ t.by # "migration"
      BY <2>1, ReindexReadDoes
    <2> QED
      BY <2>1, <2>2, <2>3, ReindexReadDoes, UpWhenActive, CallKeepsPending
  <1> QED
    BY <1>1, <1>2


(* Background steps. *)
LEMMA PendingBehind ==
  ASSUME NEW p \in Paths, PendingAt(p), Backstage,
         row'[p].text = "pending" /\ row[p].live = "yes" =>
            TextOwner(p)' \/ (row[p].text = "pending" /\ (TextOwner(p) => TextOwner(p)')),
         row'[p].image = "pending" /\ row[p].live = "yes" /\ conf.excluded = "no" =>
            ImageOwner(p)' \/ (row[p].image = "pending" /\ (ImageOwner(p) => ImageOwner(p)'))
  PROVE  PendingAt(p)'
  <1>1. RowKept(p) /\ call' = call /\ conf' = conf
    BY DEF Backstage
  <1>2. row'[p].live = row[p].live /\ (Owed(p)' <=> Owed(p))
    BY <1>1, OwedSame DEF RowKept
  <1> QED
    BY <1>1, <1>2 DEF PendingAt

LEMMA NoMigrationTask ==
  ASSUME IInv, mig.at # "embed" PROVE \A t \in Tasks : t.by # "migration"
  BY DEF IInv, SlotsOK, TasksOwned, Tasks

LEMMA ShapeWithout ==
  ASSUME \A t \in Tasks' : t.by # "migration", mig'.at \in {"off", "warmup", "after"} => mig'.rows = {},
         mig'.at = "warmup" => mig'.cursor = 0
  PROVE  MigrationShape'
  BY DEF MigrationShape, Tasks

LEMMA SnapshotIs ==
  ASSUME NEW r \in Snapshot, NEW p \in Paths, r.path = p, r.v = row[p].v PROVE Here(p) = r
  BY DEF Snapshot, Here

LEMMA HereFields == ASSUME NEW p \in Paths PROVE Here(p).path = p /\ Here(p).v = row[p].v
  BY DEF Here

LEMMA HereSame == ASSUME NEW p \in Paths, RowKept(p) PROVE Here(p)' = Here(p)
  BY DEF Here, RowKept

(* A task ends, and its file is no longer pending if the task was its own. *)
LEMMA TaskEndsPending ==
  ASSUME IInv, PInv, NEW t \in running, Leave(t), Resume(t), Backstage, up = "yes",
         \A p \in Paths : row'[p].text = "pending" =>
            row[p].text = "pending" /\ ~(t.by # "image" /\ t.path = p /\ isCurrent(t.path, t.v)),
         \A p \in Paths : row'[p].image = "pending" =>
            row[p].image = "pending" /\ ~(t.by = "image" /\ t.path = p /\ isCurrent(t.path, t.v)),
         \A p \in Paths : gap[p] \ {"foreign format"} \subseteq gap'[p]
  PROVE  PInv'
  <1>0. MigrationShape /\ \A p \in Paths : PendingAt(p)
    BY PInvGives
  <1>1. Tasks' = Tasks \ {t} /\ t \in Tasks /\ meta'.format = meta.format /\ conf' = conf
    BY ResumeDoes DEF Backstage
  <1>2. t.by = "migration" => /\ mig.at = "embed" /\ mig.rows # {} /\ mig'.at = "rows"
                              /\ mig'.rows = mig.rows \ {First(mig)}
                              /\ t.path = First(mig).path /\ t.v = First(mig).v
    BY <1>0, <1>1, ResumeDoes DEF MigrationShape, Tasks
  <1>3. t.by # "migration" => mig' = mig
    BY ResumeDoes
  <1>4. t.by = "image" => /\ scan.at = "embed" /\ scan.rows # {} /\ scan'.at = "rows"
                          /\ t.path = First(scan).path /\ t.v = First(scan).v
                          /\ scan'.rows = scan.rows \ {First(scan)} /\ scan'.rerun = scan.rerun
    BY ResumeDoes
  <1>5. t.by # "image" => scan' = scan
    BY ResumeDoes
  <1>6. /\ mig.rows # {} => First(mig) \in Snapshot
        /\ scan.rows # {} => First(scan) \in Snapshot
    BY JobsTyped, NextRowDoes
  <1>7. MigrationShape'
    <2>1. CASE t.by = "migration"
      <3>1. \A s \in Tasks' : s.by # "migration"
        BY <1>1, <2>1 DEF IInv, SlotsOK, TasksOwned, Tasks
      <3> QED
        BY <1>2, <2>1, <3>1, ShapeWithout
    <2>2. CASE t.by # "migration"
      BY <1>0, <1>1, <1>3, <2>2, ShapeKept
    <2> QED
      BY <2>1, <2>2
  <1>8. ASSUME NEW p \in Paths PROVE PendingAt(p)'
    <2>0. RowKept(p) /\ row'[p].v = row[p].v /\ Here(p)' = Here(p)
      BY HereSame DEF Backstage, RowKept
    <2>1. ASSUME row'[p].text = "pending", row[p].live = "yes", TextOwner(p) PROVE TextOwner(p)'
      <3>1. ~(t.by # "image" /\ t.path = p /\ t.v = row[p].v)
        BY <2>1 DEF isCurrent
      <3>2. CASE t.by # "migration"
        <4>1. \A s \in Tasks : s \in Tasks' \/ s.by = "image" \/ s.path # p \/ s.v # row[p].v
          BY <1>1, <3>1
        <4> QED
          BY <1>3, <2>0, <2>1, <3>2, <4>1, TextOwnerKept
      <3>3. CASE t.by = "migration"
        <4>1. Here(p) # First(mig)
          BY <1>2, <3>1, <3>3, HereFields
        <4>2. Here(p) \in mig.rows => Here(p) \in mig'.rows
          BY <1>2, <3>3, <4>1
        <4>3. \A s \in Tasks : s \in Tasks' \/ s.by = "image" \/ s.path # p \/ s.v # row[p].v
          BY <1>1, <3>1
        <4>4. mig.at # "warmup" /\ mig.at # "rows"
          BY <1>2, <3>3
        <4>5. gap[p] \cap {"status carried", "not migrated", "left pending"} \subseteq gap'[p]
          OBVIOUS
        <4> QED
          BY <2>0, <2>1, <4>2, <4>3, <4>4, <4>5 DEF TextOwner, Tasks
      <3> QED
        BY <3>2, <3>3
    <2>2. ASSUME row'[p].image = "pending", row[p].live = "yes", ImageOwner(p) PROVE ImageOwner(p)'
      <3>1. ~(t.by = "image" /\ t.path = p /\ t.v = row[p].v)
        BY <2>2 DEF isCurrent
      <3>2. mig.at # "off" => mig'.at # "off"
        BY <1>2, <1>3
      <3>3. NewFormat' <=> NewFormat
        BY <1>1 DEF NewFormat
      <3>4. CASE t.by # "image"
        BY <1>5, <2>0, <2>2, <3>2, <3>3, <3>4 DEF ImageOwner
      <3>5. CASE t.by = "image"
        <4>1. Here(p) # First(scan)
          BY <1>4, <3>1, <3>5, HereFields
        <4>2. Here(p) \in scan.rows => Here(p) \in scan'.rows
          BY <1>4, <3>5, <4>1
        <4> QED
          BY <1>4, <2>0, <2>2, <3>2, <3>3, <3>5, <4>2 DEF ImageOwner
      <3> QED
        BY <3>4, <3>5
    <2> QED
      BY <1>0, <2>1, <2>2, PendingBehind
  <1> QED
    BY <1>7, <1>8, PInvFrom

LEMMA EmbeddedPending == ASSUME IInv, PInv, NEW t \in running, embedded(t) PROVE PInv'
  <1>0. Leave(t) /\ Resume(t) /\ Backstage /\ up = "yes" /\ t.path \in Paths
    BY EmbeddedDoes
  <1>1. ASSUME NEW p \in Paths
        PROVE  /\ row'[p].text = "pending" => row[p].text = "pending" /\ ~(t.by # "image" /\ t.path = p /\ isCurrent(t.path, t.v))
               /\ row'[p].image = "pending" => row[p].image = "pending" /\ ~(t.by = "image" /\ t.path = p /\ isCurrent(t.path, t.v))
               /\ gap[p] \ {"foreign format"} \subseteq gap'[p]
    <2>1. CASE p # t.path \/ ~isCurrent(t.path, t.v)
      <3>1. row'[p] = row[p] /\ gap'[p] = gap[p]
        BY <2>1, EmbeddedDoes
      <3> QED
        BY <2>1, <3>1
    <2>2. CASE p = t.path /\ isCurrent(t.path, t.v) /\ t.by = "image"
      <3>1. row'[p].image = "indexed" /\ row'[p].text = row[p].text /\ gap'[p] = gap[p]
        BY <2>2, EmbeddedDoes
      <3> QED
        BY <2>2, <3>1
    <2>3. CASE p = t.path /\ isCurrent(t.path, t.v) /\ t.by # "image"
      <3>1. /\ row'[p].text \in {"indexed", "skipped", "null"} /\ row'[p].image = row[p].image
            /\ gap'[p] = (gap[p] \ {"foreign format"}) \cup IF NewFormat THEN {"foreign format"} ELSE {}
        BY <2>3, EmbeddedDoes
      <3> QED
        BY <2>3, <3>1
    <2> QED
      BY <2>1, <2>2, <2>3
  <1> QED
    BY <1>0, <1>1, TaskEndsPending

LEMMA FailedPending == ASSUME IInv, PInv, NEW t \in running, failed(t) PROVE PInv'
  <1>0. Leave(t) /\ Resume(t) /\ Backstage /\ up = "yes" /\ t.path \in Paths /\ gap' = gap
    BY FailedDoes
  <1>1. ASSUME NEW p \in Paths
        PROVE  /\ row'[p].text = "pending" => row[p].text = "pending" /\ ~(t.by # "image" /\ t.path = p /\ isCurrent(t.path, t.v))
               /\ row'[p].image = "pending" => row[p].image = "pending" /\ ~(t.by = "image" /\ t.path = p /\ isCurrent(t.path, t.v))
    <2>1. CASE p # t.path \/ ~isCurrent(t.path, t.v)
      <3>1. row'[p] = row[p]
        BY <2>1, FailedDoes
      <3> QED
        BY <2>1, <3>1
    <2>2. CASE p = t.path /\ isCurrent(t.path, t.v) /\ t.by = "image"
      <3>1. row'[p].image = "failed" /\ row'[p].text = row[p].text
        BY <2>2, FailedDoes
      <3> QED
        BY <2>2, <3>1
    <2>3. CASE p = t.path /\ isCurrent(t.path, t.v) /\ t.by # "image"
      <3>1. row'[p].text = "failed" /\ row'[p].image = row[p].image
        BY <2>3, FailedDoes
      <3> QED
        BY <2>3, <3>1
    <2> QED
      BY <2>1, <2>2, <2>3
  <1> QED
    BY <1>0, <1>1, TaskEndsPending

LEMMA InitFailedPending == ASSUME IInv, PInv, NEW t \in running, initFailed(t) PROVE PInv'
  <1>1. /\ Backstage /\ up = "yes" /\ Tasks' = Tasks \ {t} /\ t.by = "image" /\ mig' = mig /\ row' = row
        /\ \A p \in Paths : gap[p] \subseteq gap'[p] /\ (row[p].image = "pending" => "images stopped" \in gap'[p])
    BY InitFailedDoes
  <1>2. MigrationShape /\ \A p \in Paths : PendingAt(p)
    BY <1>1, PInvGives
  <1>3. MigrationShape'
    BY <1>1, <1>2, ShapeKept
  <1>4. ASSUME NEW p \in Paths PROVE PendingAt(p)'
    <2>1. TextOwner(p) => TextOwner(p)'
      BY <1>1, TextOwnerKept
    <2>2. row'[p].image = "pending" => ImageOwner(p)'
      BY <1>1 DEF ImageOwner
    <2> QED
      BY <1>1, <1>2, <2>1, <2>2, PendingBehind
  <1> QED
    BY <1>3, <1>4, PInvFrom

LEMMA PInvBehind ==
  ASSUME PInv, up = "yes", Backstage, MigrationShape',
         \A p \in Paths : row[p].live = "yes" /\ row'[p].text = "pending" =>
            TextOwner(p)' \/ (row[p].text = "pending" /\ (TextOwner(p) => TextOwner(p)')),
         \A p \in Paths : row[p].live = "yes" /\ row'[p].image = "pending" /\ conf.excluded = "no" =>
            ImageOwner(p)' \/ (row[p].image = "pending" /\ (ImageOwner(p) => ImageOwner(p)'))
  PROVE  PInv'
  <1>1. \A p \in Paths : PendingAt(p)
    BY PInvGives
  <1>2. \A p \in Paths : PendingAt(p)'
    BY <1>1, PendingBehind
  <1> QED
    BY <1>2, PInvFrom

LEMMA WarmedUpPending == ASSUME IInv, PInv, warmedUp \/ warmupFailed PROVE PInv'
  <1>1. MigrationShape /\ up = "yes" /\ mig.at = "warmup" /\ Backstage /\ SameSlots
    BY WarmedUpDoes, WarmupFailedDoes, PInvGives
  <1>2. \A t \in Tasks' : t.by # "migration"
    BY <1>1, NoMigrationTask, SameTasks
  <1>3. mig'.rows = {} /\ mig'.at \in {"rows", "after"}
    BY <1>1, WarmedUpDoes, WarmupFailedDoes DEF MigrationShape
  <1>4. MigrationShape'
    BY <1>2, <1>3, ShapeWithout
  <1>5. \A p \in Paths : ImageOwner(p)'
    BY <1>3 DEF ImageOwner
  <1>6. ASSUME NEW p \in Paths PROVE TextOwner(p)'
    <2>1. CASE warmedUp
      <3>1. mig'.at = "rows" /\ mig'.cursor = 0
        BY <1>1, <2>1, WarmedUpDoes DEF MigrationShape
      <3>2. mig'.cursor < p
        BY <3>1 DEF Paths
      <3> QED
        BY <1>3, <3>1, <3>2 DEF TextOwner
    <2>2. CASE warmupFailed
      <3>1. "not migrated" \in gap'[p]
        BY <2>2, WarmupFailedDoes
      <3> QED
        BY <3>1 DEF TextOwner
    <2> QED
      BY <2>1, <2>2
  <1> QED
    BY <1>1, <1>4, <1>5, <1>6, PInvBehind

LEMMA MigrationSelectPending == ASSUME IInv, PInv, migrationSelect PROVE PInv'
  <1>1. /\ Backstage /\ up = "yes" /\ SameSlots /\ mig.at = "rows" /\ mig.rows = {}
        /\ row' = row /\ gap' = gap
        /\ mig'.at \in {"rows", "after"} /\ (mig'.at = "after" => mig'.rows = {})
        /\ \A p \in Paths : row[p].live = "yes" /\ row[p].text = "pending" /\ mig.cursor < p => Here(p) \in mig'.rows
    BY MigrationSelectDoes
  <1>2. Tasks' = Tasks
    BY <1>1, SameTasks
  <1>3. MigrationShape'
    BY <1>1, <1>2, NoMigrationTask, ShapeWithout
  <1>4. \A p \in Paths : ImageOwner(p)'
    BY <1>1 DEF ImageOwner
  <1>5. ASSUME NEW p \in Paths, row[p].live = "yes", row'[p].text = "pending", TextOwner(p) PROVE TextOwner(p)'
    <2>1. Here(p)' = Here(p)
      BY <1>1 DEF Here
    <2>2. mig.cursor < p => Here(p) \in mig'.rows
      BY <1>1, <1>5
    <2> QED
      BY <1>1, <1>2, <1>5, <2>1, <2>2 DEF TextOwner, Tasks
  <1> QED
    BY <1>1, <1>3, <1>4, <1>5, PInvBehind

LEMMA MigrationRowPending == ASSUME IInv, PInv, migrationRead \/ migrationExtract PROVE PInv'
  <1>1. /\ Backstage /\ up = "yes" /\ mig.at \in {"rows", "extract"} /\ mig.rows # {} /\ gap' = gap
        /\ \A p \in Paths : TextDropped(p)
    BY MigrationReadDoes, MigrationExtractDoes
  <1>2. PICK f : f = First(mig)
    OBVIOUS
  <1>3. \A t \in Tasks : t.by # "migration"
    BY <1>1, NoMigrationTask
  <1>4. \/ /\ mig' = NextRow(mig) /\ SameSlots
           /\ \A p \in Paths : row[p].live = "yes" /\ Here(p) = f => row'[p].text # "pending"
        \/ mig'.at = "extract" /\ mig'.rows = mig.rows /\ SameSlots
        \/ /\ mig'.at = "embed" /\ mig'.rows = mig.rows
           /\ \E d : Tasks' = Tasks \cup {[by |-> "migration", path |-> f.path, v |-> f.v, doc |-> d]}
    BY <1>2, MigrationReadDoes, MigrationExtractDoes
  <1>5. mig' = NextRow(mig) => mig'.at = "rows" /\ mig'.rows = mig.rows \ {f}
    BY <1>1, <1>2, JobsTyped, NextRowDoes
  <1>6. Tasks \subseteq Tasks' /\ mig'.at \notin {"off", "warmup", "after"} /\ mig.at \in {"rows", "extract"}
    BY <1>1, <1>4, <1>5, SameTasks
  <1>7. MigrationShape'
    <2>1. CASE Tasks' = Tasks
      BY <1>3, <1>6, <2>1, ShapeWithout
    <2>2. CASE Tasks' # Tasks
      <3>1. /\ mig'.rows = mig.rows
            /\ \E d : Tasks' = Tasks \cup {[by |-> "migration", path |-> f.path, v |-> f.v, doc |-> d]}
        BY <1>4, <2>2, SameTasks
      <3>2. First(mig') = f
        BY <1>2, <3>1, FirstSame
      <3>3. \A t \in Tasks' : t.by = "migration" => t.path = f.path /\ t.v = f.v
        BY <1>3, <3>1
      <3> QED
        BY <1>6, <3>2, <3>3 DEF MigrationShape, Tasks
    <2> QED
      BY <2>1, <2>2
  <1>8. \A p \in Paths : ImageOwner(p)'
    BY <1>6 DEF ImageOwner
  <1>9. ASSUME NEW p \in Paths, row[p].live = "yes", row'[p].text = "pending"
        PROVE  row[p].text = "pending" /\ (TextOwner(p) => TextOwner(p)')
    <2>1. row[p].text = "pending" /\ row'[p].v = row[p].v /\ Here(p)' = Here(p)
      BY <1>1, <1>9, HereSame DEF TextDropped, RowKept
    <2>2. Here(p) \in mig.rows => Here(p) \in mig'.rows
      BY <1>4, <1>5, <1>9
    <2>3. mig.at = "rows" => mig.rows # {}
      BY <1>1
    <2> QED
      BY <1>1, <1>6, <2>1, <2>2, <2>3 DEF TextOwner, Tasks
  <1> QED
    BY <1>1, <1>7, <1>8, <1>9, PInvBehind

LEMMA AfterMigrationPending == ASSUME IInv, PInv, afterMigration PROVE PInv'
  <1>1. /\ Backstage /\ up = "yes" /\ SameSlots /\ mig.at = "after" /\ mig'.at = "off" /\ mig'.rows = {}
        /\ gap' = gap /\ meta'.format = meta.format
        /\ \A p \in Paths : row'[p].text = row[p].text
    BY AfterMigrationDoes
  <1>2. \/ NewFormat
        \/ scan' = scheduled(scan)
        \/ \A p \in Paths : ~(row'[p].live = "yes" /\ row'[p].image = "pending" /\ conf.excluded = "no")
    BY AfterMigrationDoes
  <1>3. Tasks' = Tasks /\ MigrationShape /\ mig.rows = {}
    BY <1>1, SameTasks, PInvGives DEF MigrationShape
  <1>4. MigrationShape'
    BY <1>1, <1>3, NoMigrationTask, ShapeWithout
  <1>5. ASSUME NEW p \in Paths, TextOwner(p) PROVE TextOwner(p)'
    <2>1. row'[p].v = row[p].v
      BY <1>1 DEF Backstage, RowKept
    <2> QED
      BY <1>1, <1>3, <1>5, <2>1 DEF TextOwner, Tasks
  <1>6. ASSUME NEW p \in Paths, row[p].live = "yes", row'[p].image = "pending", conf.excluded = "no" PROVE ImageOwner(p)'
    <2>1. row'[p].live = "yes" /\ conf' = conf
      BY <1>1, <1>6 DEF Backstage, RowKept
    <2>2. CASE NewFormat
      BY <1>1, <2>1, <2>2 DEF ImageOwner, NewFormat
    <2>3. CASE scan' = scheduled(scan)
      BY <2>3, JobsTyped, ImageScheduled
    <2> QED
      BY <1>2, <1>6, <2>1, <2>2, <2>3
  <1> QED
    BY <1>1, <1>4, <1>5, <1>6, PInvBehind

LEMMA ImageJobPending == ASSUME IInv, PInv, imageSlot \/ imageSelect \/ imageRow \/ embedImageFile PROVE PInv'
  <1>1. /\ Backstage /\ up = "yes" /\ mig' = mig /\ gap' = gap /\ meta'.format = meta.format
        /\ \A p \in Paths : row'[p].text = row[p].text
    BY ImageSlotDoes, ImageSelectDoes, ImageRowDoes, EmbedImageDoes
  <1>2. Tasks \subseteq Tasks' /\ \A t \in Tasks' : t \in Tasks \/ t.by # "migration"
    BY ImageSlotDoes, ImageSelectDoes, ImageRowDoes, EmbedImageDoes, SameTasks
  <1>3. MigrationShape'
    BY <1>1, <1>2, PInvGives, ShapeKept
  <1>4. ASSUME NEW p \in Paths, TextOwner(p) PROVE TextOwner(p)'
    <2>1. row'[p].v = row[p].v
      BY <1>1 DEF Backstage, RowKept
    <2> QED
      BY <1>1, <1>2, <1>4, <2>1, TextOwnerKept
  <1>5. ASSUME NEW p \in Paths, row[p].live = "yes", row'[p].image = "pending", conf.excluded = "no"
        PROVE  ImageOwner(p)' \/ (row[p].image = "pending" /\ (ImageOwner(p) => ImageOwner(p)'))
    <2>0. Here(p)' = Here(p) /\ (NewFormat' <=> NewFormat)
      BY <1>1, HereSame DEF Backstage, NewFormat
    <2>1. CASE imageSlot
      <3>1. scan'.rows = {} /\ (NewFormat \/ (scan'.at = "rows" /\ scan'.cursor = 0))
        BY <2>1, ImageSlotDoes
      <3>2. 0 < p
        BY DEF Paths
      <3> QED
        BY <2>0, <3>1, <3>2 DEF ImageOwner
    <2>2. CASE imageSelect
      <3>1. row' = row /\ scan.at = "rows" /\ scan.rows = {} /\ (scan.rerun = "yes" => scan'.rerun = "yes" \/ scan'.at = "wait")
        BY <2>2, ImageSelectDoes
      <3>2. scan.cursor < p => scan'.at = "rows" /\ Here(p) \in scan'.rows
        BY <1>5, <2>2, <3>1, ImageSelectDoes
      <3> QED
        BY <1>1, <1>5, <2>0, <3>1, <3>2 DEF ImageOwner
    <2>3. CASE imageRow \/ embedImageFile
      <3>1. scan.at \in {"rows", "read"} /\ scan.rows # {} /\ row[p].image = "pending"
        BY <1>5, <2>3, ImageRowDoes, EmbedImageDoes
      <3>2. \/ scan' = NextRow(scan) /\ Here(p) # First(scan)
            \/ scan'.at \in {"read", "embed"} /\ scan'.rows = scan.rows /\ scan'.rerun = scan.rerun
        BY <1>5, <2>3, ImageRowDoes, EmbedImageDoes
      <3>3. scan' = NextRow(scan) => scan'.at = "rows" /\ scan'.rows = scan.rows \ {First(scan)} /\ scan'.rerun = scan.rerun
        BY <3>1, JobsTyped, NextRowDoes
      <3>4. (Here(p) \in scan.rows => Here(p) \in scan'.rows) /\ scan'.at \in {"rows", "read", "embed"} /\ scan'.rerun = scan.rerun
        BY <3>2, <3>3
      <3> QED
        BY <1>1, <2>0, <3>1, <3>4 DEF ImageOwner
    <2> QED
      BY <2>1, <2>2, <2>3
  <1> QED
    BY <1>1, <1>3, <1>4, <1>5, PInvBehind

LEMMA RestartPending == ASSUME IInv, PInv, Crash \/ \E s \in Settings : Boot(s) PROVE PInv'
  <1>1. CASE Crash
    <2>1. up' = "no" /\ Tasks' = {} /\ mig' = Stopped
      BY <1>1, CrashDoes
    <2>2. MigrationShape'
      BY <2>1, ShapeWithout DEF Stopped
    <2> QED
      BY <2>1, <2>2 DEF PInv, PendingOwned
  <1>2. CASE \E s \in Settings : Boot(s)
    <2>1. PICK s \in Settings : Boot(s)
      BY <1>2
    <2>2. up = "no" /\ Tasks' = Tasks /\ mig'.at = "warmup" /\ mig'.rows = {} /\ mig'.cursor = 0
      BY <2>1, BootDoes
    <2>3. mig.at # "embed"
      BY <2>2 DEF IInv, MarkerExact, Stopped
    <2>4. MigrationShape'
      BY <2>2, <2>3, NoMigrationTask, ShapeWithout
    <2>5. \A p \in Paths : TextOwner(p)' /\ ImageOwner(p)'
      BY <2>2 DEF TextOwner, ImageOwner
    <2> QED
      BY <2>4, <2>5 DEF PInv, PendingOwned
  <1> QED
    BY <1>1, <1>2

(* Who owns p touches it, and the calls that go on keep what they own. *)
LEMMA OwedWeaker ==
  ASSUME NEW c \in Clients, NEW p \in Paths, row' = row, ~Touches(c, p), \A d \in Clients \ {c} : Weaker(d), Owed(p)
  PROVE  Owed(p)'
  <1>1. PICK d \in Clients : Owns(call[d], p) /\ call[d].n = row[p].v
    BY DEF Owed
  <1>2. d # c
    BY <1>1 DEF Owns, Touches
  <1> QED
    BY <1>1, <1>2 DEF Owed, Owns, Weaker

LEMMA CallFailedPending == ASSUME IInv, PInv, NEW c \in Clients, callFailed(c) PROVE PInv'
  <1>1. /\ \A d \in Clients \ {c} : Weaker(d)
        /\ \A p \in Paths : /\ gap[p] \subseteq gap'[p]
                            /\ Touches(c, p) => {"interrupted", "left pending"} \subseteq gap'[p]
        /\ UNCHANGED <<up, conf, meta, row, slots, mig, scan>>
    BY CallFailedDoes DEF IInv
  <1>2. Tasks' = Tasks
    BY <1>1 DEF Tasks, Waiters, slots
  <1>3. MigrationShape'
    BY <1>1, <1>2 DEF PInv, MigrationShape, Tasks
  <1>4. CASE up = "no"
    BY <1>1, <1>3, <1>4 DEF PInv, PendingOwned
  <1>5. CASE up # "no"
    <2>1. \A p \in Paths : PendingAt(p)
      BY <1>5, PInvGives DEF IInv, TypeOK
    <2>2. ASSUME NEW p \in Paths PROVE PendingAt(p)'
      <3>1. CASE Touches(c, p)
        BY <1>1, <3>1 DEF PendingAt, TextOwner, ImageOwner
      <3>2. CASE ~Touches(c, p)
        <4>1. Owed(p) => Owed(p)'
          BY <1>1, <3>2, OwedWeaker
        <4> QED
          BY <1>1, <1>2, <2>1, <4>1, PendingKept DEF RowKept
      <3> QED
        BY <3>1, <3>2
    <2> QED
      BY <1>3, <2>2, PInvFrom
  <1> QED
    BY <1>4, <1>5

LEMMA InitPending == ASSUME Init PROVE PInv
  <1>1. up = "no" /\ Tasks = {} /\ mig = Stopped
    BY DEF Init, Tasks, Waiters
  <1> QED
    BY <1>1 DEF PInv, PendingOwned, MigrationShape, Tasks, Stopped

LEMMA StutterPending == ASSUME PInv, UNCHANGED vars PROVE PInv'
  <1>1. UNCHANGED <<up, conf, meta, row, call, running, queue, mig, scan, gap>>
    BY DEF vars
  <1>2. Tasks' = Tasks
    BY <1>1 DEF Tasks, Waiters
  <1>3. MigrationShape'
    BY <1>1, <1>2 DEF PInv, MigrationShape, Tasks
  <1>4. PendingOwned'
    BY <1>1, <1>2 DEF PInv, PendingOwned, Owed, Owns, TextOwner, ImageOwner, Tasks, Here, NewFormat
  <1> QED
    BY <1>3, <1>4 DEF PInv

LEMMA NextPending == ASSUME IInv, PInv, [Next]_vars PROVE PInv'
  <1>1. ASSUME Clientele PROVE PInv'
    BY <1>1, BeginsPending, CommitPending, IndexPending, RmPending, MvTailPending, ReindexPending DEF Clientele
  <1>2. ASSUME Background PROVE PInv'
    BY <1>2, EmbeddedPending, WarmedUpPending, MigrationSelectPending, MigrationRowPending, AfterMigrationPending,
       ImageJobPending DEF Background
  <1>3. ASSUME Faults PROVE PInv'
    BY <1>3, FailedPending, InitFailedPending, WarmedUpPending, CallFailedPending, RestartPending DEF Faults
  <1> QED
    BY <1>1, <1>2, <1>3, RestartPending, StutterPending DEF Next

(* The rows of the migration and of the image job that a pending file is in,  *)
(* or the scan that has yet to reach it (runEmbeddingMigration,               *)
(* scheduleImageEmbeddings), keep track of every pending file.                *)
THEOREM PendingInvariant == Spec => []PInv
  <1>1. Init => PInv
    BY InitPending
  <1>2. IInv /\ PInv /\ [Next]_vars => PInv'
    BY NextPending
  <1> QED
    BY <1>1, <1>2, InvariantHolds, PTL DEF Spec

LEMMA QueueRange == ASSUME IInv PROVE Range(queue) = Waiters
  <1>1. queue \in Seq(Task)
    BY DEF IInv, TypeOK
  <1> QED
    BY <1>1 DEF Range, Waiters

LEMMA PendingOwners == ASSUME IInv, PInv PROVE PendingHasOwner
  <1> SUFFICES ASSUME up = "yes", NEW p \in Paths, row[p].live = "yes", ~InFlight(p)
               PROVE  /\ row[p].text = "pending" =>
                             \/ \E t \in running \cup Waiters : t.by # "image" /\ t.path = p /\ t.v = row[p].v
                             \/ mig.at = "warmup"
                             \/ mig.at # "off" /\ (mig.cursor < p \/ [path |-> p, v |-> row[p].v] \in mig.rows)
                             \/ gap[p] \cap {"status carried", "not migrated", "left pending"} # {}
                      /\ row[p].image = "pending" /\ conf.excluded = "no" =>
                             \/ mig.at # "off" \/ scan.rerun = "yes" \/ scan.at = "wait" \/ NewFormat
                             \/ scan.at # "off" /\ (scan.cursor < p \/ [path |-> p, v |-> row[p].v] \in scan.rows)
                             \/ gap[p] \cap {"images stopped", "left pending"} # {}
    BY QueueRange DEF PendingHasOwner
  <1>1. ~Owed(p)
    BY DEF Owed, Owns, InFlight, Touches
  <1>2. PendingAt(p) /\ MigrationShape
    BY PInvGives
  <1>3. mig.rows # {} => mig.at # "off"
    BY <1>2 DEF MigrationShape
  <1>4. ASSUME row[p].text = "pending"
        PROVE  \/ \E t \in running \cup Waiters : t.by # "image" /\ t.path = p /\ t.v = row[p].v
               \/ mig.at = "warmup"
               \/ mig.at # "off" /\ (mig.cursor < p \/ [path |-> p, v |-> row[p].v] \in mig.rows)
               \/ gap[p] \cap {"status carried", "not migrated", "left pending"} # {}
    <2>1. TextOwner(p)
      BY <1>1, <1>2, <1>4 DEF PendingAt
    <2> QED
      BY <1>3, <2>1 DEF TextOwner, Here
  <1>5. ASSUME row[p].image = "pending", conf.excluded = "no"
        PROVE  \/ mig.at # "off" \/ scan.rerun = "yes" \/ scan.at = "wait" \/ NewFormat
               \/ scan.at # "off" /\ (scan.cursor < p \/ [path |-> p, v |-> row[p].v] \in scan.rows)
               \/ gap[p] \cap {"images stopped", "left pending"} # {}
    <2>1. ImageOwner(p)
      BY <1>1, <1>2, <1>5 DEF PendingAt
    <2> QED
      BY <2>1 DEF ImageOwner, Here
  <1> QED
    BY <1>4, <1>5

(* No pending file is forgotten: its text has a task, a place in the          *)
(* migration's batch or lies beyond its cursor, its images likewise with the  *)
(* image job (or a request to scan again), unless a carried status, a failed  *)
(* warmup, a stopped image job or a call that failed after its commit leaves  *)
(* it to the next start (search-index.ts, embedding-migration.ts,             *)
(* image-embedding.ts, mv.ts).                                                *)
THEOREM PendingIsOwned == Spec => []PendingHasOwner
  <1>1. IInv /\ PInv => PendingHasOwner
    BY PendingOwners
  <1> QED
    BY <1>1, InvariantHolds, PendingInvariant, PTL
-----------------------------------------------------------------------------
(* Numbers, contents and moves. *)

LEMMA VersionsNat == ASSUME NEW v \in Versions PROVE v \in Nat
  BY BoundAssumption DEF Versions

LEMMA UnseenKept ==
  ASSUME calls \in Nat, calls' \in Nat, calls <= calls', NEW p, NEW v \in Nat, Unseen(p, v),
         \A c \in Clients : WillCommit(call[c], p)' =>
            (WillCommit(call[c], p) /\ call'[c].n = call[c].n) \/ call'[c].n = calls + 1
  PROVE  Unseen(p, v)'
  <1>1. v <= calls' /\ v # calls + 1
    BY DEF Unseen
  <1> QED
    BY <1>1 DEF Unseen

LEMMA NumbersKept ==
  ASSUME IInv, IInv', calls <= calls',
         \A c \in Clients, p \in Paths : WillCommit(call[c], p)' =>
            (WillCommit(call[c], p) /\ call'[c].n = call[c].n) \/ call'[c].n = calls + 1,
         \A p \in Paths : Unseen(p, row[p].v)' \/ Unseen(p, row'[p].v),
         \A r \in mig'.rows \cup scan'.rows : Unseen(r.path, r.v),
         \A c \in Clients : \A r \in call'[c].rows : Unseen(r.path, r.v),
         \A t \in Tasks' : Unseen(t.path, t.v)
  PROVE  NumbersUnseen'
  <1>0. calls \in Nat /\ calls' \in Nat
    BY DEF IInv, TypeOK
  <1>1. ASSUME NEW p \in Paths, NEW v \in Nat, Unseen(p, v) PROVE Unseen(p, v)'
    BY <1>0, <1>1, UnseenKept
  <1>2. ASSUME NEW p \in Paths PROVE Unseen(p, row[p].v)'
    <2>1. row'[p].v \in Nat
      BY VersionsNat DEF IInv, TypeOK, Row
    <2> QED
      BY <1>1, <2>1
  <1>3. ASSUME NEW r \in Snapshot, Unseen(r.path, r.v) PROVE Unseen(r.path, r.v)'
    BY <1>1, <1>3, VersionsNat DEF Snapshot
  <1>4. mig'.rows \subseteq Snapshot /\ scan'.rows \subseteq Snapshot /\ \A c \in Clients : call'[c].rows \subseteq Snapshot
    BY DEF IInv, TypeOK, Call
  <1>5. ASSUME NEW t \in Tasks' PROVE Unseen(t.path, t.v)'
    <2>1. Tasks' \subseteq Task
      <3>1. running' \subseteq Task /\ queue' \in Seq(Task)
        BY DEF IInv, TypeOK
      <3>2. Waiters' \subseteq Task
        BY <3>1 DEF Waiters
      <3> QED
        BY <3>1, <3>2 DEF Tasks
    <2>2. t.path \in Paths /\ t.v \in Nat
      BY <2>1, VersionsNat DEF Task
    <2> QED
      BY <1>1, <2>2
  <1>6. \A r \in mig'.rows \cup scan'.rows : Unseen(r.path, r.v)'
    BY <1>3, <1>4
  <1>7. \A c \in Clients : \A r \in call'[c].rows : Unseen(r.path, r.v)'
    BY <1>3, <1>4
  <1> QED
    BY <1>2, <1>5, <1>6, <1>7 DEF NumbersUnseen, Tasks

(* A call in progress makes a step: it may commit its number at one path. *)
Goes(d) ==
  /\ Others(d) /\ call[d].op # "none" /\ calls' = calls
  /\ \A p \in Paths : Touches(d, p)' =>
        /\ Touches(d, p) /\ call'[d].n = call[d].n
        /\ WillCommit(call[d], p) => WillCommit(call[d], p)' \/ row'[p].v = call[d].n
  /\ \A p \in Paths : WillCommit(call[d], p)' => WillCommit(call[d], p) /\ call'[d].n = call[d].n /\ RowKept(p)
  /\ \A p \in Paths : \/ RowKept(p)
                      \/ /\ row'[p].v = call[d].n /\ WillCommit(call[d], p) /\ Touches(d, p)
                         /\ row'[p].live = "no" => row'[p].doc = NoDoc
  /\ call'[d].rows \subseteq call[d].rows
  /\ Undisturbed(d)' => ~Overlapped(d) /\ call'[d].path = call[d].path
  /\ \A p \in Paths : Owns(call[d], p)' /\ call'[d].n = row'[p].v => row'[p].doc = call'[d].doc
  /\ Moves(call[d])' => /\ call'[d].doc.id # 0 /\ call'[d].seen <= calls
                        /\ mig'.at = "warmup" => call'[d].format = meta'.format
  /\ call'[d].op = "mv" /\ call'[d].at = "tail" => call[d].at = "gone" /\ ~RowKept(call[d].path) /\ call'[d].path = call[d].path
  /\ Taking(d)' => ~Overlapped(d)

LEMMA GoesNumbers ==
  ASSUME IInv, IInv', NumbersUnseen, NEW d \in Clients, Goes(d), mig'.rows = mig.rows, scan'.rows = scan.rows,
         \A t \in Tasks' : t \in Tasks \/ Unseen(t.path, t.v)
  PROVE  NumbersUnseen'
  <1>0. Others(d) /\ calls' = calls /\ calls \in Nat /\ call[d].op # "none" /\ call'[d].rows \subseteq call[d].rows
    BY SMTT(40) DEF Goes, IInv, TypeOK
  <1>1. ASSUME NEW c \in Clients, NEW p \in Paths, WillCommit(call[c], p)'
        PROVE  WillCommit(call[c], p) /\ call'[c].n = call[c].n
    <2>1. CASE c = d
      BY <1>1, <2>1 DEF Goes
    <2>2. CASE c # d
      <3>1. call'[c] = call[c]
        BY <1>0, <2>2 DEF Others
      <3> QED
        BY <1>1, <3>1 DEF WillCommit, Replaces, Arrives
    <2> QED
      BY <2>1, <2>2
  <1>2. ASSUME NEW p \in Paths PROVE Unseen(p, row[p].v)' \/ Unseen(p, row'[p].v)
    <2>1. CASE RowKept(p)
      BY <2>1 DEF NumbersUnseen, RowKept
    <2>2. CASE ~RowKept(p)
      <3>1. row'[p].v = call[d].n /\ ~WillCommit(call[d], p)'
        BY <2>2 DEF Goes
      <3>2. call[d].n <= calls' /\ \A c \in Clients \ {d} : call[c].op # "none" => call[c].n # call[d].n
        BY <1>0 DEF IInv, CallsNumbered, Active
      <3>3. ASSUME NEW c \in Clients, WillCommit(call[c], p)' PROVE call'[c].n # call[d].n
        <4>1. c # d /\ call'[c] = call[c]
          BY <1>0, <3>1, <3>3 DEF Others
        <4>2. call[c].op # "none"
          BY <3>3, <4>1 DEF WillCommit, Replaces, Arrives
        <4> QED
          BY <3>2, <4>1, <4>2
      <3> QED
        BY <3>1, <3>2, <3>3 DEF Unseen
    <2> QED
      BY <2>1, <2>2
  <1>3. \A c \in Clients : \A r \in call'[c].rows : Unseen(r.path, r.v)
    BY <1>0 DEF NumbersUnseen, Others
  <1>4. \A t \in Tasks' : Unseen(t.path, t.v)
    BY DEF NumbersUnseen, Tasks
  <1>5. \A r \in mig'.rows \cup scan'.rows : Unseen(r.path, r.v)
    BY DEF NumbersUnseen
  <1> QED
    BY <1>0, <1>1, <1>2, <1>3, <1>4, <1>5, NumbersKept

LEMMA GoesDocs ==
  ASSUME IInv, IInv', DocsCarried, NEW d \in Clients, Goes(d), mig' = mig, meta' = meta,
         \A p \in Paths : obj'[p] = NoDoc \/ obj'[p] = obj[p]
  PROVE  DocsCarried'
  <1>0. Others(d) /\ calls' = calls /\ call[d].op # "none"
    BY DEF Goes
  <1>1. ASSUME NEW p \in Paths PROVE (row'[p].live = "no" => row'[p].doc = NoDoc) /\ (obj'[p] # NoDoc => obj'[p].id # 0)
    BY DEF Goes, RowKept, DocsCarried
  <1>2. ASSUME NEW c \in Clients, NEW p \in Paths, Owns(call[c], p)', call'[c].n = row'[p].v PROVE row'[p].doc = call'[c].doc
    <2>1. CASE c = d
      BY <1>2, <2>1 DEF Goes
    <2>2. CASE c # d
      <3>1. call'[c] = call[c] /\ Owns(call[c], p)
        BY <1>0, <1>2, <2>2 DEF Others, Owns
      <3>2. call[c].n # call[d].n
        BY <1>0, <2>2, <3>1 DEF IInv, CallsNumbered, Active, Owns
      <3>3. RowKept(p)
        BY <1>2, <3>1, <3>2 DEF Goes
      <3> QED
        BY <1>2, <3>1, <3>3 DEF RowKept, DocsCarried
    <2> QED
      BY <2>1, <2>2
  <1>3. ASSUME NEW c \in Clients, Moves(call[c])'
        PROVE  /\ call'[c].doc.id # 0 /\ call'[c].seen <= calls'
               /\ mig'.at = "warmup" => call'[c].format = meta'.format
    <2>1. CASE c = d
      BY <1>0, <1>3, <2>1 DEF Goes
    <2>2. CASE c # d
      <3>1. call'[c] = call[c] /\ Moves(call[c])
        BY <1>0, <1>3, <2>2 DEF Others, Moves
      <3> QED
        BY <1>0, <3>1 DEF DocsCarried
    <2> QED
      BY <2>1, <2>2
  <1> QED
    BY <1>1, <1>2, <1>3 DEF DocsCarried

LEMMA GoesLate ==
  ASSUME IInv, LateComers, NEW d \in Clients, Goes(d)
  PROVE  LateComers'
  <1>0. Others(d)
    BY DEF Goes
  <1> SUFFICES ASSUME NEW c \in Clients, Undisturbed(c)', NEW e \in Clients \ {c}, Touches(e, call[c].path)'
               PROVE  /\ call'[e].n > call'[c].seen
                      /\ WillCommit(call[e], call[c].path)' \/ row'[call'[c].path].v # call'[c].seen
    BY DEF LateComers
  <1>1. CASE c = d
    <2>1. ~Overlapped(d) /\ call'[d].path = call[d].path /\ call'[e] = call[e]
      BY <1>0, <1>1 DEF Goes, Others
    <2>2. Touches(e, call[d].path)
      BY <1>1, <2>1 DEF Touches
    <2> QED
      BY <1>1, <2>1, <2>2 DEF Overlapped
  <1>2. CASE c # d
    <2>0. PICK p : p = call[c].path
      OBVIOUS
    <2>1. call'[c] = call[c] /\ Undisturbed(c) /\ p \in Paths /\ call[c].seen \in Nat
      BY <1>0, <1>2, <2>0, CallTyped, VersionsNat DEF Others, Undisturbed
    <2>2. Touches(e, p)' /\ call[d].n \in Nat
      BY <2>0, <2>1, CallTyped, VersionsNat DEF Touches
    <2>3. Touches(d, p) => call[d].n > call[c].seen /\ (WillCommit(call[d], p) \/ row[p].v # call[c].seen)
      BY <1>2, <2>0, <2>1 DEF LateComers
    <2>4. row'[p].v = row[p].v \/ (row'[p].v = call[d].n /\ row'[p].v # call[c].seen)
      BY <2>1, <2>2, <2>3 DEF Goes, RowKept
    <2>5. CASE e = d
      <3>1. /\ Touches(d, p) /\ call'[d].n = call[d].n
            /\ WillCommit(call[d], p) => WillCommit(call[d], p)' \/ row'[p].v = call[d].n
        BY <2>1, <2>2, <2>5 DEF Goes
      <3>2. WillCommit(call[d], p)' \/ row'[p].v # call[c].seen
        BY <2>1, <2>2, <2>3, <2>4, <3>1
      <3> QED
        BY <2>0, <2>1, <2>3, <2>5, <3>1, <3>2
    <2>6. CASE e # d
      <3>1. call'[e] = call[e] /\ Touches(e, p)
        BY <1>0, <2>2, <2>6 DEF Others, Touches
      <3>2. call[e].n > call[c].seen /\ (WillCommit(call[e], p) \/ row[p].v # call[c].seen)
        BY <2>0, <2>1, <3>1 DEF LateComers
      <3>3. WillCommit(call[e], p) => WillCommit(call[e], p)'
        BY <3>1 DEF WillCommit, Replaces, Arrives
      <3> QED
        BY <2>0, <2>1, <2>4, <3>1, <3>2, <3>3
    <2> QED
      BY <2>5, <2>6
  <1> QED
    BY <1>1, <1>2

LEMMA GoesAlone ==
  ASSUME IInv, TakesAlone, NEW d \in Clients, Goes(d)
  PROVE  TakesAlone'
  <1>0. Others(d) /\ call[d].op # "none"
    BY DEF Goes
  <1> SUFFICES ASSUME NEW c \in Clients, Taking(c)', NEW e \in Clients \ {c},
                      call'[e].op = "mv", call'[e].at = "tail", call'[e].path = call'[c].path
               PROVE  FALSE
    BY DEF TakesAlone
  <1>1. CASE c = d
    <2>1. call'[e] = call[e] /\ call'[d].path = call[d].path /\ ~Overlapped(d)
      BY <1>0, <1>1 DEF Goes, Others, Taking
    <2> QED
      BY <1>1, <2>1 DEF Overlapped, Touches
  <1>2. CASE c # d
    <2>0. PICK p : p = call[c].path
      OBVIOUS
    <2>1. call'[c] = call[c] /\ p \in Paths /\ call[c].op = "mv" /\ call[c].at = "tail" /\ row'[p].v = call[c].n
      BY <1>0, <1>2, <2>0, CallTyped DEF Others, Taking, Rewritten
    <2>2. call[c].n # call[d].n
      BY <1>0, <1>2, <2>1 DEF IInv, CallsNumbered, Active
    <2>3. RowKept(p)
      BY <2>1, <2>2 DEF Goes
    <2>4. Taking(c)
      BY <2>0, <2>1, <2>3 DEF Taking, Rewritten, RowKept
    <2>5. e # d
      BY <2>0, <2>1, <2>3 DEF Goes
    <2>6. call'[e] = call[e]
      BY <1>0, <2>5 DEF Others
    <2> QED
      BY <2>1, <2>4, <2>6 DEF TakesAlone
  <1> QED
    BY <1>1, <1>2

LEMMA GoesNInv ==
  ASSUME IInv, IInv', NInv, NEW d \in Clients, Goes(d), mig' = mig, scan'.rows = scan.rows, meta' = meta,
         \A t \in Tasks' : t \in Tasks \/ Unseen(t.path, t.v),
         \A p \in Paths : obj'[p] = NoDoc \/ obj'[p] = obj[p]
  PROVE  NInv'
  BY GoesNumbers, GoesDocs, GoesLate, GoesAlone DEF NInv

LEMMA GoesIdle ==
  ASSUME NEW c \in Clients, Others(c), call[c].op # "none", calls' = calls, call'[c] = Idle,
         \A p \in Paths : \/ RowKept(p)
                          \/ /\ row'[p].v = call[c].n /\ WillCommit(call[c], p) /\ Touches(c, p)
                             /\ row'[p].live = "no" => row'[p].doc = NoDoc
  PROVE  Goes(c)
  <1>1. call'[c].op = "none" /\ call'[c].rows = {}
    BY DEF Idle
  <1> QED
    BY <1>1 DEF Goes, Touches, WillCommit, Replaces, Arrives, Undisturbed, Owns, Moves, Taking

LEMMA CreateVersionGoes == ASSUME IInv, NEW c \in Clients, createVersion(c) PROVE Goes(c)
  <1>1. /\ call[c].op = "write" /\ call[c].at = "commit" /\ Others(c) /\ calls' = calls
        /\ call'[c].op = "write" /\ call'[c].at = "index" /\ call'[c].n = call[c].n
        /\ call'[c].path = call[c].path /\ call'[c].doc = call[c].doc /\ call'[c].rows = call[c].rows
    BY CreateVersionDoes
  <1>2. /\ row'[call[c].path].v = call[c].n /\ row'[call[c].path].live = "yes" /\ row'[call[c].path].doc = call[c].doc
        /\ \A p \in Paths \ {call[c].path} : row'[p] = row[p]
    BY CreateVersionDoes
  <1>3. \A p \in Paths : Touches(c, p)' => Touches(c, p) /\ row'[p].v = call[c].n
    BY <1>1, <1>2 DEF Touches
  <1>4. \A p \in Paths : ~WillCommit(call[c], p)'
    BY <1>1 DEF WillCommit, Replaces, Arrives
  <1>5. \A p \in Paths : \/ RowKept(p)
                         \/ /\ row'[p].v = call[c].n /\ WillCommit(call[c], p) /\ Touches(c, p)
                            /\ row'[p].live = "no" => row'[p].doc = NoDoc
    BY <1>1, <1>2 DEF RowKept, WillCommit, Replaces, Touches
  <1>6. \A p \in Paths : Owns(call[c], p)' /\ call'[c].n = row'[p].v => row'[p].doc = call'[c].doc
    BY <1>1, <1>2 DEF Owns
  <1> QED
    BY <1>1, <1>3, <1>4, <1>5, <1>6 DEF Goes, Undisturbed, Moves, Taking

LEMMA MvCommitGoes == ASSUME IInv, NInv, NEW c \in Clients, mvCommit(c) PROVE Goes(c)
  <1>0. call[c].path \in Paths /\ call[c].to \in Paths /\ (call[c].op = "mv" => call[c].path # call[c].to) /\ calls \in Nat
    BY CallTyped, JobsTyped
  <1>1. call[c].op = "mv" /\ call[c].at = "commit" /\ Others(c) /\ calls' = calls /\ meta' = meta
    BY MvCommitDoes
  <1>2. CASE call'[c] = Idle /\ row' = row
    BY <1>1, <1>2, GoesIdle DEF RowKept
  <1>3. CASE ~(call'[c] = Idle /\ row' = row)
    <2>1. /\ obj[call[c].to] # NoDoc
          /\ row'[call[c].to].v = call[c].n /\ row'[call[c].to].live = "yes" /\ row'[call[c].to].doc = obj[call[c].to]
          /\ \A p \in Paths \ {call[c].to} : row'[p] = row[p]
      BY <1>3, MvCommitDoes
    <2>2. /\ call'[c].op = "mv" /\ call'[c].at = "delete" /\ call'[c].n = call[c].n
          /\ call'[c].path = call[c].path /\ call'[c].to = call[c].to /\ call'[c].doc = obj[call[c].to]
          /\ call'[c].seen = row[call[c].path].v /\ call'[c].format = meta.format /\ call'[c].rows = call[c].rows
          /\ "source changed" \notin call'[c].gap => ~Overlapped(c)
      BY <1>3, MvCommitDoes
    <2>3. \A p \in Paths : Touches(c, p)' =>
             /\ Touches(c, p)
             /\ WillCommit(call[c], p) => WillCommit(call[c], p)' \/ row'[p].v = call[c].n
      BY <1>1, <2>1, <2>2 DEF Touches, WillCommit, Replaces, Arrives
    <2>4. \A p \in Paths : WillCommit(call[c], p)' => WillCommit(call[c], p) /\ RowKept(p)
      BY <1>0, <1>1, <2>1, <2>2 DEF WillCommit, Replaces, Arrives, RowKept
    <2>5. \A p \in Paths : \/ RowKept(p)
                           \/ /\ row'[p].v = call[c].n /\ WillCommit(call[c], p) /\ Touches(c, p)
                              /\ row'[p].live = "no" => row'[p].doc = NoDoc
      BY <1>1, <2>1 DEF RowKept, WillCommit, Arrives, Touches
    <2>6. \A p \in Paths : Owns(call[c], p)' /\ call'[c].n = row'[p].v => row'[p].doc = call'[c].doc
      BY <2>1, <2>2 DEF Owns
    <2>7. /\ call'[c].doc.id # 0 /\ call'[c].seen <= calls
          /\ call'[c].format = meta'.format
      <3>1. obj[call[c].to].id # 0
        BY <1>0, <2>1 DEF NInv, DocsCarried
      <3>2. row[call[c].path].v <= calls
        BY <1>0 DEF IInv, CallsNumbered
      <3> QED
        BY <1>1, <2>2, <3>1, <3>2
    <2>8. Undisturbed(c)' => ~Overlapped(c)
      BY <2>2 DEF Undisturbed
    <2> QED
      BY <1>1, <2>2, <2>3, <2>4, <2>5, <2>6, <2>7, <2>8 DEF Goes, Taking
  <1> QED
    BY <1>2, <1>3

LEMMA MvDeleteGoes == ASSUME IInv, NInv, NEW c \in Clients, mvDelete(c) PROVE Goes(c)
  <1>1. /\ call[c].op = "mv" /\ call[c].at = "delete" /\ Others(c) /\ calls' = calls /\ row' = row /\ meta' = meta /\ mig' = mig
        /\ call'[c].op = "mv" /\ call'[c].at = "gone" /\ call'[c].n = call[c].n
        /\ call'[c].path = call[c].path /\ call'[c].to = call[c].to /\ call'[c].doc = call[c].doc
        /\ call'[c].seen = call[c].seen /\ call'[c].format = call[c].format /\ call'[c].rows = call[c].rows
        /\ "source changed" \notin call'[c].gap => ~Overlapped(c)
    BY MvDeleteDoes
  <1>2. \A p \in Paths : RowKept(p)
    BY <1>1 DEF RowKept
  <1>3. \A p \in Paths : (Touches(c, p)' => Touches(c, p)) /\ (WillCommit(call[c], p)' <=> WillCommit(call[c], p))
    BY <1>1 DEF Touches, WillCommit, Replaces, Arrives
  <1>4. \A p \in Paths : Owns(call[c], p)' /\ call'[c].n = row'[p].v => row'[p].doc = call'[c].doc
    BY <1>1 DEF Owns, NInv, DocsCarried
  <1>5. call'[c].doc.id # 0 /\ call'[c].seen <= calls /\ (mig'.at = "warmup" => call'[c].format = meta'.format)
    BY <1>1 DEF Moves, NInv, DocsCarried
  <1> QED
    BY <1>1, <1>2, <1>3, <1>4, <1>5 DEF Goes, Undisturbed, Taking

LEMMA MvGoneGoes == ASSUME IInv, NInv, NEW c \in Clients, mvGone(c) PROVE Goes(c)
  <1>0. call[c].path \in Paths /\ call[c].to \in Paths /\ (call[c].op = "mv" => call[c].path # call[c].to)
    BY CallTyped
  <1>1. /\ call[c].op = "mv" /\ call[c].at = "gone" /\ Others(c) /\ calls' = calls /\ meta' = meta /\ mig' = mig
        /\ call'[c].op = "mv" /\ call'[c].at = "tail" /\ call'[c].n = call[c].n
        /\ call'[c].path = call[c].path /\ call'[c].to = call[c].to /\ call'[c].doc = call[c].doc
        /\ call'[c].seen = call[c].seen /\ call'[c].format = call[c].format /\ call'[c].rows = call[c].rows
        /\ "source changed" \notin call'[c].gap => ~Overlapped(c)
    BY MvGoneDoes
  <1>2. /\ row'[call[c].path].v = call[c].n /\ row'[call[c].path].live = "no" /\ row'[call[c].path].doc = NoDoc
        /\ \A p \in Paths \ {call[c].path} : row'[p] = row[p]
    BY MvGoneDoes
  <1>3. \A p \in Paths : Touches(c, p)' =>
           /\ Touches(c, p)
           /\ WillCommit(call[c], p) => row'[p].v = call[c].n
    BY <1>1, <1>2 DEF Touches, WillCommit, Replaces, Arrives
  <1>4. \A p \in Paths : ~WillCommit(call[c], p)'
    BY <1>1 DEF WillCommit, Replaces, Arrives
  <1>5. \A p \in Paths : \/ RowKept(p)
                         \/ /\ row'[p].v = call[c].n /\ WillCommit(call[c], p) /\ Touches(c, p)
                            /\ row'[p].live = "no" => row'[p].doc = NoDoc
    BY <1>1, <1>2 DEF RowKept, WillCommit, Replaces, Touches
  <1>6. \A p \in Paths : Owns(call[c], p)' /\ call'[c].n = row'[p].v => row'[p].doc = call'[c].doc
    BY <1>0, <1>1, <1>2 DEF Owns, NInv, DocsCarried
  <1>7. call'[c].doc.id # 0 /\ call'[c].seen <= calls /\ (mig'.at = "warmup" => call'[c].format = meta'.format)
    BY <1>1 DEF Moves, NInv, DocsCarried
  <1>8. ~RowKept(call[c].path)
    <2>1. WillCommit(call[c], call[c].path)
      BY <1>1 DEF WillCommit, Replaces
    <2>2. row[call[c].path].v # call[c].n
      BY <1>0, <2>1 DEF NInv, NumbersUnseen, Unseen
    <2> QED
      BY <1>2, <2>2 DEF RowKept
  <1>9. Taking(c)' => ~Overlapped(c)
    BY <1>1 DEF Taking, Stale
  <1> QED
    BY <1>1, <1>3, <1>4, <1>5, <1>6, <1>7, <1>8, <1>9 DEF Goes, Undisturbed

LEMMA SettlesGoes ==
  ASSUME IInv, NEW c \in Clients, indexForSearch(c) \/ rm(c) \/ mvTail(c) \/ reindexDone(c)
  PROVE  Goes(c)
  <1>0. call[c].path \in Paths /\ call[c].to \in Paths
    BY CallTyped
  <1>1. CASE indexForSearch(c)
    <2>1. call[c].op # "none" /\ Others(c) /\ call'[c] = Idle /\ calls' = calls
      BY <1>1, IndexDoes
    <2>2. row' = row \/ \A p \in Paths : RowKept(p)
      BY <1>1, IndexDoes
    <2> QED
      BY <2>1, <2>2, GoesIdle DEF RowKept
  <1>2. CASE rm(c)
    <2>1. call[c].op = "rm" /\ call[c].at = "commit" /\ Others(c) /\ call'[c] = Idle /\ calls' = calls
      BY <1>2, RmDoes
    <2>2. /\ row'[call[c].path].v = call[c].n /\ row'[call[c].path].doc = NoDoc
          /\ \A p \in Paths \ {call[c].path} : row'[p] = row[p]
      BY <1>2, RmDoes
    <2>3. \A p \in Paths : \/ RowKept(p)
                           \/ /\ row'[p].v = call[c].n /\ WillCommit(call[c], p) /\ Touches(c, p)
                              /\ row'[p].live = "no" => row'[p].doc = NoDoc
      BY <2>1, <2>2 DEF RowKept, WillCommit, Replaces, Touches
    <2> QED
      BY <2>1, <2>3, GoesIdle
  <1>3. CASE mvTail(c)
    <2>1. MvTailEffect(c, call[c].path, call[c].to)
      BY <1>0, <1>3, MvTailDoes
    <2>2. call[c].op # "none" /\ Others(c) /\ call'[c] = Idle /\ calls' = calls /\ \A p \in Paths : RowKept(p)
      BY <2>1 DEF MvTailEffect
    <2> QED
      BY <2>2, GoesIdle
  <1>4. CASE reindexDone(c)
    BY <1>4, ReindexDoneDoes, GoesIdle DEF RowKept
  <1> QED
    BY <1>1, <1>2, <1>3, <1>4

LEMMA ReindexReadGoes == ASSUME IInv, NEW c \in Clients, NEW r \in call[c].rows, reindexRead(c, r) PROVE Goes(c)
  <1>1. /\ call[c].op = "reindex" /\ call'[c].op = "reindex" /\ call'[c].n = call[c].n /\ Others(c)
        /\ call'[c].rows \subseteq call[c].rows /\ row' = row /\ calls' = calls
    BY ReindexReadDoes
  <1>2. \A p \in Paths : RowKept(p)
    BY <1>1 DEF RowKept
  <1> QED
    BY <1>1, <1>2 DEF Goes, Touches, WillCommit, Replaces, Arrives, Undisturbed, Owns, Moves, Taking

(* The calls' steps, with the jobs they schedule. *)
LEMMA ClientNInv ==
  ASSUME IInv, IInv', NInv, NEW c \in Clients,
         \/ createVersion(c) \/ indexForSearch(c) \/ rm(c) \/ mvCommit(c) \/ mvDelete(c) \/ mvGone(c) \/ mvTail(c)
         \/ reindexDone(c) \/ \E r \in call[c].rows : reindexRead(c, r)
  PROVE  NInv'
  <1>0. call[c].path \in Paths /\ call[c].to \in Paths /\ TypeOK
    BY CallTyped DEF IInv
  <1>1. CASE createVersion(c)
    <2>1. SameSlots /\ UNCHANGED <<mig, scan, meta, obj>>
      BY <1>1, CreateVersionDoes
    <2> QED
      BY <1>1, <2>1, SameTasks, CreateVersionGoes, GoesNInv
  <1>2. CASE mvCommit(c)
    <2>1. SameSlots /\ UNCHANGED <<mig, scan, meta, obj>>
      BY <1>2, MvCommitDoes
    <2> QED
      BY <1>2, <2>1, SameTasks, MvCommitGoes, GoesNInv
  <1>3. CASE mvDelete(c)
    <2>1. SameSlots /\ UNCHANGED <<mig, scan, meta>> /\ obj' = [obj EXCEPT ![call[c].path] = NoDoc]
      BY <1>3, MvDeleteDoes
    <2>2. \A p \in Paths : obj'[p] = NoDoc \/ obj'[p] = obj[p]
      BY <1>0, <2>1 DEF TypeOK
    <2> QED
      BY <1>3, <2>1, <2>2, SameTasks, MvDeleteGoes, GoesNInv
  <1>4. CASE mvGone(c)
    <2>1. SameSlots /\ UNCHANGED <<mig, scan, meta, obj>>
      BY <1>4, MvGoneDoes
    <2> QED
      BY <1>4, <2>1, SameTasks, MvGoneGoes, GoesNInv
  <1>5. CASE rm(c) \/ reindexDone(c)
    <2>1. SameSlots /\ UNCHANGED <<mig, scan, meta, obj>>
      BY <1>5, RmDoes, ReindexDoneDoes
    <2> QED
      BY <1>5, <2>1, SameTasks, SettlesGoes, GoesNInv
  <1>6. CASE mvTail(c)
    <2>1. MvTailEffect(c, call[c].path, call[c].to)
      BY <1>0, <1>6, MvTailDoes
    <2>2. SameSlots /\ UNCHANGED <<mig, meta, obj>> /\ (scan' = scan \/ scan' = scheduled(scan))
      BY <2>1 DEF MvTailEffect
    <2>3. scan'.rows = scan.rows
      BY <1>0, <2>2, ScheduledTyped
    <2> QED
      BY <1>6, <2>2, <2>3, SameTasks, SettlesGoes, GoesNInv
  <1>7. CASE indexForSearch(c)
    <2>1. /\ call[c].op = "write" /\ UNCHANGED <<mig, meta, obj>>
      BY <1>7, IndexDoes
    <2>2. scan' = scan \/ scan' = scheduled(scan)
      BY <1>7, IndexDoes
    <2>3. scan'.rows = scan.rows
      BY <1>0, <2>2, ScheduledTyped
    <2>4. \/ SameSlots
          \/ /\ isCurrent(call[c].path, call[c].n)
             /\ Enter([by |-> "write", path |-> call[c].path, v |-> call[c].n, doc |-> call[c].doc])
      BY <1>7, IndexDoes
    <2>5. \A t \in Tasks' : t \in Tasks \/ Unseen(t.path, t.v)
      <3>1. CASE SameSlots
        BY <3>1, SameTasks
      <3>2. CASE ~SameSlots
        <4>1. isCurrent(call[c].path, call[c].n) /\ Tasks' = Tasks \cup {[by |-> "write", path |-> call[c].path, v |-> call[c].n, doc |-> call[c].doc]}
          BY <2>1, <2>4, <3>2, IndexEnters
        <4>2. Unseen(call[c].path, call[c].n)
          BY <1>0, <4>1 DEF NInv, NumbersUnseen, isCurrent
        <4> QED
          BY <4>1, <4>2
      <3> QED
        BY <3>1, <3>2
    <2> QED
      BY <1>7, <2>1, <2>3, <2>5, SettlesGoes, GoesNInv
  <1>8. CASE \E r \in call[c].rows : reindexRead(c, r)
    <2>1. PICK r \in call[c].rows : reindexRead(c, r)
      BY <1>8
    <2>2. UNCHANGED <<mig, scan, meta, obj>>
      BY <2>1, ReindexReadDoes
    <2>3. Tasks' = Tasks \/ Tasks' = Tasks \cup {[by |-> "reindex", path |-> r.path, v |-> r.v, doc |-> obj[r.path]]}
      BY <2>1, ReindexReadDoes
    <2>4. Unseen(r.path, r.v)
      BY DEF NInv, NumbersUnseen
    <2>5. \A t \in Tasks' : t \in Tasks \/ Unseen(t.path, t.v)
      BY <2>3, <2>4
    <2> QED
      BY <2>1, <2>2, <2>5, ReindexReadGoes, GoesNInv
  <1> QED
    BY <1>1, <1>2, <1>3, <1>4, <1>5, <1>6, <1>7, <1>8

LEMMA BeginNInv ==
  ASSUME IInv, IInv', NInv, NEW c \in Clients, Others(c), call[c].op = "none", calls' = calls + 1,
         call'[c].n = calls + 1, call'[c].op = "reindex" \/ (call'[c].op \in {"write", "rm", "mv"} /\ call'[c].at = "commit"),
         \A r \in call'[c].rows : \E p \in Paths : r.path = p /\ r.v = row[p].v,
         \A p \in Paths : RowKept(p), mig' = mig, scan'.rows = scan.rows, meta' = meta, SameSlots,
         \A p \in Paths : obj'[p] = NoDoc \/ obj'[p].id # 0
  PROVE  NInv'
  <1>0. calls \in Nat /\ Tasks' = Tasks /\ ~Undisturbed(c)' /\ ~Moves(call[c])' /\ ~Taking(c)' /\ (\A p \in Paths : ~Owns(call[c], p)')
    BY JobsTyped, SameTasks DEF Undisturbed, Moves, Taking, Owns
  <1>1. NumbersUnseen'
    <2>1. ASSUME NEW d \in Clients, NEW p \in Paths, WillCommit(call[d], p)'
          PROVE  (WillCommit(call[d], p) /\ call'[d].n = call[d].n) \/ call'[d].n = calls + 1
      <3>1. CASE d = c
        BY <3>1
      <3>2. CASE d # c
        <4>1. call'[d] = call[d]
          BY <3>2 DEF Others
        <4> QED
          BY <2>1, <4>1 DEF WillCommit, Replaces, Arrives
      <3> QED
        BY <3>1, <3>2
    <2>2. \A p \in Paths : Unseen(p, row'[p].v)
      BY DEF RowKept, NInv, NumbersUnseen
    <2>3. \A d \in Clients : \A r \in call'[d].rows : Unseen(r.path, r.v)
      BY DEF Others, NInv, NumbersUnseen
    <2>4. (\A t \in Tasks' : Unseen(t.path, t.v)) /\ \A r \in mig'.rows \cup scan'.rows : Unseen(r.path, r.v)
      BY <1>0 DEF NInv, NumbersUnseen, Tasks
    <2>5. calls <= calls'
      BY <1>0
    <2> QED
      BY <2>1, <2>2, <2>3, <2>4, <2>5, NumbersKept
  <1>2. DocsCarried'
    <2>1. ASSUME NEW d \in Clients PROVE
             /\ \A p \in Paths : Owns(call[d], p)' /\ call'[d].n = row'[p].v => row'[p].doc = call'[d].doc
             /\ Moves(call[d])' => /\ call'[d].doc.id # 0 /\ call'[d].seen <= calls'
                                   /\ mig'.at = "warmup" => call'[d].format = meta'.format
      <3>1. CASE d = c
        BY <1>0, <3>1
      <3>2. CASE d # c
        <4>1. call'[d] = call[d] /\ call[d].seen \in Nat
          BY <3>2, CallTyped, VersionsNat DEF Others
        <4>2. \A p \in Paths : Owns(call[d], p)' /\ call'[d].n = row'[p].v => row'[p].doc = call'[d].doc
          BY <4>1 DEF Owns, RowKept, NInv, DocsCarried
        <4>3. Moves(call[d])' => /\ call'[d].doc.id # 0 /\ call'[d].seen <= calls
                                 /\ mig'.at = "warmup" => call'[d].format = meta'.format
          BY <4>1 DEF Moves, NInv, DocsCarried
        <4> QED
          BY <1>0, <4>1, <4>2, <4>3
      <3> QED
        BY <3>1, <3>2
    <2>2. \A p \in Paths : (row'[p].live = "no" => row'[p].doc = NoDoc) /\ (obj'[p] # NoDoc => obj'[p].id # 0)
      BY DEF RowKept, NInv, DocsCarried
    <2> QED
      BY <2>1, <2>2 DEF DocsCarried
  <1>3. LateComers'
    <2> SUFFICES ASSUME NEW d \in Clients, Undisturbed(d)', NEW e \in Clients \ {d}, Touches(e, call[d].path)'
                 PROVE  /\ call'[e].n > call'[d].seen
                        /\ WillCommit(call[e], call[d].path)' \/ row'[call'[d].path].v # call'[d].seen
      BY DEF LateComers
    <2>1. d # c /\ call'[d] = call[d] /\ Undisturbed(d) /\ call[d].path \in Paths /\ call[d].seen \in Nat
      BY <1>0, CallTyped, VersionsNat DEF Others, Undisturbed
    <2>2. CASE e = c
      <3>1. call[d].seen <= calls
        BY <2>1 DEF Undisturbed, Moves, NInv, DocsCarried
      <3>2. call'[c].op \in {"write", "rm", "mv"} /\ call'[c].at = "commit"
        BY <2>2 DEF Touches
      <3>3. WillCommit(call[c], call[d].path)'
        BY <2>2, <3>2 DEF Touches, WillCommit, Replaces, Arrives
      <3> QED
        BY <1>0, <2>1, <2>2, <3>1, <3>3
    <2>3. CASE e # c
      <3>1. call'[e] = call[e] /\ Touches(e, call[d].path)
        BY <2>1, <2>3 DEF Others, Touches
      <3>2. call[e].n > call[d].seen /\ (WillCommit(call[e], call[d].path) \/ row[call[d].path].v # call[d].seen)
        BY <2>1, <3>1 DEF NInv, LateComers
      <3>3. row'[call[d].path].v = row[call[d].path].v
        BY <2>1 DEF RowKept
      <3>4. WillCommit(call[e], call[d].path) => WillCommit(call[e], call[d].path)'
        BY <2>1, <3>1 DEF WillCommit, Replaces, Arrives
      <3> QED
        BY <2>1, <3>1, <3>2, <3>3, <3>4
    <2> QED
      BY <2>2, <2>3
  <1>4. TakesAlone'
    <2> SUFFICES ASSUME NEW d \in Clients, Taking(d)', NEW e \in Clients \ {d},
                        call'[e].op = "mv", call'[e].at = "tail", call'[e].path = call'[d].path
                 PROVE  FALSE
      BY DEF TakesAlone
    <2>1. d # c /\ e # c
      BY <1>0
    <2>2. call'[d] = call[d] /\ call'[e] = call[e] /\ call[d].path \in Paths
      BY <2>1, CallTyped DEF Others
    <2>3. Taking(d)
      BY <2>2 DEF Taking, Rewritten, RowKept
    <2> QED
      BY <2>2, <2>3 DEF NInv, TakesAlone
  <1> QED
    BY <1>1, <1>2, <1>3, <1>4 DEF NInv

LEMMA BeginsNInv ==
  ASSUME IInv, IInv', NInv, NEW c \in Clients,
         \/ \E p \in Paths : \/ \E k \in Kinds : putObject(c, p, k)
                             \/ deleteObject(c, p)
                             \/ \E q \in Paths : copyObject(c, p, q)
         \/ reindex(c)
  PROVE  NInv'
  <1>0. obj \in [Paths -> Docs] /\ calls \in Nat /\ TypeOK /\ \A p \in Paths : obj[p] # NoDoc => obj[p].id # 0
    BY JobsTyped DEF NInv, DocsCarried, IInv
  <1>1. CASE \E p \in Paths : \E k \in Kinds : putObject(c, p, k)
    <2>1. PICK p \in Paths, k \in Kinds : putObject(c, p, k)
      BY <1>1
    <2>2. obj' = [obj EXCEPT ![p] = call'[c].doc] /\ call'[c].doc.id = calls + 1 /\ row' = row
      BY <2>1, PutDoes
    <2>3. \A q \in Paths : RowKept(q) /\ (obj'[q] = NoDoc \/ obj'[q].id # 0)
      BY <1>0, <2>2 DEF RowKept
    <2> QED
      BY <2>1, <2>3, PutDoes, BeginNInv
  <1>2. CASE \E p \in Paths : deleteObject(c, p)
    <2>1. PICK p \in Paths : deleteObject(c, p)
      BY <1>2
    <2>2. obj' = [obj EXCEPT ![p] = NoDoc] /\ row' = row
      BY <2>1, DeleteDoes
    <2>3. \A q \in Paths : RowKept(q) /\ (obj'[q] = NoDoc \/ obj'[q].id # 0)
      BY <1>0, <2>2 DEF RowKept
    <2> QED
      BY <2>1, <2>3, DeleteDoes, BeginNInv
  <1>3. CASE \E p \in Paths : \E q \in Paths : copyObject(c, p, q)
    <2>1. PICK p \in Paths, q \in Paths : copyObject(c, p, q)
      BY <1>3
    <2>2. obj' = [obj EXCEPT ![q] = obj[p]] /\ row' = row
      BY <2>1, CopyDoes
    <2>3. \A r \in Paths : RowKept(r) /\ (obj'[r] = NoDoc \/ obj'[r].id # 0)
      BY <1>0, <2>2 DEF RowKept
    <2> QED
      BY <2>1, <2>3, CopyDoes, BeginNInv
  <1>4. CASE reindex(c)
    <2>1. scan' = scheduled(scan) /\ obj' = obj
      BY <1>4, ReindexDoes
    <2>2. scan'.rows = scan.rows
      BY <1>0, <2>1, ScheduledTyped
    <2> QED
      BY <1>0, <1>4, <2>1, <2>2, ReindexDoes, BeginNInv
  <1> QED
    BY <1>1, <1>2, <1>3, <1>4

(* Background steps. *)
LEMMA BackNInv ==
  ASSUME IInv, IInv', NInv, UNCHANGED <<obj, call, calls>>, \A p \in Paths : RowKept(p),
         \A r \in mig'.rows \cup scan'.rows : Unseen(r.path, r.v), \A t \in Tasks' : Unseen(t.path, t.v),
         mig'.at = "warmup" => (mig.at = "warmup" /\ meta'.format = meta.format) \/ \A c \in Clients : call[c].op = "none"
  PROVE  NInv'
  <1>0. calls \in Nat /\ \A p \in Paths : row'[p].v = row[p].v /\ row'[p].live = row[p].live /\ row'[p].doc = row[p].doc
    BY JobsTyped DEF RowKept
  <1>00. \A c \in Clients : call[c].path \in Paths
    BY CallTyped
  <1>1. NumbersUnseen'
    <2>1. \A c \in Clients, p \in Paths : WillCommit(call[c], p)' => WillCommit(call[c], p) /\ call'[c].n = call[c].n
      BY DEF WillCommit, Replaces, Arrives
    <2>2. \A p \in Paths : Unseen(p, row'[p].v)
      BY <1>0 DEF NInv, NumbersUnseen
    <2>3. \A c \in Clients : \A r \in call'[c].rows : Unseen(r.path, r.v)
      BY DEF NInv, NumbersUnseen
    <2>4. calls <= calls'
      BY <1>0
    <2> QED
      BY <2>1, <2>2, <2>3, <2>4, NumbersKept
  <1>2. DocsCarried'
    BY <1>0 DEF NInv, DocsCarried, Owns, Moves
  <1>3. LateComers'
    BY ZenonT(60), <1>0, <1>00 DEF NInv, LateComers, Undisturbed, Touches, WillCommit, Replaces, Arrives
  <1>4. TakesAlone'
    BY <1>0, <1>00 DEF NInv, TakesAlone, Taking, Rewritten
  <1> QED
    BY <1>1, <1>2, <1>3, <1>4 DEF NInv

LEMMA RowsUnseen ==
  ASSUME NInv, NEW S, \A r \in S : \E p \in Paths : r.path = p /\ r.v = row[p].v
  PROVE  \A r \in S : Unseen(r.path, r.v)
  BY DEF NInv, NumbersUnseen

LEMMA JobsUnseen ==
  ASSUME NInv
  PROVE  /\ \A r \in mig.rows \cup scan.rows : Unseen(r.path, r.v)
         /\ \A t \in Tasks : Unseen(t.path, t.v)
  BY DEF NInv, NumbersUnseen, Tasks

LEMMA TaskEndsNInv ==
  ASSUME IInv, IInv', NInv, NEW t \in running, (embedded(t) \/ failed(t) \/ initFailed(t)) PROVE NInv'
  <1>0. (\A r \in mig.rows \cup scan.rows : Unseen(r.path, r.v)) /\ \A s \in Tasks : Unseen(s.path, s.v)
    BY JobsUnseen
  <1>1. CASE embedded(t) \/ failed(t)
    <2>1. Leave(t) /\ Resume(t) /\ Backstage
      BY <1>1, EmbeddedDoes, FailedDoes
    <2>2. Tasks' = Tasks \ {t} /\ meta'.format = meta.format
      BY <2>1, ResumeDoes
    <2>3. mig'.rows \subseteq mig.rows /\ scan'.rows \subseteq scan.rows
      BY <2>1, ResumeDoes
    <2>4. mig'.at = "warmup" => mig.at = "warmup"
      BY <2>1, ResumeDoes
    <2> QED
      BY <1>0, <2>1, <2>2, <2>3, <2>4, BackNInv DEF Backstage
  <1>2. CASE initFailed(t)
    BY <1>0, <1>2, InitFailedDoes, BackNInv DEF Backstage
  <1> QED
    BY <1>1, <1>2

LEMMA MigrationNInv ==
  ASSUME IInv, IInv', NInv,
         warmedUp \/ warmupFailed \/ migrationSelect \/ migrationRead \/ migrationExtract \/ afterMigration
  PROVE  NInv'
  <1>0. (\A r \in mig.rows \cup scan.rows : Unseen(r.path, r.v)) /\ (\A s \in Tasks : Unseen(s.path, s.v)) /\ TypeOK
    BY JobsUnseen DEF IInv
  <1>1. CASE warmedUp
    <2>1. Backstage /\ SameSlots /\ mig'.at = "rows" /\ mig'.rows = mig.rows /\ scan' = scan
      BY <1>1, WarmedUpDoes
    <2> QED
      BY <1>0, <2>1, SameTasks, BackNInv DEF Backstage
  <1>2. CASE warmupFailed
    <2>1. Backstage /\ SameSlots /\ mig'.at = "after" /\ mig'.rows = mig.rows /\ scan' = scan
      BY <1>2, WarmupFailedDoes
    <2> QED
      BY <1>0, <2>1, SameTasks, BackNInv DEF Backstage
  <1>3. CASE migrationSelect
    <2>1. /\ Backstage /\ SameSlots /\ mig'.at \in {"rows", "after"} /\ scan' = scan
          /\ \A r \in mig'.rows : \E p \in Paths : r.path = p /\ r.v = row[p].v
      BY <1>3, MigrationSelectDoes
    <2>2. \A r \in mig'.rows : Unseen(r.path, r.v)
      BY <2>1, RowsUnseen
    <2> QED
      BY <1>0, <2>1, <2>2, SameTasks, BackNInv DEF Backstage
  <1>4. CASE migrationRead \/ migrationExtract
    <2>1. Backstage /\ scan' = scan /\ mig.rows # {} /\ First(mig) \in mig.rows
      BY <1>4, MigrationReadDoes, MigrationExtractDoes
    <2>2. \/ mig' = NextRow(mig) /\ SameSlots
          \/ mig'.at \in {"extract", "embed"} /\ mig'.rows = mig.rows
      BY <1>4, MigrationReadDoes, MigrationExtractDoes
    <2>3. mig'.rows \subseteq mig.rows /\ mig'.at # "warmup"
      BY <2>1, <2>2, JobsTyped, NextRowDoes
    <2>4. \/ SameSlots
          \/ Tasks' = Tasks \cup {[by |-> "migration", path |-> First(mig).path, v |-> First(mig).v, doc |-> mig.doc]}
      BY <1>4, MigrationReadDoes, MigrationExtractDoes
    <2>5. Unseen(First(mig).path, First(mig).v)
      BY <1>0, <2>1
    <2>6. \A s \in Tasks' : Unseen(s.path, s.v)
      BY <1>0, <2>4, <2>5, SameTasks
    <2> QED
      BY <1>0, <2>1, <2>3, <2>6, BackNInv DEF Backstage
  <1>5. CASE afterMigration
    <2>1. Backstage /\ SameSlots /\ mig'.at = "off" /\ mig'.rows = {} /\ (scan' = scan \/ scan' = scheduled(scan))
      BY <1>5, AfterMigrationDoes
    <2>2. scan'.rows = scan.rows
      BY <1>0, <2>1, ScheduledTyped
    <2> QED
      BY <1>0, <2>1, <2>2, SameTasks, BackNInv DEF Backstage
  <1> QED
    BY <1>1, <1>2, <1>3, <1>4, <1>5

LEMMA ImageJobNInv ==
  ASSUME IInv, IInv', NInv, imageSlot \/ imageSelect \/ imageRow \/ embedImageFile
  PROVE  NInv'
  <1>0. (\A r \in mig.rows \cup scan.rows : Unseen(r.path, r.v)) /\ (\A s \in Tasks : Unseen(s.path, s.v)) /\ TypeOK
    BY JobsUnseen DEF IInv
  <1>1. Backstage /\ mig' = mig /\ meta'.format = meta.format
    BY ImageSlotDoes, ImageSelectDoes, ImageRowDoes, EmbedImageDoes
  <1>2. CASE imageSlot \/ imageSelect
    <2>1. SameSlots
      BY <1>2, ImageSlotDoes, ImageSelectDoes
    <2>2. \A r \in scan'.rows : \E p \in Paths : r.path = p /\ r.v = row[p].v
      BY <1>2, ImageSlotDoes, ImageSelectDoes
    <2>3. \A r \in scan'.rows : Unseen(r.path, r.v)
      BY <2>2, RowsUnseen
    <2> QED
      BY <1>0, <1>1, <2>1, <2>3, SameTasks, BackNInv DEF Backstage
  <1>3. CASE imageRow \/ embedImageFile
    <2>1. scan.rows # {} /\ (scan' = NextRow(scan) \/ scan'.rows = scan.rows)
      BY <1>3, ImageRowDoes, EmbedImageDoes
    <2>2. scan'.rows \subseteq scan.rows /\ First(scan) \in scan.rows
      BY <2>1, JobsTyped, NextRowDoes
    <2>3. \/ SameSlots
          \/ Tasks' = Tasks \cup {[by |-> "image", path |-> First(scan).path, v |-> First(scan).v, doc |-> obj[First(scan).path]]}
      BY <1>3, ImageRowDoes, EmbedImageDoes
    <2>4. Unseen(First(scan).path, First(scan).v)
      BY <1>0, <2>2
    <2>5. \A s \in Tasks' : Unseen(s.path, s.v)
      BY <1>0, <2>3, <2>4, SameTasks
    <2> QED
      BY <1>0, <1>1, <2>2, <2>5, BackNInv DEF Backstage
  <1> QED
    BY <1>2, <1>3

Quiet ==
  /\ \A c \in Clients : call[c] = Idle
  /\ Tasks = {} /\ mig.rows = {} /\ scan.rows = {}
  /\ \A p \in Paths : /\ row[p].v <= calls /\ (row[p].live = "no" => row[p].doc = NoDoc)
                      /\ obj[p] # NoDoc => obj[p].id # 0

LEMMA QuietNInv == Quiet => NInv
  <1> SUFFICES ASSUME Quiet PROVE NInv
    OBVIOUS
  <1>1. \A c \in Clients : call[c].op = "none" /\ call[c].rows = {}
    BY DEF Quiet, Idle
  <1>2. NumbersUnseen
    BY <1>1 DEF Quiet, NumbersUnseen, Unseen, WillCommit, Replaces, Arrives, Tasks
  <1>3. DocsCarried
    BY <1>1 DEF Quiet, DocsCarried, Owns, Moves
  <1>4. LateComers /\ TakesAlone
    BY <1>1 DEF LateComers, TakesAlone, Undisturbed, Taking
  <1> QED
    BY <1>2, <1>3, <1>4 DEF NInv

LEMMA RestartNInv ==
  ASSUME IInv, IInv', NInv, Crash \/ \E s \in Settings : Boot(s)
  PROVE  NInv'
  <1>1. CASE Crash
    <2>1. /\ Tasks' = {} /\ mig' = Stopped /\ scan'.rows = {} /\ calls' = calls /\ row' = row /\ obj' = obj
          /\ \A c \in Clients : call'[c] = Idle
      BY <1>1, CrashDoes
    <2>2. Quiet'
      BY <2>1 DEF Quiet, NInv, NumbersUnseen, Unseen, DocsCarried, Stopped
    <2> QED
      BY <2>2, QuietNInv, PTL
  <1>2. CASE \E s \in Settings : Boot(s)
    <2>1. PICK s \in Settings : Boot(s)
      BY <1>2
    <2>2. /\ Tasks' = Tasks /\ mig'.rows = {} /\ UNCHANGED <<obj, row, call, scan, calls>>
          /\ \A c \in Clients : call[c].op = "none"
      BY <2>1, BootDoes
    <2> QED
      BY <2>2, JobsUnseen, BackNInv DEF RowKept
  <1> QED
    BY <1>1, <1>2

(* A call that failed is gone, and the others have at most one more reason. *)
LEMMA CallFailedNInv == ASSUME IInv, IInv', NInv, NEW c \in Clients, callFailed(c) PROVE NInv'
  <1>1. /\ call'[c] = Idle /\ \A d \in Clients \ {c} : Weaker(d)
        /\ UNCHANGED <<meta, obj, row, slots, mig, scan, calls>>
    BY CallFailedDoes DEF IInv
  <1>2. Tasks' = Tasks /\ call'[c].op = "none" /\ call'[c].rows = {}
    BY <1>1 DEF Tasks, Waiters, slots, Idle
  <1>3. NumbersUnseen'
    <2>1. \A d \in Clients, p \in Paths : WillCommit(call[d], p)' => WillCommit(call[d], p) /\ call'[d].n = call[d].n
      BY <1>1, <1>2 DEF WillCommit, Replaces, Arrives, Weaker
    <2>2. \A p \in Paths : Unseen(p, row'[p].v)
      BY <1>1 DEF NInv, NumbersUnseen
    <2>3. \A d \in Clients : \A r \in call'[d].rows : Unseen(r.path, r.v)
      BY <1>1, <1>2 DEF NInv, NumbersUnseen, Weaker
    <2>4. calls <= calls'
      BY <1>1, JobsTyped
    <2>5. /\ \A r \in mig'.rows \cup scan'.rows : Unseen(r.path, r.v)
          /\ \A t \in Tasks' : Unseen(t.path, t.v)
      BY <1>1, <1>2, JobsUnseen
    <2> QED
      BY <2>1, <2>2, <2>3, <2>4, <2>5, NumbersKept
  <1>4. DocsCarried'
    BY <1>1, <1>2 DEF NInv, DocsCarried, Owns, Moves, Weaker
  <1>5. LateComers'
    <2> SUFFICES ASSUME NEW d \in Clients, Undisturbed(d)', NEW e \in Clients \ {d}, Touches(e, call[d].path)'
                 PROVE  /\ call'[e].n > call'[d].seen
                        /\ WillCommit(call[e], call[d].path)' \/ row'[call'[d].path].v # call'[d].seen
      BY DEF LateComers
    <2>1. d # c /\ Weaker(d) /\ Undisturbed(d)
      BY <1>1, <1>2 DEF Undisturbed, Weaker
    <2>2. e # c /\ Weaker(e) /\ Touches(e, call[d].path)
      BY <1>1, <1>2, <2>1 DEF Touches, Weaker
    <2>3. call[e].n > call[d].seen /\ (WillCommit(call[e], call[d].path) \/ row[call[d].path].v # call[d].seen)
      BY <2>1, <2>2 DEF NInv, LateComers
    <2> QED
      BY <1>1, <2>1, <2>2, <2>3 DEF WillCommit, Replaces, Arrives, Weaker
  <1>6. TakesAlone'
    <2> SUFFICES ASSUME NEW d \in Clients, Taking(d)', NEW e \in Clients \ {d},
                        call'[e].op = "mv", call'[e].at = "tail", call'[e].path = call'[d].path
                 PROVE  FALSE
      BY DEF TakesAlone
    <2>1. d # c /\ Weaker(d) /\ Taking(d) /\ e # c /\ Weaker(e)
      BY <1>1, <1>2 DEF Taking, Rewritten, Weaker
    <2> QED
      BY <2>1 DEF NInv, TakesAlone, Weaker
  <1> QED
    BY <1>3, <1>4, <1>5, <1>6 DEF NInv

LEMMA InitNInv == ASSUME Init PROVE NInv
  <1>1. Quiet
    <2>1. Tasks = {} /\ mig.rows = {} /\ scan.rows = {} /\ calls = 1 /\ \A c \in Clients : call[c] = Idle
      BY DEF Init, Tasks, Waiters, Stopped
    <2>2. \A p \in Paths : /\ row[p].v <= 1 /\ (row[p].live = "no" => row[p].doc = NoDoc)
                           /\ obj[p] # NoDoc => obj[p].id # 0
      BY DEF Init, Seed, NoDoc
    <2> QED
      BY <2>1, <2>2 DEF Quiet
  <1> QED
    BY <1>1, QuietNInv

LEMMA NextNInv == ASSUME IInv, NInv, [Next]_vars PROVE NInv'
  <1>0. IInv'
    BY NextKeeps
  <1>1. ASSUME Clientele PROVE NInv'
    BY <1>0, <1>1, BeginsNInv, ClientNInv DEF Clientele
  <1>2. ASSUME Background PROVE NInv'
    BY <1>0, <1>2, TaskEndsNInv, MigrationNInv, ImageJobNInv DEF Background
  <1>3. ASSUME Faults PROVE NInv'
    BY <1>0, <1>3, TaskEndsNInv, MigrationNInv, CallFailedNInv, RestartNInv DEF Faults
  <1>4. ASSUME UNCHANGED vars PROVE NInv'
    <2>1. UNCHANGED <<row, obj, call, calls, running, queue, mig, scan, meta>>
      BY <1>4 DEF vars
    <2>2. Tasks' = Tasks
      BY <2>1 DEF Tasks, Waiters
    <2> QED
      BY <1>0, <2>1, <2>2, JobsUnseen, BackNInv DEF RowKept
  <1> QED
    BY <1>0, <1>1, <1>2, <1>3, <1>4, RestartNInv DEF Next

LEMMA NumbersHold == Spec => []NInv
  <1>1. Init => NInv
    BY InitNInv
  <1>2. IInv /\ NInv /\ [Next]_vars => NInv'
    BY NextNInv
  <1> QED
    BY <1>1, <1>2, InvariantHolds, PTL DEF Spec
-----------------------------------------------------------------------------
(* What a step leaves of the indexed files, and of the search data that a     *)
(* move is about to take.                                                     *)

Foreign == Stale \cup {"foreign format"}
KeptText(p) ==
  \/ row'[p].live = "no" \/ Owed(p)' \/ row'[p].text # "indexed" \/ gap'[p] \cap Stale # {}
  \/ /\ RowKept(p) /\ ~Owed(p) /\ row[p].text = "indexed" /\ text'[p] = text[p]
     /\ gap[p] \cap Foreign \subseteq gap'[p]
KeptImage(p) ==
  \/ row'[p].live = "no" \/ Owed(p)' \/ row'[p].image # "indexed" \/ gap'[p] \cap Stale # {}
  \/ /\ RowKept(p) /\ ~Owed(p) /\ row[p].image = "indexed" /\ image'[p] = image[p]
     /\ gap[p] \cap Stale \subseteq gap'[p]
Held(c) ==
  /\ call'[c] = call[c] /\ Taking(c)
  /\ text'[call[c].path] = text[call[c].path] /\ image'[call[c].path] = image[call[c].path]

LEMMA KeptFrom ==
  ASSUME NEW p \in Paths, RowKept(p), Owed(p) => Owed(p)',
         row'[p].text = "indexed" => row[p].text = "indexed" /\ text'[p] = text[p],
         row'[p].image = "indexed" => row[p].image = "indexed" /\ image'[p] = image[p],
         gap[p] \subseteq gap'[p]
  PROVE  KeptText(p) /\ KeptImage(p)
  BY DEF KeptText, KeptImage

LEMMA HeldFrom ==
  ASSUME IInv, NInv, NEW d \in Clients, Goes(d), NEW c \in Clients, c # d, Taking(c)',
         \A p \in Paths : row[p].live = "no" /\ RowKept(p) /\ ~(call[d].op = "mv" /\ call[d].at = "tail" /\ call[d].path = p)
            => text'[p] = text[p] /\ image'[p] = image[p]
  PROVE  Held(c)
  <1>0. PICK p : p = call[c].path
    OBVIOUS
  <1>1. Others(d) /\ call[d].op # "none"
    BY DEF Goes
  <1>2. call'[c] = call[c] /\ p \in Paths /\ call[c].op = "mv" /\ row'[p].v = call[c].n
    BY <1>0, <1>1, CallTyped DEF Others, Taking, Rewritten
  <1>3. call[c].n # call[d].n
    BY <1>1, <1>2 DEF IInv, CallsNumbered, Active
  <1>4. RowKept(p)
    BY <1>2, <1>3 DEF Goes
  <1>5. Taking(c) /\ row[p].live = "no"
    BY <1>0, <1>2, <1>4 DEF Taking, Rewritten, RowKept
  <1>6. ~(call[d].op = "mv" /\ call[d].at = "tail" /\ call[d].path = p)
    BY <1>0, <1>5 DEF NInv, TakesAlone
  <1> QED
    BY <1>0, <1>2, <1>4, <1>5, <1>6 DEF Held

(* A call begins. *)
LEMMA BeginStep ==
  ASSUME IInv, NEW c \in Clients,
         \/ \E p \in Paths : \/ \E k \in Kinds : putObject(c, p, k)
                             \/ deleteObject(c, p)
                             \/ \E q \in Paths : copyObject(c, p, q)
         \/ reindex(c)
  PROVE  /\ up = "yes" /\ call[c].op = "none" /\ calls' = calls + 1 /\ Others(c) /\ SameSlots
         /\ call'[c].n = calls + 1 /\ (call'[c].op = "mv" => call'[c].at = "commit") /\ (call'[c].op = "write" => call'[c].at = "commit")
         /\ UNCHANGED <<up, conf, meta, text, image, mig, gap>>
         /\ \A p \in Paths : /\ RowKept(p) /\ row'[p].text = row[p].text
                             /\ row'[p].image = row[p].image \/ row'[p].image = "pending"
  <1>1. CASE \E p \in Paths : \E k \in Kinds : putObject(c, p, k)
    <2>1. PICK p \in Paths, k \in Kinds : putObject(c, p, k)
      BY <1>1
    <2> QED
      BY <2>1, PutDoes DEF RowKept
  <1>2. CASE \E p \in Paths : deleteObject(c, p)
    <2>1. PICK p \in Paths : deleteObject(c, p)
      BY <1>2
    <2> QED
      BY <2>1, DeleteDoes DEF RowKept
  <1>3. CASE \E p \in Paths : \E q \in Paths : copyObject(c, p, q)
    <2>1. PICK p \in Paths, q \in Paths : copyObject(c, p, q)
      BY <1>3
    <2> QED
      BY <2>1, CopyDoes DEF RowKept
  <1>4. CASE reindex(c)
    BY <1>4, ReindexDoes
  <1> QED
    BY <1>1, <1>2, <1>3, <1>4

LEMMA BeginHolds ==
  ASSUME IInv, NEW c \in Clients,
         \/ \E p \in Paths : \/ \E k \in Kinds : putObject(c, p, k)
                             \/ deleteObject(c, p)
                             \/ \E q \in Paths : copyObject(c, p, q)
         \/ reindex(c)
  PROVE  /\ \A p \in Paths : KeptText(p) /\ KeptImage(p)
         /\ \A d \in Clients : Taking(d)' => Held(d)
  <1>1. /\ call[c].op = "none" /\ Others(c) /\ (call'[c].op = "mv" => call'[c].at = "commit")
        /\ UNCHANGED <<text, image, gap>>
        /\ \A p \in Paths : /\ RowKept(p) /\ row'[p].text = row[p].text
                            /\ row'[p].image = row[p].image \/ row'[p].image = "pending"
    BY BeginStep
  <1>2. ASSUME NEW p \in Paths PROVE KeptText(p) /\ KeptImage(p)
    <2>1. RowKept(p) /\ row'[p].v = row[p].v /\ ~Owns(call[c], p)
      BY <1>1 DEF RowKept, Owns
    <2>2. Owed(p) => Owed(p)'
      BY <1>1, <2>1, OwedKept
    <2> QED
      BY <1>1, <2>1, <2>2, KeptFrom
  <1>3. ASSUME NEW d \in Clients, Taking(d)' PROVE Held(d)
    <2>1. d # c
      BY <1>1, <1>3 DEF Taking
    <2>2. call'[d] = call[d] /\ call[d].path \in Paths
      BY <1>1, <2>1, CallTyped DEF Others
    <2>3. Taking(d)
      BY <1>1, <1>3, <2>2 DEF Taking, Rewritten, RowKept
    <2> QED
      BY <1>1, <2>2, <2>3 DEF Held
  <1> QED
    BY <1>2, <1>3

LEMMA CommitHolds ==
  ASSUME IInv, NInv, NEW c \in Clients, createVersion(c) \/ mvCommit(c) \/ mvDelete(c)
  PROVE  /\ \A p \in Paths : KeptText(p) /\ KeptImage(p)
         /\ \A d \in Clients : Taking(d)' => Held(d)
  <1>0. UNCHANGED <<text, image, gap>> /\ Others(c)
    BY CreateVersionDoes, MvCommitDoes, MvDeleteDoes
  <1>00. call[c].path \in Paths /\ call[c].to \in Paths
    BY CallTyped
  <1>1. Goes(c) /\ ~Taking(c)'
    <2>1. CASE createVersion(c)
      <3>1. call'[c].op = "write"
        BY <2>1, CreateVersionDoes
      <3> QED
        BY <2>1, <3>1, CreateVersionGoes DEF Taking
    <2>2. CASE mvCommit(c)
      <3>1. call'[c] = Idle \/ call'[c].at = "delete"
        BY <2>2, MvCommitDoes
      <3> QED
        BY <2>2, <3>1, MvCommitGoes DEF Taking, Idle
    <2>3. CASE mvDelete(c)
      <3>1. call'[c].at = "gone"
        BY <2>3, MvDeleteDoes
      <3> QED
        BY <2>3, <3>1, MvDeleteGoes DEF Taking
    <2> QED
      BY <2>1, <2>2, <2>3
  <1>2. ASSUME NEW d \in Clients, Taking(d)' PROVE Held(d)
    BY <1>0, <1>1, <1>2, HeldFrom
  <1>3. ASSUME NEW p \in Paths PROVE KeptText(p) /\ KeptImage(p)
    <2>1. Owed(p)' \/ (row'[p] = row[p] /\ (Owed(p) => Owed(p)'))
      <3>1. CASE createVersion(c)
        <4>1. /\ call[c].op = "write" /\ call[c].at = "commit" /\ call'[c].op = "write" /\ call'[c].at = "index"
              /\ call'[c].n = call[c].n /\ call'[c].path = call[c].path
              /\ row'[call[c].path].v = call[c].n /\ \A q \in Paths \ {call[c].path} : row'[q] = row[q]
          BY <3>1, CreateVersionDoes
        <4>2. CASE p = call[c].path
          BY <4>1, <4>2 DEF Owed, Owns
        <4>3. CASE p # call[c].path
          <5>1. row'[p] = row[p] /\ ~Owns(call[c], p)
            BY <4>1, <4>3 DEF Owns
          <5> QED
            BY <1>0, <5>1, OwedKept
        <4> QED
          BY <4>2, <4>3
      <3>2. CASE mvCommit(c)
        <4>1. call[c].op = "mv" /\ call[c].at = "commit"
          BY <3>2, MvCommitDoes
        <4>2. \/ row' = row
              \/ /\ \A q \in Paths \ {call[c].to} : row'[q] = row[q]
                 /\ call'[c].op = "mv" /\ call'[c].at = "delete" /\ call'[c].n = call[c].n /\ call'[c].to = call[c].to
                 /\ row'[call[c].to].v = call[c].n
          BY <3>2, MvCommitDoes
        <4>3. CASE row' # row /\ p = call[c].to
          BY <4>2, <4>3 DEF Owed, Owns
        <4>4. CASE ~(row' # row /\ p = call[c].to)
          <5>1. row'[p] = row[p] /\ ~Owns(call[c], p)
            BY <4>1, <4>2, <4>4 DEF Owns
          <5> QED
            BY <1>0, <5>1, OwedKept
        <4> QED
          BY <4>3, <4>4
      <3>3. CASE mvDelete(c)
        <4>1. /\ call[c].op = "mv" /\ call[c].at = "delete" /\ call'[c].op = "mv" /\ call'[c].at = "gone"
              /\ call'[c].n = call[c].n /\ call'[c].to = call[c].to /\ row' = row
          BY <3>3, MvDeleteDoes
        <4>2. Owns(call[c], p) => Owns(call[c], p)'
          BY <4>1 DEF Owns
        <4> QED
          BY <1>0, <4>1, <4>2, OwedKept
      <3> QED
        BY <3>1, <3>2, <3>3
    <2>2. CASE Owed(p)'
      BY <2>2 DEF KeptText, KeptImage
    <2>3. CASE row'[p] = row[p] /\ (Owed(p) => Owed(p)')
      BY <1>0, <2>3, KeptFrom DEF RowKept
    <2> QED
      BY <2>1, <2>2, <2>3
  <1> QED
    BY <1>2, <1>3

LEMMA GoneHolds ==
  ASSUME IInv, NInv, NEW c \in Clients, rm(c) \/ mvGone(c)
  PROVE  /\ \A p \in Paths : KeptText(p) /\ KeptImage(p)
         /\ \A d \in Clients \ {c} : Taking(d)' => Held(d)
         /\ rm(c) => ~Taking(c)'
  <1>0. call[c].path \in Paths /\ call[c].to \in Paths
    BY CallTyped
  <1>1. /\ Others(c) /\ row'[call[c].path].live = "no"
        /\ \A p \in Paths \ {call[c].path} : row'[p] = row[p] /\ text'[p] = text[p] /\ image'[p] = image[p] /\ gap'[p] = gap[p]
    BY RmDoes, MvGoneDoes
  <1>2. Goes(c)
    BY SettlesGoes, MvGoneGoes
  <1>3. rm(c) => ~Taking(c)'
    <2>1. rm(c) => call'[c] = Idle
      BY RmDoes
    <2> QED
      BY <2>1 DEF Taking, Idle
  <1>4. rm(c) => ~RowKept(call[c].path)
    <2> SUFFICES ASSUME rm(c) PROVE ~RowKept(call[c].path)
      OBVIOUS
    <2>1. call[c].op = "rm" /\ call[c].at = "commit" /\ row'[call[c].path].v = call[c].n
      BY RmDoes
    <2>2. WillCommit(call[c], call[c].path)
      BY <2>1 DEF WillCommit, Replaces
    <2>3. row[call[c].path].v # call[c].n
      BY <1>0, <2>2 DEF NInv, NumbersUnseen, Unseen
    <2> QED
      BY <2>1, <2>3 DEF RowKept
  <1>5. mvGone(c) => text' = text /\ image' = image
    BY MvGoneDoes
  <1>6. ASSUME NEW d \in Clients \ {c}, Taking(d)' PROVE Held(d)
    BY <1>1, <1>2, <1>4, <1>5, <1>6, HeldFrom
  <1>7. ASSUME NEW p \in Paths PROVE KeptText(p) /\ KeptImage(p)
    <2>1. CASE p = call[c].path
      BY <1>1, <2>1 DEF KeptText, KeptImage
    <2>2. CASE p # call[c].path
      <3>1. row'[p] = row[p] /\ text'[p] = text[p] /\ image'[p] = image[p] /\ gap'[p] = gap[p]
        BY <1>1, <2>2
      <3>2. Owns(call[c], p) => Owns(call[c], p)' /\ call'[c].n = call[c].n
        <4>1. CASE rm(c)
          <5>1. call[c].op = "rm"
            BY <4>1, RmDoes
          <5> QED
            BY <5>1 DEF Owns
        <4>2. CASE mvGone(c)
          <5>1. call[c].op = "mv" /\ call'[c].op = "mv" /\ call'[c].at = "tail" /\ call'[c].n = call[c].n /\ call'[c].to = call[c].to
            BY <4>2, MvGoneDoes
          <5> QED
            BY <5>1 DEF Owns
        <4> QED
          BY <4>1, <4>2
      <3>3. Owed(p) => Owed(p)'
        BY <1>1, <3>1, <3>2, OwedKept
      <3> QED
        BY <3>1, <3>3, KeptFrom DEF RowKept
    <2> QED
      BY <2>1, <2>2
  <1> QED
    BY <1>3, <1>6, <1>7

LEMMA IndexHolds ==
  ASSUME IInv, NInv, NEW c \in Clients, indexForSearch(c)
  PROVE  /\ \A p \in Paths : KeptText(p) /\ KeptImage(p)
         /\ \A d \in Clients : Taking(d)' => Held(d)
  <1>0. call[c].path \in Paths /\ Goes(c)
    BY CallTyped, SettlesGoes
  <1>1. call[c].op = "write" /\ call[c].at = "index" /\ Others(c) /\ call'[c] = Idle
    BY IndexDoes
  <1>2. ~Taking(c)'
    BY <1>1 DEF Taking, Idle
  <1>3. CASE ~isCurrent(call[c].path, call[c].n)
    <2>1. UNCHANGED <<row, text, image, gap>>
      BY <1>3, IndexDoes
    <2>2. \A d \in Clients : Taking(d)' => Held(d)
      BY <1>0, <1>2, <2>1, HeldFrom
    <2>3. ASSUME NEW p \in Paths PROVE KeptText(p) /\ KeptImage(p)
      <3>1. CASE row[p].live = "yes"
        <4>1. ~(Owns(call[c], p) /\ call[c].n = row[p].v)
          BY <1>1, <1>3, <3>1 DEF Owns, isCurrent
        <4>2. Owed(p) => Owed(p)'
          BY <1>1, <2>1, <4>1, OwedKept
        <4> QED
          BY <2>1, <4>2, KeptFrom DEF RowKept
      <3>2. CASE row[p].live # "yes"
        <4>1. row'[p].live = "no"
          BY <2>1, <3>2, JobsTyped DEF Row
        <4> QED
          BY <4>1 DEF KeptText, KeptImage
      <3> QED
        BY <3>1, <3>2
    <2> QED
      BY <2>2, <2>3
  <1>4. CASE isCurrent(call[c].path, call[c].n)
    <2>1. /\ \A p \in Paths : RowKept(p)
          /\ \A p \in Paths \ {call[c].path} : row'[p] = row[p] /\ text'[p] = text[p] /\ image'[p] = image[p] /\ gap'[p] = gap[p]
          /\ row'[call[c].path].text \in {"pending", "null"} /\ row'[call[c].path].image \in {"pending", "null"}
      BY <1>4, IndexDoes
    <2>2. \A p \in Paths : row[p].live = "no" => text'[p] = text[p] /\ image'[p] = image[p]
      BY <1>4, <2>1 DEF isCurrent
    <2>3. \A d \in Clients : Taking(d)' => Held(d)
      BY <1>0, <1>2, <2>2, HeldFrom
    <2>4. ASSUME NEW p \in Paths PROVE KeptText(p) /\ KeptImage(p)
      <3>1. CASE p = call[c].path
        BY <2>1, <3>1 DEF KeptText, KeptImage
      <3>2. CASE p # call[c].path
        <4>1. row'[p] = row[p] /\ text'[p] = text[p] /\ image'[p] = image[p] /\ gap'[p] = gap[p] /\ ~Owns(call[c], p) /\ RowKept(p)
          BY <1>1, <2>1, <3>2 DEF Owns
        <4>2. Owed(p) => Owed(p)'
          BY <1>1, <4>1, OwedKept
        <4> QED
          BY <4>1, <4>2, KeptFrom
      <3> QED
        BY <3>1, <3>2
    <2> QED
      BY <2>3, <2>4
  <1> QED
    BY <1>3, <1>4

LEMMA ReindexHolds ==
  ASSUME IInv, NInv, NEW c \in Clients, reindexDone(c) \/ \E r \in call[c].rows : reindexRead(c, r)
  PROVE  /\ \A p \in Paths : KeptText(p) /\ KeptImage(p)
         /\ \A d \in Clients : Taking(d)' => Held(d)
  <1>1. Goes(c) /\ Others(c) /\ UNCHANGED <<row, text, image, gap>> /\ call[c].op = "reindex" /\ call'[c].op # "mv"
    <2>1. CASE reindexDone(c)
      <3>1. Others(c) /\ UNCHANGED <<row, text, image, gap>> /\ call[c].op = "reindex" /\ call'[c] = Idle
        BY <2>1, ReindexDoneDoes
      <3> QED
        BY <2>1, <3>1, SettlesGoes DEF Idle
    <2>2. CASE \E r \in call[c].rows : reindexRead(c, r)
      BY <2>2, ReindexReadDoes, ReindexReadGoes
    <2> QED
      BY <2>1, <2>2
  <1>2. \A d \in Clients : Taking(d)' => Held(d)
    <2>1. ~Taking(c)'
      BY <1>1 DEF Taking
    <2> QED
      BY <1>1, <2>1, HeldFrom
  <1>3. ASSUME NEW p \in Paths PROVE KeptText(p) /\ KeptImage(p)
    <2>1. ~Owns(call[c], p)
      BY <1>1 DEF Owns
    <2>2. Owed(p) => Owed(p)'
      BY <1>1, <2>1, OwedKept
    <2> QED
      BY <1>1, <2>2, KeptFrom DEF RowKept
  <1> QED
    BY <1>2, <1>3

(* The destination of a move is left to the theorems that follow. *)
LEMMA MvTailHolds ==
  ASSUME IInv, NInv, NEW c \in Clients, mvTail(c)
  PROVE  /\ \A p \in Paths : p # call[c].to \/ ~TargetUnchanged(call[c]) => KeptText(p) /\ KeptImage(p)
         /\ \A d \in Clients : Taking(d)' => Held(d)
  <1>0. PICK a \in Paths, b \in Paths : a = call[c].path /\ b = call[c].to
    BY CallTyped
  <1>1. MvTailEffect(c, a, b) /\ Goes(c)
    BY <1>0, MvTailDoes, SettlesGoes
  <1>2. /\ call[c].op = "mv" /\ call[c].at = "tail" /\ Others(c) /\ call'[c] = Idle /\ a # b
        /\ \A p \in Paths : RowKept(p)
        /\ \A p \in Paths \ {a, b} : row'[p] = row[p] /\ text'[p] = text[p] /\ image'[p] = image[p] /\ gap'[p] = gap[p]
        /\ Rewritten(call[c]) => "source rewritten" \in gap'[a]
        /\ ~TargetUnchanged(call[c]) => row'[b] = row[b] /\ text'[b] = text[b] /\ image'[b] = image[b] /\ gap'[b] = gap[b]
    BY <1>1 DEF MvTailEffect
  <1>3. \A d \in Clients : Taking(d)' => Held(d)
    <2>00. call'[c] = Idle
      BY <1>2
    <2>0. call'[c].op = "none"
      BY <2>00 DEF Idle
    <2>1. ~Taking(c)'
      BY <2>0 DEF Taking
    <2>2. \A p \in Paths : row[p].live = "no" /\ p # a => text'[p] = text[p] /\ image'[p] = image[p]
      BY <1>0, <1>2 DEF TargetUnchanged, isCurrent
    <2> QED
      BY <1>0, <1>1, <1>2, <2>1, <2>2, HeldFrom
  <1>4. ASSUME NEW p \in Paths, p # b \/ ~TargetUnchanged(call[c]) PROVE KeptText(p) /\ KeptImage(p)
    <2>1. CASE row'[p].live = "no"
      BY <2>1 DEF KeptText, KeptImage
    <2>2. CASE row'[p].live # "no" /\ p = a
      <3>1. Rewritten(call[c])
        BY <1>0, <1>2, <2>2 DEF Rewritten, RowKept
      <3>2. gap'[p] \cap Stale # {}
        BY <1>2, <2>2, <3>1 DEF Stale
      <3> QED
        BY <3>2 DEF KeptText, KeptImage
    <2>3. CASE row'[p].live # "no" /\ p # a
      <3>1. row'[p] = row[p] /\ text'[p] = text[p] /\ image'[p] = image[p] /\ gap'[p] = gap[p] /\ RowKept(p)
        BY <1>2, <1>4, <2>3
      <3>2. row[p].live = "yes"
        BY <2>3, <3>1, JobsTyped DEF Row
      <3>3. ~(Owns(call[c], p) /\ call[c].n = row[p].v)
        BY <1>0, <1>2, <1>4, <3>2 DEF Owns, TargetUnchanged, isCurrent
      <3>4. Owed(p) => Owed(p)'
        BY <1>2, <3>1, <3>3, OwedKept
      <3> QED
        BY <3>1, <3>4, KeptFrom
    <2> QED
      BY <2>1, <2>2, <2>3
  <1> QED
    BY <1>0, <1>3, <1>4

LEMMA BackHolds ==
  ASSUME IInv, call' = call, \A p \in Paths : RowKept(p) /\ gap[p] \subseteq gap'[p],
         \A p \in Paths : row'[p].text = "indexed" => row[p].text = "indexed" /\ text'[p] = text[p],
         \A p \in Paths : row'[p].image = "indexed" => row[p].image = "indexed" /\ image'[p] = image[p],
         \A p \in Paths : row[p].live = "no" => text'[p] = text[p] /\ image'[p] = image[p]
  PROVE  /\ \A p \in Paths : KeptText(p) /\ KeptImage(p)
         /\ \A c \in Clients : Taking(c)' => Held(c)
  <1>1. ASSUME NEW p \in Paths PROVE KeptText(p) /\ KeptImage(p)
    <2>1. RowKept(p) /\ row'[p].v = row[p].v
      BY DEF RowKept
    <2>2. Owed(p) => Owed(p)'
      BY <2>1, OwedSame
    <2> QED
      BY <2>1, <2>2, KeptFrom
  <1>2. ASSUME NEW c \in Clients, Taking(c)' PROVE Held(c)
    <2>1. call[c].path \in Paths
      BY CallTyped
    <2>2. Taking(c) /\ row[call[c].path].live = "no"
      BY <1>2, <2>1 DEF Taking, Rewritten, RowKept
    <2> QED
      BY <2>1, <2>2 DEF Held
  <1> QED
    BY <1>1, <1>2

LEMMA QuietHolds ==
  ASSUME IInv,
         \/ \E t \in running : failed(t) \/ initFailed(t)
         \/ warmupFailed \/ migrationSelect \/ migrationRead \/ migrationExtract \/ afterMigration
         \/ imageSlot \/ imageSelect \/ imageRow \/ embedImageFile
  PROVE  /\ Backstage /\ meta'.format = meta.format
         /\ \A p \in Paths : KeptText(p) /\ KeptImage(p)
         /\ \A c \in Clients : Taking(c)' => Held(c)
         /\ image' = image /\ \A p \in Paths : gap[p] \subseteq gap'[p]
  <1>1. ASSUME NEW t \in running, failed(t)
        PROVE  /\ Backstage /\ meta'.format = meta.format /\ text' = text /\ image' = image
               /\ \A p \in Paths : /\ gap[p] \subseteq gap'[p]
                                   /\ row'[p].text = "indexed" => row[p].text = "indexed"
                                   /\ row'[p].image = "indexed" => row[p].image = "indexed"
    <2>1. Leave(t) /\ Resume(t) /\ Backstage /\ text' = text /\ image' = image /\ gap' = gap
      BY <1>1, FailedDoes
    <2>2. meta'.format = meta.format
      BY <2>1, ResumeDoes
    <2>3. ASSUME NEW p \in Paths
          PROVE  (row'[p].text = "indexed" => row[p].text = "indexed") /\ (row'[p].image = "indexed" => row[p].image = "indexed")
      <3>1. CASE p # t.path \/ ~isCurrent(t.path, t.v)
        BY <1>1, <3>1, FailedDoes
      <3>2. CASE p = t.path /\ isCurrent(t.path, t.v) /\ t.by = "image"
        <4>1. row'[p].image = "failed" /\ row'[p].text = row[p].text
          BY <1>1, <3>2, FailedDoes
        <4> QED
          BY <4>1
      <3>3. CASE p = t.path /\ isCurrent(t.path, t.v) /\ t.by # "image"
        <4>1. row'[p].text = "failed" /\ row'[p].image = row[p].image
          BY <1>1, <3>3, FailedDoes
        <4> QED
          BY <4>1
      <3> QED
        BY <3>1, <3>2, <3>3
    <2> QED
      BY <2>1, <2>2, <2>3
  <1>2. ASSUME NEW t \in running, initFailed(t)
        PROVE  /\ Backstage /\ meta'.format = meta.format /\ row' = row /\ text' = text /\ image' = image
               /\ \A p \in Paths : gap[p] \subseteq gap'[p]
    BY <1>2, InitFailedDoes
  <1>3. ASSUME warmupFailed \/ migrationSelect \/ imageSlot \/ imageSelect
        PROVE  /\ Backstage /\ meta'.format = meta.format /\ row' = row /\ text' = text /\ image' = image
               /\ \A p \in Paths : gap[p] \subseteq gap'[p]
    BY <1>3, WarmupFailedDoes, MigrationSelectDoes, ImageSlotDoes, ImageSelectDoes
  <1>4. ASSUME migrationRead \/ migrationExtract
        PROVE  /\ Backstage /\ meta'.format = meta.format /\ image' = image /\ gap' = gap
               /\ \A p \in Paths : TextDropped(p)
    BY <1>4, MigrationReadDoes, MigrationExtractDoes
  <1>5. ASSUME afterMigration \/ imageRow \/ embedImageFile
        PROVE  /\ Backstage /\ meta'.format = meta.format /\ text' = text /\ image' = image /\ gap' = gap
               /\ \A p \in Paths : /\ row'[p].text = row[p].text
                                   /\ row'[p].image = row[p].image \/ row'[p].image \in {"null", "failed", "pending"}
    BY <1>5, AfterMigrationDoes, ImageRowDoes, EmbedImageDoes
  <1>6. /\ Backstage /\ meta'.format = meta.format /\ image' = image
        /\ \A p \in Paths : gap[p] \subseteq gap'[p]
    BY <1>1, <1>2, <1>3, <1>4, <1>5
  <1>7. ASSUME NEW p \in Paths
        PROVE  /\ row'[p].text = "indexed" => row[p].text = "indexed" /\ text'[p] = text[p]
               /\ row'[p].image = "indexed" => row[p].image = "indexed"
               /\ row[p].live = "no" => text'[p] = text[p]
    <2>1. CASE \E t \in running : failed(t) \/ initFailed(t)
      BY <1>1, <1>2, <2>1
    <2>2. CASE warmupFailed \/ migrationSelect \/ imageSlot \/ imageSelect
      BY <1>3, <2>2
    <2>3. CASE migrationRead \/ migrationExtract
      <3>1. TextDropped(p)
        BY <1>4, <2>3
      <3> QED
        BY <3>1 DEF TextDropped
    <2>4. CASE afterMigration \/ imageRow \/ embedImageFile
      BY <1>5, <2>4
    <2> QED
      BY <2>1, <2>2, <2>3, <2>4
  <1>8. call' = call /\ \A p \in Paths : RowKept(p)
    BY <1>6 DEF Backstage
  <1>9. /\ \A p \in Paths : KeptText(p) /\ KeptImage(p)
        /\ \A c \in Clients : Taking(c)' => Held(c)
    BY <1>6, <1>7, <1>8, BackHolds
  <1> QED
    BY <1>6, <1>9

LEMMA BootHolds ==
  ASSUME IInv, UNCHANGED vars \/ \E s \in Settings : Boot(s)
  PROVE  /\ UNCHANGED <<meta, obj, row, text, image, call, calls>> /\ Tasks' = Tasks
         /\ \A p \in Paths : gap'[p] \cap Foreign = gap[p] \cap Foreign
         /\ \A p \in Paths : KeptText(p) /\ KeptImage(p)
         /\ \A c \in Clients : Taking(c)' => Held(c)
  <1>1. /\ UNCHANGED <<meta, obj, row, text, image, call, calls>> /\ Tasks' = Tasks
        /\ \A p \in Paths : gap'[p] \cap Foreign = gap[p] \cap Foreign
    <2>1. CASE UNCHANGED vars
      BY <2>1 DEF vars, Tasks, Waiters
    <2>2. CASE \E s \in Settings : Boot(s)
      <3>1. Foreign \cap Waits = {}
        BY DEF Foreign, Stale, Waits
      <3>2. \A p \in Paths : gap'[p] = gap[p] \ Waits
        BY <2>2, BootDoes
      <3>3. UNCHANGED <<meta, obj, row, text, image, call, calls>> /\ Tasks' = Tasks
        BY <2>2, BootDoes
      <3> QED
        BY <3>1, <3>2, <3>3
    <2> QED
      BY <2>1, <2>2
  <1>2. ASSUME NEW p \in Paths PROVE KeptText(p) /\ KeptImage(p)
    <2>1. RowKept(p) /\ (Owed(p)' <=> Owed(p))
      BY <1>1, OwedSame DEF RowKept
    <2>2. gap[p] \cap Foreign \subseteq gap'[p] /\ gap[p] \cap Stale \subseteq gap'[p]
      BY <1>1 DEF Foreign
    <2> QED
      BY <1>1, <2>1, <2>2 DEF KeptText, KeptImage
  <1>3. \A c \in Clients : Taking(c)' => Held(c)
    BY <1>1 DEF Taking, Rewritten, Held
  <1> QED
    BY <1>1, <1>2, <1>3

LEMMA EmbeddedHolds ==
  ASSUME IInv, NEW t \in running, embedded(t)
  PROVE  /\ Backstage /\ meta'.format = meta.format /\ Tasks' = Tasks \ {t} /\ t \in Tasks /\ t.path \in Paths
         /\ \A p \in Paths : KeptText(p) \/ (p = t.path /\ isCurrent(t.path, t.v) /\ t.by # "image")
         /\ \A p \in Paths : KeptImage(p) \/ (p = t.path /\ isCurrent(t.path, t.v) /\ t.by = "image")
         /\ \A c \in Clients : Taking(c)' => Held(c)
         /\ \A p \in Paths : image'[p] = image[p] \/ (p = t.path /\ isCurrent(t.path, t.v) /\ t.by = "image")
         /\ \A p \in Paths : gap[p] \cap Stale \subseteq gap'[p]
  <1>1. Leave(t) /\ Resume(t) /\ Backstage /\ t.path \in Paths
    BY EmbeddedDoes
  <1>2. meta'.format = meta.format /\ Tasks' = Tasks \ {t} /\ t \in Tasks
    BY <1>1, ResumeDoes
  <1>3. \A p \in Paths : p # t.path \/ ~isCurrent(t.path, t.v) =>
           row'[p] = row[p] /\ text'[p] = text[p] /\ image'[p] = image[p] /\ gap'[p] = gap[p]
    BY EmbeddedDoes
  <1>4. isCurrent(t.path, t.v) /\ t.by = "image" =>
           row'[t.path].text = row[t.path].text /\ text'[t.path] = text[t.path] /\ gap'[t.path] = gap[t.path]
    BY EmbeddedDoes
  <1>5. isCurrent(t.path, t.v) /\ t.by # "image" =>
           /\ row'[t.path].image = row[t.path].image /\ image'[t.path] = image[t.path]
           /\ gap'[t.path] = (gap[t.path] \ {"foreign format"}) \cup IF NewFormat THEN {"foreign format"} ELSE {}
    BY EmbeddedDoes
  <1>6. ASSUME NEW p \in Paths
        PROVE  /\ RowKept(p) /\ (Owed(p) => Owed(p)')
    <2>1. RowKept(p) /\ row'[p].v = row[p].v /\ call' = call
      BY <1>1 DEF Backstage, RowKept
    <2> QED
      BY <2>1, OwedSame
  <1>7. ASSUME NEW p \in Paths PROVE KeptText(p) \/ (p = t.path /\ isCurrent(t.path, t.v) /\ t.by # "image")
    <2>1. CASE p # t.path \/ ~isCurrent(t.path, t.v)
      BY <1>3, <1>6, <2>1, KeptFrom
    <2>2. CASE p = t.path /\ isCurrent(t.path, t.v) /\ t.by = "image"
      BY <1>4, <1>6, <2>2 DEF KeptText
    <2> QED
      BY <2>1, <2>2
  <1>8. ASSUME NEW p \in Paths PROVE KeptImage(p) \/ (p = t.path /\ isCurrent(t.path, t.v) /\ t.by = "image")
    <2>1. CASE p # t.path \/ ~isCurrent(t.path, t.v)
      BY <1>3, <1>6, <2>1, KeptFrom
    <2>2. CASE p = t.path /\ isCurrent(t.path, t.v) /\ t.by # "image"
      <3>1. gap[p] \cap Stale \subseteq gap'[p]
        BY <1>5, <2>2 DEF Stale
      <3> QED
        BY <1>5, <1>6, <2>2, <3>1 DEF KeptImage
    <2> QED
      BY <2>1, <2>2
  <1>9. ASSUME NEW c \in Clients, Taking(c)' PROVE Held(c)
    <2>1. call[c].path \in Paths /\ call' = call
      BY <1>1, CallTyped DEF Backstage
    <2>2. Taking(c) /\ row[call[c].path].live = "no"
      BY <1>6, <1>9, <2>1 DEF Taking, Rewritten, RowKept
    <2>3. call[c].path # t.path \/ ~isCurrent(t.path, t.v)
      BY <2>2 DEF isCurrent
    <2> QED
      BY <1>3, <2>1, <2>2, <2>3 DEF Held
  <1>10. \A p \in Paths : image'[p] = image[p] \/ (p = t.path /\ isCurrent(t.path, t.v) /\ t.by = "image")
    BY <1>3, <1>5
  <1>11. \A p \in Paths : gap[p] \cap Stale \subseteq gap'[p]
    BY <1>3, <1>4, <1>5 DEF Stale
  <1> QED
    BY <1>1, <1>2, <1>7, <1>8, <1>9, <1>10, <1>11

LEMMA WarmedUpHolds ==
  ASSUME IInv, warmedUp
  PROVE  /\ \A p \in Paths : KeptText(p) /\ KeptImage(p)
         /\ \A c \in Clients : Taking(c)' =>
               /\ Taking(c) /\ call'[c] = call[c] /\ text' = text
               /\ image'[call[c].path] = image[call[c].path] \/ DropImages
  <1>1. Backstage /\ text' = text /\ gap' = gap
    BY WarmedUpDoes
  <1>2. \/ DropImages /\ \A p \in Paths : row'[p].image = "null" /\ image'[p] = NoChunks
        \/ ~DropImages /\ image' = image /\ \A p \in Paths : row'[p].image = row[p].image
    BY WarmedUpDoes
  <1>3. \A p \in Paths : row'[p].text = "indexed" => row[p].text = "indexed"
    BY WarmedUpDoes
  <1>4. ASSUME NEW p \in Paths PROVE KeptText(p) /\ KeptImage(p)
    <2>1. RowKept(p) /\ row'[p].v = row[p].v /\ call' = call
      BY <1>1 DEF Backstage, RowKept
    <2>2. Owed(p) => Owed(p)'
      BY <2>1, OwedSame
    <2>3. row'[p].image = "indexed" => row[p].image = "indexed" /\ image'[p] = image[p]
      BY <1>2
    <2> QED
      BY <1>1, <1>3, <2>1, <2>2, <2>3, KeptFrom
  <1>5. ASSUME NEW c \in Clients, Taking(c)'
        PROVE  /\ Taking(c) /\ call'[c] = call[c] /\ text' = text
               /\ image'[call[c].path] = image[call[c].path] \/ DropImages
    <2>1. call[c].path \in Paths /\ call' = call
      BY <1>1, CallTyped DEF Backstage
    <2>2. Taking(c)
      BY <1>1, <1>5, <2>1 DEF Taking, Rewritten, RowKept, Backstage
    <2> QED
      BY <1>1, <1>2, <2>1, <2>2
  <1> QED
    BY <1>4, <1>5

LEMMA CrashHolds ==
  ASSUME IInv, Crash
  PROVE  /\ \A p \in Paths : KeptText(p) /\ KeptImage(p)
         /\ \A c \in Clients : ~Taking(c)'
  <1>1. /\ \A c \in Clients : call'[c] = Idle
        /\ \A p \in Paths : gap[p] \subseteq gap'[p] /\ (InFlight(p) => "interrupted" \in gap'[p])
        /\ UNCHANGED <<row, text, image>>
    BY CrashDoes
  <1>2. \A c \in Clients : ~Taking(c)'
    BY <1>1 DEF Taking, Idle
  <1>3. ASSUME NEW p \in Paths PROVE KeptText(p) /\ KeptImage(p)
    <2>1. CASE Owed(p)
      <3>1. InFlight(p)
        BY <2>1 DEF Owed, Owns, InFlight, Touches
      <3>2. gap'[p] \cap Stale # {}
        BY <1>1, <3>1 DEF Stale
      <3> QED
        BY <3>2 DEF KeptText, KeptImage
    <2>2. CASE ~Owed(p)
      BY <1>1, <2>2, KeptFrom DEF RowKept
    <2> QED
      BY <2>1, <2>2
  <1> QED
    BY <1>2, <1>3

LEMMA CallFailedHolds ==
  ASSUME IInv, NEW c \in Clients, callFailed(c)
  PROVE  /\ \A p \in Paths : KeptText(p) /\ KeptImage(p)
         /\ \A d \in Clients : Taking(d)' => Held(d)
  <1>1. /\ call'[c] = Idle
        /\ \A d \in Clients \ {c} : Weaker(d) /\ ("interrupted" \in call'[d].gap \/ call'[d] = call[d])
        /\ \A p \in Paths : /\ gap[p] \subseteq gap'[p]
                            /\ Touches(c, p) => {"interrupted", "left pending"} \subseteq gap'[p]
        /\ UNCHANGED <<row, text, image>>
    BY CallFailedDoes DEF IInv
  <1>2. ASSUME NEW d \in Clients, Taking(d)' PROVE Held(d)
    <2>1. d # c
      <3>1. call'[d].op = "mv"
        BY <1>2 DEF Taking
      <3>2. call'[c] = Idle
        BY <1>1
      <3>3. call'[c].op = "none"
        BY <3>2 DEF Idle
      <3> QED
        BY <3>1, <3>3
    <2>2. call'[d] = call[d]
      BY <1>1, <1>2, <2>1 DEF Taking, Stale
    <2> QED
      BY <1>1, <1>2, <2>2 DEF Taking, Rewritten, Held
  <1>3. ASSUME NEW p \in Paths PROVE KeptText(p) /\ KeptImage(p)
    <2>1. CASE Touches(c, p)
      <3>1. gap'[p] \cap Stale # {}
        BY <1>1, <2>1 DEF Stale
      <3> QED
        BY <3>1 DEF KeptText, KeptImage
    <2>2. CASE ~Touches(c, p)
      <3>1. Owed(p) => Owed(p)'
        BY <1>1, <2>2, OwedWeaker
      <3> QED
        BY <1>1, <3>1, KeptFrom DEF RowKept
    <2> QED
      BY <2>1, <2>2
  <1> QED
    BY <1>2, <1>3
-----------------------------------------------------------------------------
(* Vectors of two formats are never mixed: FInv.                              *)

TextAt(p) ==
  row[p].live = "yes" /\ ~Owed(p) /\ gap[p] \cap Foreign = {} /\ row[p].text = "indexed" => text[p].format = meta.format
TakenAt(c) ==
  Taking(c) /\ "foreign format" \notin call[c].gap /\ call[c].format = meta.format /\ call[c].text = "indexed"
     => text[call[c].path].format = meta.format

LEMMA FInvFrom ==
  ASSUME \A p \in Paths : image'[p] # NoChunks => image'[p].format = meta'.format,
         \A p \in Paths : TextAt(p)', \A c \in Clients : TakenAt(c)'
  PROVE  FInv'
  BY DEF FInv, ImageFormat, TextFormat, TakenFormat, TextAt, TakenAt, Foreign

LEMMA FInvGives ==
  ASSUME FInv
  PROVE  /\ \A p \in Paths : image[p] # NoChunks => image[p].format = meta.format
         /\ \A p \in Paths : TextAt(p)
         /\ \A c \in Clients : TakenAt(c)
  BY DEF FInv, ImageFormat, TextFormat, TakenFormat, TextAt, TakenAt, Foreign

LEMMA TextAtKept ==
  ASSUME NEW p \in Paths, IInv', TextAt(p), KeptText(p), meta'.format = meta.format PROVE TextAt(p)'
  <1> SUFFICES ASSUME row'[p].live = "yes", ~Owed(p)', gap'[p] \cap Foreign = {}, row'[p].text = "indexed"
               PROVE  text'[p].format = meta'.format
    BY DEF TextAt
  <1>1. gap'[p] \cap Stale = {}
    BY DEF Foreign
  <1>2. /\ RowKept(p) /\ ~Owed(p) /\ row[p].text = "indexed" /\ text'[p] = text[p]
        /\ gap[p] \cap Foreign \subseteq gap'[p]
    BY <1>1 DEF KeptText
  <1>3. row[p].live = "yes" /\ gap[p] \cap Foreign = {}
    BY <1>2 DEF RowKept
  <1> QED
    BY <1>2, <1>3 DEF TextAt

LEMMA TakenAtHeld ==
  ASSUME NEW c \in Clients, TakenAt(c), Taking(c)' => Held(c), meta'.format = meta.format PROVE TakenAt(c)'
  BY DEF TakenAt, Held

LEMMA FInvKept ==
  ASSUME IInv', FInv, meta'.format = meta.format, \A p \in Paths : KeptText(p), \A c \in Clients : Taking(c)' => Held(c),
         \A p \in Paths : image'[p] \in {NoChunks, image[p]}
  PROVE  FInv'
  <1>1. /\ \A p \in Paths : image[p] # NoChunks => image[p].format = meta.format
        /\ \A p \in Paths : TextAt(p)
        /\ \A c \in Clients : TakenAt(c)
    BY FInvGives
  <1>2. \A p \in Paths : TextAt(p)'
    BY <1>1, TextAtKept
  <1>3. \A c \in Clients : TakenAt(c)'
    BY <1>1, TakenAtHeld
  <1> QED
    BY <1>1, <1>2, <1>3, FInvFrom

(* A move that reaches its last step undisturbed leaves a file that nobody    *)
(* else owned, with the content it has copied.                                *)
LEMMA GoneUndisturbed ==
  ASSUME IInv, NInv, NEW c \in Clients, mvGone(c), call'[c].gap \cap {"source changed", "interrupted"} = {}
  PROVE  /\ row[call[c].path].live = "yes" /\ ~Owed(call[c].path) /\ Following(c)
         /\ call[c].text = "indexed" => row[call[c].path].text = "indexed"
         /\ call[c].image = "indexed" => row[call[c].path].image = "indexed"
         /\ ~Overlapped(c)
  <1>1. PICK p \in Paths : p = call[c].path /\ p # call[c].to
    <2>1. call[c].op = "mv"
      BY MvGoneDoes
    <2> QED
      BY <2>1, CallTyped
  <1>2. /\ call[c].op = "mv" /\ call[c].at = "gone" /\ ~SourceChanged(call[c]) /\ ~Overlapped(c)
        /\ call[c].gap \subseteq call'[c].gap
    BY MvGoneDoes
  <1>3. /\ row[p].v = call[c].seen /\ row[p].doc.id = call[c].doc.id
        /\ call[c].text = "indexed" => row[p].text = "indexed"
        /\ call[c].image = "indexed" => row[p].image = "indexed"
    BY <1>1, <1>2 DEF SourceChanged
  <1>4. row[p].live = "yes"
    <2>1. call[c].doc.id # 0 /\ (row[p].live = "no" => row[p].doc = NoDoc) /\ row[p] \in Row
      BY <1>2, JobsTyped DEF NInv, DocsCarried, Moves
    <2>2. row[p].live \in {"no", "yes"} /\ NoDoc.id = 0
      BY <2>1 DEF NoDoc, Row
    <2> QED
      BY <1>3, <2>1, <2>2
  <1>5. ~Owed(p)
    BY <1>1, <1>2 DEF Owed, Owns, Overlapped, Touches
  <1>6. Following(c)
    BY <1>1, <1>2, <1>3 DEF Following, Undisturbed
  <1> QED
    BY <1>1, <1>2, <1>3, <1>4, <1>5, <1>6

LEMMA MvGoneFInv == ASSUME IInv, IInv', NInv, FInv, NEW c \in Clients, mvGone(c) PROVE FInv'
  <1>1. /\ \A p \in Paths : image[p] # NoChunks => image[p].format = meta.format
        /\ \A p \in Paths : TextAt(p)
        /\ \A d \in Clients : TakenAt(d)
    BY FInvGives
  <1>2. /\ UNCHANGED <<meta, text, image>> /\ call'[c].path = call[c].path /\ call'[c].text = call[c].text
        /\ gap[call[c].path] \subseteq call'[c].gap
    BY MvGoneDoes
  <1>3. \A p \in Paths : TextAt(p)'
    BY <1>1, <1>2, GoneHolds, TextAtKept
  <1>4. ASSUME NEW d \in Clients PROVE TakenAt(d)'
    <2>1. CASE d # c
      BY <1>1, <1>2, <2>1, GoneHolds, TakenAtHeld
    <2>2. CASE d = c
      <3> SUFFICES ASSUME Taking(c)', "foreign format" \notin call'[c].gap, call'[c].text = "indexed"
                   PROVE  text[call[c].path].format = meta.format
        BY <1>2, <2>2 DEF TakenAt
      <3>1. call'[c].gap \cap Foreign = {} /\ call'[c].gap \cap {"source changed", "interrupted"} = {}
        BY DEF Taking, Foreign, Stale
      <3>2. row[call[c].path].live = "yes" /\ ~Owed(call[c].path) /\ row[call[c].path].text = "indexed"
        BY <1>2, <3>1, GoneUndisturbed
      <3>3. gap[call[c].path] \cap Foreign = {} /\ call[c].path \in Paths
        BY <1>2, <3>1, CallTyped
      <3> QED
        BY <1>1, <3>2, <3>3 DEF TextAt
    <2> QED
      BY <2>1, <2>2
  <1> QED
    BY <1>1, <1>2, <1>3, <1>4, FInvFrom

LEMMA MvTailFInv == ASSUME IInv, IInv', NInv, FInv, NEW c \in Clients, mvTail(c) PROVE FInv'
  <1>0. PICK a \in Paths, b \in Paths : a = call[c].path /\ b = call[c].to
    BY CallTyped
  <1>1. MvTailEffect(c, a, b)
    BY <1>0, MvTailDoes
  <1>2. /\ \A p \in Paths : image[p] # NoChunks => image[p].format = meta.format
        /\ \A p \in Paths : TextAt(p)
        /\ \A d \in Clients : TakenAt(d)
    BY FInvGives
  <1>3. meta' = meta
    BY <1>1 DEF MvTailEffect
  <1>4. \A d \in Clients : TakenAt(d)'
    BY <1>2, <1>3, MvTailHolds, TakenAtHeld
  <1>5. ASSUME NEW p \in Paths PROVE image'[p] # NoChunks => image'[p].format = meta'.format
    <2>1. image'[p] \in {NoChunks, image[p], image[a]}
      BY <1>1 DEF MvTailEffect
    <2> QED
      BY <1>2, <1>3, <2>1
  <1>6. ASSUME NEW p \in Paths PROVE TextAt(p)'
    <2>1. CASE p # b \/ ~TargetUnchanged(call[c])
      BY <1>0, <1>2, <1>3, <2>1, MvTailHolds, TextAtKept
    <2>2. CASE p = b /\ TargetUnchanged(call[c])
      <3> SUFFICES ASSUME gap'[p] \cap Foreign = {}, row'[p].text = "indexed" PROVE text'[p].format = meta'.format
        BY DEF TextAt
      <3>1. /\ call[c].op = "mv" /\ call[c].at = "tail" /\ row'[b].text = call[c].text /\ text'[b] = text[a]
            /\ call[c].gap \subseteq gap'[b] /\ (Rewritten(call[c]) => "source rewritten" \in gap'[b])
            /\ (call[c].format # meta.format => "format changed" \in gap'[b])
        BY <1>1, <2>2 DEF MvTailEffect
      <3>2. ~Rewritten(call[c]) /\ call[c].format = meta.format /\ call[c].gap \cap Stale = {} /\ "foreign format" \notin call[c].gap
        BY <2>2, <3>1 DEF Foreign, Stale
      <3>3. Taking(c)
        BY <3>1, <3>2 DEF Taking
      <3> QED
        BY <1>0, <1>2, <1>3, <2>2, <3>1, <3>2, <3>3 DEF TakenAt
    <2> QED
      BY <2>1, <2>2
  <1> QED
    BY <1>4, <1>5, <1>6, FInvFrom

LEMMA EmbeddedFInv == ASSUME IInv, IInv', FInv, NEW t \in running, embedded(t) PROVE FInv'
  <1>1. /\ \A p \in Paths : image[p] # NoChunks => image[p].format = meta.format
        /\ \A p \in Paths : TextAt(p)
        /\ \A d \in Clients : TakenAt(d)
    BY FInvGives
  <1>2. meta'.format = meta.format /\ t \in Tasks /\ t.path \in Paths
    BY EmbeddedHolds
  <1>3. \A d \in Clients : TakenAt(d)'
    BY <1>1, <1>2, EmbeddedHolds, TakenAtHeld
  <1>4. ASSUME NEW p \in Paths PROVE TextAt(p)'
    <2>1. CASE KeptText(p)
      BY <1>1, <1>2, <2>1, TextAtKept
    <2>2. CASE ~KeptText(p)
      <3>1. p = t.path /\ isCurrent(t.path, t.v) /\ t.by # "image"
        BY <2>2, EmbeddedHolds
      <3>2. /\ row'[p].text = "indexed" => text'[p].format = conf.format
            /\ gap'[p] = (gap[p] \ {"foreign format"}) \cup IF NewFormat THEN {"foreign format"} ELSE {}
        BY <3>1, EmbeddedDoes
      <3>3. NewFormat => gap'[p] \cap Foreign # {}
        BY <3>2 DEF Foreign
      <3> QED
        BY <1>2, <3>2, <3>3 DEF TextAt, NewFormat
    <2> QED
      BY <2>1, <2>2
  <1>5. ASSUME NEW p \in Paths PROVE image'[p] # NoChunks => image'[p].format = meta'.format
    <2>1. CASE image'[p] = image[p]
      BY <1>1, <1>2, <2>1
    <2>2. CASE image'[p] # image[p]
      <3>1. p = t.path /\ isCurrent(t.path, t.v) /\ t.by = "image"
        BY <2>2, EmbeddedHolds
      <3>2. image'[p].format = conf.format
        BY <3>1, EmbeddedDoes
      <3>3. scan.at = "embed"
        BY <1>2, <3>1 DEF IInv, SlotsOK, TasksOwned, Tasks
      <3>4. conf.format = meta.format
        BY <3>3 DEF IInv, MarkerExact, Scanning, NewFormat
      <3> QED
        BY <1>2, <3>2, <3>4
    <2> QED
      BY <2>1, <2>2
  <1> QED
    BY <1>3, <1>4, <1>5, FInvFrom

LEMMA WarmedUpFInv == ASSUME IInv, IInv', NInv, FInv, warmedUp PROVE FInv'
  <1>1. /\ \A p \in Paths : image[p] # NoChunks => image[p].format = meta.format
        /\ \A p \in Paths : TextAt(p)
        /\ \A d \in Clients : TakenAt(d)
    BY FInvGives
  <1>2. /\ Backstage /\ mig.at = "warmup" /\ text' = text /\ gap' = gap /\ meta'.format = conf.format
        /\ \A p \in Paths : row'[p].text = "indexed" => row[p].text = "indexed" /\ (row[p].live = "yes" => ~NewFormat)
        /\ \/ DropImages /\ \A p \in Paths : image'[p] = NoChunks
           \/ ~DropImages /\ image' = image
    BY WarmedUpDoes
  <1>3. \A p \in Paths : image'[p] # NoChunks => image'[p].format = meta'.format
    BY <1>1, <1>2 DEF DropImages, NewFormat
  <1>4. ASSUME NEW p \in Paths PROVE TextAt(p)'
    <2>1. CASE NewFormat
      <3>1. ~(row'[p].live = "yes" /\ row'[p].text = "indexed")
        BY <1>2, <2>1 DEF Backstage, RowKept
      <3> QED
        BY <3>1 DEF TextAt
    <2>2. CASE ~NewFormat
      <3>1. meta'.format = meta.format
        BY <1>2, <2>2 DEF NewFormat
      <3> QED
        BY <1>1, <3>1, WarmedUpHolds, TextAtKept
    <2> QED
      BY <2>1, <2>2
  <1>5. ASSUME NEW c \in Clients PROVE TakenAt(c)'
    <2> SUFFICES ASSUME Taking(c)', "foreign format" \notin call'[c].gap, call'[c].format = meta'.format, call'[c].text = "indexed"
                 PROVE  text'[call'[c].path].format = meta'.format
      BY DEF TakenAt
    <2>1. Taking(c) /\ call'[c] = call[c] /\ text' = text
      BY WarmedUpHolds
    <2>2. call[c].format = meta.format
      BY <1>2, <2>1 DEF Taking, NInv, DocsCarried, Moves
    <2> QED
      BY <1>1, <2>1, <2>2 DEF TakenAt
  <1> QED
    BY <1>3, <1>4, <1>5, FInvFrom

LEMMA InitFInv == ASSUME Init PROVE FInv
  <1>1. /\ meta.format = 1 /\ image = text /\ (\A p \in Paths : text[p] = NoChunks \/ text[p].format = 1)
        /\ \A c \in Clients : call[c].op = "none"
    BY DEF Init, Idle
  <1>2. \A p \in Paths : row[p].text = "indexed" => text[p].format = 1
    BY DEF Init
  <1> QED
    BY <1>1, <1>2 DEF FInv, ImageFormat, TextFormat, TakenFormat, Taking

LEMMA ClientFInv == ASSUME IInv, IInv', NInv, FInv, Clientele PROVE FInv'
  <1>1. PICK c \in Clients :
          \/ \E p \in Paths : \/ \E k \in Kinds : putObject(c, p, k)
                             \/ deleteObject(c, p)
                             \/ \E q \in Paths : copyObject(c, p, q)
          \/ createVersion(c) \/ indexForSearch(c) \/ rm(c)
          \/ mvCommit(c) \/ mvDelete(c) \/ mvGone(c) \/ mvTail(c)
          \/ reindex(c) \/ reindexDone(c) \/ \E r \in call[c].rows : reindexRead(c, r)
    BY DEF Clientele
  <1>0. call[c].path \in Paths
    BY CallTyped
  <1>2. CASE \/ \E p \in Paths : \/ \E k \in Kinds : putObject(c, p, k)
                                 \/ deleteObject(c, p)
                                 \/ \E q \in Paths : copyObject(c, p, q)
             \/ reindex(c)
    <2>1. meta' = meta /\ image' = image
      BY <1>2, BeginStep
    <2> QED
      BY <1>2, <2>1, BeginHolds, FInvKept
  <1>3. CASE createVersion(c) \/ mvCommit(c) \/ mvDelete(c)
    <2>1. meta' = meta /\ image' = image
      BY <1>3, CreateVersionDoes, MvCommitDoes, MvDeleteDoes
    <2> QED
      BY <1>3, <2>1, CommitHolds, FInvKept
  <1>4. CASE indexForSearch(c)
    <2>1. meta' = meta /\ \A p \in Paths : image'[p] \in {NoChunks, image[p]}
      BY <1>0, <1>4, IndexDoes
    <2> QED
      BY <1>4, <2>1, IndexHolds, FInvKept
  <1>5. CASE rm(c)
    <2>1. meta' = meta /\ \A p \in Paths : image'[p] \in {NoChunks, image[p]}
      BY <1>0, <1>5, RmDoes
    <2>2. \A d \in Clients : Taking(d)' => Held(d)
      BY <1>5, GoneHolds
    <2> QED
      BY <1>5, <2>1, <2>2, GoneHolds, FInvKept
  <1>6. CASE reindexDone(c) \/ \E r \in call[c].rows : reindexRead(c, r)
    <2>1. meta' = meta /\ image' = image
      BY <1>6, ReindexDoneDoes, ReindexReadDoes
    <2> QED
      BY <1>6, <2>1, ReindexHolds, FInvKept
  <1> QED
    BY <1>1, <1>2, <1>3, <1>4, <1>5, <1>6, MvGoneFInv, MvTailFInv

LEMMA NextFInv == ASSUME IInv, IInv', NInv, FInv, [Next]_vars PROVE FInv'
  <1>1. CASE UNCHANGED vars \/ \E s \in Settings : Boot(s)
    <2>1. meta' = meta /\ image' = image
      BY <1>1, BootHolds
    <2> QED
      BY <1>1, <2>1, BootHolds, FInvKept
  <1>2. CASE Clientele
    BY <1>2, ClientFInv
  <1>3. CASE \E t \in running : embedded(t)
    BY <1>3, EmbeddedFInv
  <1>4. CASE warmedUp
    BY <1>4, WarmedUpFInv
  <1>5. CASE \/ \E t \in running : failed(t) \/ initFailed(t)
             \/ warmupFailed \/ migrationSelect \/ migrationRead \/ migrationExtract \/ afterMigration
             \/ imageSlot \/ imageSelect \/ imageRow \/ embedImageFile
    <2>1. meta'.format = meta.format /\ image' = image
      BY <1>5, QuietHolds
    <2> QED
      BY <1>5, <2>1, QuietHolds, FInvKept
  <1>6. CASE Crash
    <2>1. meta' = meta /\ image' = image
      BY <1>6, CrashDoes
    <2> QED
      BY <1>6, <2>1, CrashHolds, FInvKept
  <1>7. CASE \E c \in Clients : callFailed(c)
    <2>1. PICK c \in Clients : callFailed(c)
      BY <1>7
    <2>2. meta' = meta /\ image' = image
      BY <2>1, CallFailedDoes DEF IInv
    <2> QED
      BY <2>1, <2>2, CallFailedHolds, FInvKept
  <1> QED
    BY <1>1, <1>2, <1>3, <1>4, <1>5, <1>6, <1>7 DEF Next, Background, Faults

LEMMA FormatsHold == Spec => []FInv
  <1>1. Init => FInv
    BY InitFInv
  <1>2. IInv /\ IInv' /\ NInv /\ FInv /\ [Next]_vars => FInv'
    BY NextFInv
  <1> QED
    BY <1>1, <1>2, InvariantHolds, NumbersHold, PTL DEF Spec

LEMMA FormatsGive == ASSUME FInv PROVE OneFormat
  <1> SUFFICES ASSUME NEW p \in Paths, row[p].live = "yes", ~InFlight(p),
                      gap[p] \cap {"interrupted", "source changed", "source rewritten", "format changed", "foreign format"} = {}
               PROVE  /\ row[p].text = "indexed" => text[p].format = meta.format
                      /\ image[p] # NoChunks => image[p].format = meta.format
    BY DEF OneFormat
  <1>1. ~Owed(p)
    BY DEF Owed, Owns, InFlight, Touches
  <1>2. gap[p] \cap Foreign = {}
    BY DEF Foreign, Stale
  <1> QED
    BY <1>1, <1>2, FInvGives DEF TextAt

(* Vectors of two formats are never mixed among the indexed files, whatever   *)
(* the order in which writes, moves, the migration, the image job, failed     *)
(* warmups and crashes come (embedding-migration.ts, image-embedding.ts,      *)
(* pipeline.ts, mv.ts).                                                       *)
THEOREM FormatsAreOne == Spec => []OneFormat
  <1>1. FInv => OneFormat
    BY FormatsGive
  <1> QED
    BY <1>1, FormatsHold, PTL
-----------------------------------------------------------------------------
(* An indexed file has the chunks of its content: XInv.  A claim on a path is *)
(* held until its version is committed, and who replaces an object holds one. *)

Claims(c, p) == Replaces(call[c], p) \/ (obj[p] # NoDoc /\ Arrives(call[c], p))
Claiming(c) ==
  /\ Others(c)
  /\ \A p \in Paths : RowKept(p) => (obj'[p] = obj[p] \/ Claims(c, p)') /\ (Claims(c, p) => Claims(c, p)')
Steady(D) ==
  \A p \in Paths : RowKept(p) => (obj'[p] = obj[p] \/ Changing(D, p)') /\ (Changing(D, p) => Changing(D, p)')

LEMMA ClaimsChange == \A D, p : Changing(D, p) <=> \E d \in D : Claims(d, p)
  BY DEF Changing, Claims

LEMMA ClaimingSteady ==
  ASSUME NEW c \in Clients, Claiming(c), NEW D \in SUBSET Clients, c \in D PROVE Steady(D)
  <1> SUFFICES ASSUME NEW p \in Paths, RowKept(p)
               PROVE  (obj'[p] = obj[p] \/ Changing(D, p)') /\ (Changing(D, p) => Changing(D, p)')
    BY DEF Steady
  <1>1. Others(c) /\ (obj'[p] = obj[p] \/ Claims(c, p)') /\ (Claims(c, p) => Claims(c, p)')
    BY DEF Claiming
  <1>2. Claims(c, p)' => Changing(D, p)'
    BY DEF Changing, Claims
  <1>3. ASSUME NEW d \in D, Claims(d, p), d # c, obj'[p] = obj[p] PROVE Changing(D, p)'
    <2>1. call'[d] = call[d]
      BY <1>1, <1>3 DEF Others
    <2>2. Claims(d, p)'
      BY <1>3, <2>1 DEF Claims, Replaces, Arrives
    <2> QED
      BY <2>2 DEF Changing, Claims
  <1>4. Changing(D, p) => \E d \in D : Claims(d, p)
    BY DEF Changing, Claims
  <1> QED
    BY <1>1, <1>2, <1>3, <1>4

LEMMA BackSteady == ASSUME Backstage, NEW D \in SUBSET Clients PROVE Steady(D)
  BY DEF Backstage, Steady, Changing, Replaces, Arrives

LEMMA NearKept ==
  ASSUME NEW p \in Paths, NEW id, Near(p, id), RowKept(p), Steady(Clients) PROVE Near(p, id)'
  <1>1. (obj'[p] = obj[p] \/ Changing(Clients, p)') /\ (Changing(Clients, p) => Changing(Clients, p)') /\ row'[p].doc = row[p].doc
    BY DEF Steady, RowKept
  <1> QED
    BY <1>1 DEF Near

LEMMA CopiedKept ==
  ASSUME NEW c \in Clients, NEW p \in Paths, p = call[c].path, NEW id, Copied(c, id), call'[c] = call[c], RowKept(p), Steady(Clients \ {c})
  PROVE  Copied(c, id)'
  <1>1. Changing(Clients \ {c}, p) => Changing(Clients \ {c}, p)'
    BY DEF Steady
  <1>2. call'[c].path = p /\ call'[c].doc = call[c].doc
    OBVIOUS
  <1> QED
    BY <1>1, <1>2 DEF Copied

(* What all steps of a client have in common. *)
ClientStep(c) ==
  /\ Claiming(c) /\ UNCHANGED <<mig, meta, conf>>
  /\ \A p \in Paths : RowKept(p) \/ (row'[p].v = call[c].n /\ WillCommit(call[c], p) /\ Touches(c, p))
  /\ \A p \in Paths : (KeptText(p) /\ KeptImage(p)) \/ (mvTail(c) /\ p = call[c].to /\ TargetUnchanged(call[c]))
  /\ \A d \in Clients \ {c} : Taking(d)' => Held(d)
  /\ Taking(c)' => mvGone(c)
  /\ Undisturbed(c)' => mvCommit(c) \/ mvDelete(c)
  /\ \A t \in Tasks' :
        \/ t \in Tasks
        \/ t.path \in Paths /\ obj[t.path] # NoDoc /\ t.doc = obj[t.path] /\ row' = row
        \/ /\ t.path \in Paths /\ Owns(call[c], t.path) /\ t.v = call[c].n /\ t.v = row[t.path].v /\ t.doc = call[c].doc
           /\ RowKept(t.path)

LEMMA BeginClient ==
  ASSUME IInv, NInv, NEW c \in Clients,
         \/ \E p \in Paths : \/ \E k \in Kinds : putObject(c, p, k)
                             \/ deleteObject(c, p)
                             \/ \E q \in Paths : copyObject(c, p, q)
         \/ reindex(c)
  PROVE  ClientStep(c)
  <1>1. /\ call[c].op = "none" /\ Others(c) /\ SameSlots /\ UNCHANGED <<conf, meta, mig>> /\ \A p \in Paths : RowKept(p)
        /\ (call'[c].op = "mv" => call'[c].at = "commit")
    BY BeginStep
  <1>2. \A p \in Paths : obj'[p] = obj[p] \/ Claims(c, p)'
    <2>1. CASE \E p \in Paths : \E k \in Kinds : putObject(c, p, k)
      <3>1. PICK p \in Paths, k \in Kinds : putObject(c, p, k)
        BY <2>1
      <3>2. call'[c].op = "write" /\ call'[c].at = "commit" /\ call'[c].path = p /\ \A q \in Paths \ {p} : obj'[q] = obj[q]
        BY <3>1, PutDoes, JobsTyped
      <3>3. Claims(c, p)'
        BY <3>2 DEF Claims, Replaces
      <3> QED
        BY <3>2, <3>3
    <2>2. CASE \E p \in Paths : deleteObject(c, p)
      <3>1. PICK p \in Paths : deleteObject(c, p)
        BY <2>2
      <3>2. call'[c].op = "rm" /\ call'[c].at = "commit" /\ call'[c].path = p /\ \A q \in Paths \ {p} : obj'[q] = obj[q]
        BY <3>1, DeleteDoes, JobsTyped
      <3>3. Claims(c, p)'
        BY <3>2 DEF Claims, Replaces
      <3> QED
        BY <3>2, <3>3
    <2>3. CASE \E p \in Paths : \E q \in Paths : copyObject(c, p, q)
      <3>1. PICK p \in Paths, q \in Paths : copyObject(c, p, q)
        BY <2>3
      <3>2. /\ call'[c].op = "mv" /\ call'[c].at = "commit" /\ call'[c].to = q /\ obj'[q] = obj[p] /\ obj[p] # NoDoc
            /\ \A r \in Paths \ {q} : obj'[r] = obj[r]
        BY <3>1, CopyDoes, JobsTyped
      <3>3. Claims(c, q)'
        BY <3>2 DEF Claims, Arrives
      <3> QED
        BY <3>2, <3>3
    <2>4. CASE reindex(c)
      BY <2>4, ReindexDoes
    <2> QED
      BY <2>1, <2>2, <2>3, <2>4
  <1>3. \A p \in Paths : ~Claims(c, p)
    BY <1>1 DEF Claims, Replaces, Arrives
  <1>4. Claiming(c)
    BY <1>1, <1>2, <1>3 DEF Claiming
  <1>5. Tasks' = Tasks
    BY <1>1, SameTasks
  <1>6. ~Taking(c)' /\ ~Undisturbed(c)'
    BY <1>1 DEF Taking, Undisturbed
  <1> QED
    BY <1>1, <1>4, <1>5, <1>6, BeginHolds DEF ClientStep

LEMMA GoesRows ==
  ASSUME NEW c \in Clients, Goes(c)
  PROVE  \A p \in Paths : RowKept(p) \/ (row'[p].v = call[c].n /\ WillCommit(call[c], p) /\ Touches(c, p))
  BY DEF Goes

(* A version that is committed is new at its path. *)
LEMMA CommitsNew ==
  ASSUME NInv, NEW c \in Clients, NEW p \in Paths, WillCommit(call[c], p), row'[p].v = call[c].n PROVE ~RowKept(p)
  BY DEF NInv, NumbersUnseen, Unseen, RowKept

LEMMA CreateVersionClient ==
  ASSUME IInv, NInv, NEW c \in Clients, createVersion(c) PROVE ClientStep(c)
  <1>0. PICK a \in Paths : a = call[c].path
    BY CallTyped
  <1>1. /\ call[c].op = "write" /\ call[c].at = "commit" /\ Others(c) /\ SameSlots /\ UNCHANGED <<conf, meta, mig, obj>>
        /\ call'[c].op = "write" /\ row'[a].v = call[c].n
    BY <1>0, CreateVersionDoes
  <1>2. ~RowKept(a)
    <2>1. WillCommit(call[c], a)
      BY <1>0, <1>1 DEF WillCommit, Replaces
    <2> QED
      BY <1>1, <2>1, CommitsNew
  <1>3. \A p \in Paths : RowKept(p) => ~Claims(c, p)
    BY <1>0, <1>1, <1>2 DEF Claims, Replaces, Arrives
  <1>4. Claiming(c)
    BY <1>1, <1>3 DEF Claiming
  <1>5. Tasks' = Tasks /\ ~Taking(c)' /\ ~Undisturbed(c)'
    BY <1>1, SameTasks DEF Taking, Undisturbed
  <1>6. \A p \in Paths : RowKept(p) \/ (row'[p].v = call[c].n /\ WillCommit(call[c], p) /\ Touches(c, p))
    BY CreateVersionGoes, GoesRows
  <1> QED
    BY <1>1, <1>4, <1>5, <1>6, CommitHolds DEF ClientStep

LEMMA MvCommitClient ==
  ASSUME IInv, NInv, NEW c \in Clients, mvCommit(c) PROVE ClientStep(c)
  <1>0. PICK a \in Paths, b \in Paths : a = call[c].path /\ b = call[c].to
    BY CallTyped
  <1>1. /\ call[c].op = "mv" /\ call[c].at = "commit" /\ Others(c) /\ SameSlots /\ UNCHANGED <<conf, meta, mig, obj>>
        /\ obj[b] = NoDoc \/ row'[b].v = call[c].n
        /\ call'[c] = Idle \/ call'[c].at = "delete"
    BY <1>0, MvCommitDoes
  <1>2. obj[b] = NoDoc \/ ~RowKept(b)
    <2>1. WillCommit(call[c], b)
      BY <1>0, <1>1 DEF WillCommit, Arrives
    <2> QED
      BY <1>1, <2>1, CommitsNew
  <1>3. \A p \in Paths : RowKept(p) => ~Claims(c, p)
    BY <1>0, <1>1, <1>2 DEF Claims, Replaces, Arrives
  <1>4. Claiming(c)
    BY <1>1, <1>3 DEF Claiming
  <1>5. Tasks' = Tasks /\ ~Taking(c)'
    BY <1>1, SameTasks DEF Taking, Idle
  <1>6. \A p \in Paths : RowKept(p) \/ (row'[p].v = call[c].n /\ WillCommit(call[c], p) /\ Touches(c, p))
    BY MvCommitGoes, GoesRows
  <1> QED
    BY <1>1, <1>4, <1>5, <1>6, CommitHolds DEF ClientStep

LEMMA MvDeleteClient ==
  ASSUME IInv, NInv, NEW c \in Clients, mvDelete(c) PROVE ClientStep(c)
  <1>0. PICK a \in Paths : a = call[c].path
    BY CallTyped
  <1>1. /\ call[c].op = "mv" /\ call[c].at = "delete" /\ Others(c) /\ SameSlots /\ UNCHANGED <<conf, meta, mig>>
        /\ call'[c].op = "mv" /\ call'[c].at = "gone" /\ call'[c].path = a /\ \A p \in Paths \ {a} : obj'[p] = obj[p]
    BY ZenonT(60), <1>0, MvDeleteDoes, JobsTyped
  <1>2. Claims(c, a)' /\ \A p \in Paths \ {a} : ~Claims(c, p)
    BY <1>0, <1>1 DEF Claims, Replaces, Arrives
  <1>4. Claiming(c)
    BY <1>1, <1>2 DEF Claiming
  <1>5. Tasks' = Tasks /\ ~Taking(c)'
    BY <1>1, SameTasks DEF Taking
  <1>6. \A p \in Paths : RowKept(p) \/ (row'[p].v = call[c].n /\ WillCommit(call[c], p) /\ Touches(c, p))
    BY MvDeleteGoes, GoesRows
  <1> QED
    BY <1>1, <1>4, <1>5, <1>6, CommitHolds DEF ClientStep

LEMMA GoneClient ==
  ASSUME IInv, NInv, NEW c \in Clients, rm(c) \/ mvGone(c) PROVE ClientStep(c)
  <1>0. PICK a \in Paths : a = call[c].path
    BY CallTyped
  <1>1. /\ (call[c].op = "mv" /\ call[c].at = "gone") \/ (call[c].op = "rm" /\ call[c].at = "commit")
        /\ Others(c) /\ SameSlots /\ UNCHANGED <<conf, meta, mig, obj>>
        /\ row'[a].v = call[c].n /\ (call'[c] = Idle \/ call'[c].at = "tail")
    BY <1>0, MvGoneDoes, RmDoes
  <1>2. ~RowKept(a)
    <2>1. WillCommit(call[c], a)
      BY <1>0, <1>1 DEF WillCommit, Replaces
    <2> QED
      BY <1>1, <2>1, CommitsNew
  <1>3. \A p \in Paths : RowKept(p) => ~Claims(c, p)
    BY <1>0, <1>1, <1>2 DEF Claims, Replaces, Arrives
  <1>4. Claiming(c)
    BY <1>1, <1>3 DEF Claiming
  <1>5. Tasks' = Tasks /\ ~Undisturbed(c)'
    <2>1. call'[c].at \in {"idle", "tail"} /\ Tasks' = Tasks
      BY <1>1, SameTasks DEF Idle
    <2> QED
      BY <2>1 DEF Undisturbed
  <1>6. \A p \in Paths : RowKept(p) \/ (row'[p].v = call[c].n /\ WillCommit(call[c], p) /\ Touches(c, p))
    BY MvGoneGoes, SettlesGoes, GoesRows
  <1>7. Taking(c)' => mvGone(c)
    BY GoneHolds
  <1> QED
    BY <1>1, <1>4, <1>5, <1>6, <1>7, GoneHolds DEF ClientStep

LEMMA MvTailClient ==
  ASSUME IInv, NInv, NEW c \in Clients, mvTail(c) PROVE ClientStep(c)
  <1>0. PICK a \in Paths, b \in Paths : a = call[c].path /\ b = call[c].to
    BY CallTyped
  <1>1. MvTailEffect(c, a, b)
    BY <1>0, MvTailDoes
  <1>2. /\ call[c].op = "mv" /\ call[c].at = "tail" /\ Others(c) /\ SameSlots /\ UNCHANGED <<conf, meta, mig, obj>>
        /\ call'[c] = Idle
    BY <1>1 DEF MvTailEffect
  <1>3. \A p \in Paths : ~Claims(c, p)
    BY <1>2 DEF Claims, Replaces, Arrives
  <1>4. Claiming(c)
    BY <1>2, <1>3 DEF Claiming
  <1>5. Tasks' = Tasks /\ ~Undisturbed(c)' /\ ~Taking(c)'
    BY <1>2, SameTasks DEF Undisturbed, Taking, Idle
  <1>6. \A p \in Paths : RowKept(p) \/ (row'[p].v = call[c].n /\ WillCommit(call[c], p) /\ Touches(c, p))
    BY SettlesGoes, GoesRows
  <1>7. \A p \in Paths : (KeptText(p) /\ KeptImage(p)) \/ (mvTail(c) /\ p = call[c].to /\ TargetUnchanged(call[c]))
    BY MvTailHolds
  <1>8. \A d \in Clients \ {c} : Taking(d)' => Held(d)
    BY MvTailHolds
  <1> QED
    BY <1>2, <1>4, <1>5, <1>6, <1>7, <1>8 DEF ClientStep

LEMMA IndexClient ==
  ASSUME IInv, NInv, NEW c \in Clients, indexForSearch(c) PROVE ClientStep(c)
  <1>0. PICK a \in Paths : a = call[c].path
    BY CallTyped
  <1>1. /\ call[c].op = "write" /\ call[c].at = "index" /\ Others(c) /\ UNCHANGED <<conf, meta, mig, obj>>
        /\ call'[c] = Idle
    BY IndexDoes
  <1>2. \/ SameSlots
        \/ /\ isCurrent(a, call[c].n) /\ RowKept(a)
           /\ Enter([by |-> "write", path |-> call[c].path, v |-> call[c].n, doc |-> call[c].doc])
    BY <1>0, IndexDoes
  <1>3. \A p \in Paths : ~Claims(c, p)
    BY <1>1 DEF Claims, Replaces, Arrives
  <1>4. Claiming(c)
    BY <1>1, <1>3 DEF Claiming
  <1>5. ~Undisturbed(c)' /\ ~Taking(c)'
    BY <1>1 DEF Undisturbed, Taking, Idle
  <1>6. \A p \in Paths : RowKept(p) \/ (row'[p].v = call[c].n /\ WillCommit(call[c], p) /\ Touches(c, p))
    BY SettlesGoes, GoesRows
  <1>7. ASSUME NEW t \in Tasks', t \notin Tasks
        PROVE  /\ t.path \in Paths /\ Owns(call[c], t.path) /\ t.v = call[c].n /\ t.v = row[t.path].v /\ t.doc = call[c].doc
               /\ RowKept(t.path)
    <2>1. ~SameSlots
      BY <1>7, SameTasks
    <2>2. t = [by |-> "write", path |-> call[c].path, v |-> call[c].n, doc |-> call[c].doc]
      BY <1>1, <1>2, <1>7, <2>1, IndexEnters
    <2>3. t.path = a /\ t.v = call[c].n /\ t.doc = call[c].doc
      BY <1>0, <2>2
    <2> QED
      BY <1>0, <1>1, <1>2, <2>1, <2>3 DEF Owns, isCurrent
  <1> QED
    BY <1>1, <1>4, <1>5, <1>6, <1>7, IndexHolds DEF ClientStep

LEMMA ReindexClient ==
  ASSUME IInv, NInv, NEW c \in Clients, reindexDone(c) \/ \E r \in call[c].rows : reindexRead(c, r) PROVE ClientStep(c)
  <1>1. /\ call[c].op = "reindex" /\ Others(c) /\ UNCHANGED <<conf, meta, mig, obj, row>> /\ call'[c].op # "mv"
    <2>1. CASE reindexDone(c)
      BY <2>1, ReindexDoneDoes DEF Idle
    <2>2. CASE \E r \in call[c].rows : reindexRead(c, r)
      BY <2>2, ReindexReadDoes
    <2> QED
      BY <2>1, <2>2
  <1>2. ASSUME NEW t \in Tasks', t \notin Tasks
        PROVE  t.path \in Paths /\ obj[t.path] # NoDoc /\ t.doc = obj[t.path]
    <2>1. CASE reindexDone(c)
      BY <1>2, <2>1, ReindexDoneDoes, SameTasks
    <2>2. CASE \E r \in call[c].rows : reindexRead(c, r)
      <3>1. PICK r \in call[c].rows : reindexRead(c, r)
        BY <2>2
      <3>2. r \in Snapshot /\ obj[r.path] # NoDoc /\ t = [by |-> "reindex", path |-> r.path, v |-> r.v, doc |-> obj[r.path]]
        BY <1>2, <3>1, ReindexReadDoes
      <3> QED
        BY <3>2 DEF Snapshot
    <2> QED
      BY <2>1, <2>2
  <1>3. \A p \in Paths : ~Claims(c, p)
    BY <1>1 DEF Claims, Replaces, Arrives
  <1>4. Claiming(c)
    BY <1>1, <1>3 DEF Claiming
  <1>5. ~Undisturbed(c)' /\ ~Taking(c)'
    BY <1>1 DEF Undisturbed, Taking
  <1>6. \A p \in Paths : RowKept(p)
    BY <1>1 DEF RowKept
  <1> QED
    BY <1>1, <1>2, <1>4, <1>5, <1>6, ReindexHolds DEF ClientStep

(* What was cut off at a path stays noted: by the call that owns the version, *)
(* and at the path once nobody does.                                          *)
Excusing ==
  \A p \in Paths : RowKept(p) /\ row[p].live = "yes" =>
     /\ Excused(p) => Excused(p)'
     /\ ~Owed(p) => gap[p] \cap Stale \subseteq gap'[p]
OwnsNow(c, p) == Owns(call[c], p) /\ call[c].n = row[p].v

LEMMA ExcusedIs ==
  ASSUME NEW p
  PROVE  /\ Owed(p) <=> \E c \in Clients : OwnsNow(c, p)
         /\ Owed(p) => (Excused(p) <=> \E c \in Clients : OwnsNow(c, p) /\ call[c].gap \cap Stale # {})
         /\ ~Owed(p) => (Excused(p) <=> gap[p] \cap Stale # {})
  BY DEF Excused, Owed, OwnsNow

(* The step of c keeps it, if c neither takes p over nor lets go of it        *)
(* without a word.                                                            *)
LEMMA ExcusesFrom ==
  ASSUME IInv, NEW c \in Clients, Others(c), NEW p \in Paths, RowKept(p),
         OwnsNow(c, p)' => OwnsNow(c, p),
         ~OwnsNow(c, p) => gap[p] \cap Stale \subseteq gap'[p],
         OwnsNow(c, p) => \/ OwnsNow(c, p)' /\ call[c].gap \subseteq call'[c].gap
                          \/ ~OwnsNow(c, p)' /\ call[c].gap \cap Stale \subseteq gap'[p]
  PROVE  /\ Excused(p) => Excused(p)'
         /\ ~Owed(p) => gap[p] \cap Stale \subseteq gap'[p]
  <1>0. row'[p].v = row[p].v
    BY DEF RowKept
  <1>1. ASSUME NEW d \in Clients \ {c} PROVE (OwnsNow(d, p)' <=> OwnsNow(d, p)) /\ call'[d] = call[d]
    <2>1. call'[d] = call[d]
      BY DEF Others
    <2> QED
      BY <1>0, <2>1 DEF OwnsNow, Owns
  <1>2. ASSUME OwnsNow(c, p), NEW d \in Clients \ {c} PROVE ~OwnsNow(d, p)
    BY <1>2 DEF OwnsNow, Owns, IInv, CallsNumbered, Active
  <1>3. /\ Owed(p) <=> \E d \in Clients : OwnsNow(d, p)
        /\ Owed(p) => (Excused(p) <=> \E d \in Clients : OwnsNow(d, p) /\ call[d].gap \cap Stale # {})
        /\ ~Owed(p) => (Excused(p) <=> gap[p] \cap Stale # {})
    BY ExcusedIs
  <1>4. /\ Owed(p)' <=> \E d \in Clients : OwnsNow(d, p)'
        /\ Owed(p)' => (Excused(p)' <=> \E d \in Clients : OwnsNow(d, p)' /\ call'[d].gap \cap Stale # {})
        /\ ~Owed(p)' => (Excused(p)' <=> gap'[p] \cap Stale # {})
    BY DEF Excused, Owed, OwnsNow
  <1>5. CASE OwnsNow(c, p)
    BY <1>1, <1>2, <1>3, <1>4, <1>5
  <1>6. CASE ~OwnsNow(c, p)
    BY <1>1, <1>3, <1>4, <1>6
  <1> QED
    BY <1>5, <1>6

LEMMA BackExcuses ==
  ASSUME Backstage, \A p \in Paths : gap[p] \cap Stale \subseteq gap'[p] PROVE Excusing
  <1> SUFFICES ASSUME NEW p \in Paths, RowKept(p) PROVE Excused(p) => Excused(p)'
    BY DEF Excusing
  <1>1. call' = call /\ row'[p].v = row[p].v
    BY DEF Backstage, RowKept
  <1>2. (Owed(p)' <=> Owed(p)) /\ gap[p] \cap Stale \subseteq gap'[p] \cap Stale
    BY <1>1, OwedSame
  <1> QED
    BY <1>1, <1>2 DEF Excused, Owns

LEMMA ClientExcuses ==
  ASSUME IInv, NInv, NEW c \in Clients,
         \/ \E p \in Paths : \/ \E k \in Kinds : putObject(c, p, k)
                             \/ deleteObject(c, p)
                             \/ \E q \in Paths : copyObject(c, p, q)
         \/ createVersion(c) \/ indexForSearch(c) \/ rm(c)
         \/ mvCommit(c) \/ mvDelete(c) \/ mvGone(c) \/ mvTail(c)
         \/ reindex(c) \/ reindexDone(c) \/ \E r \in call[c].rows : reindexRead(c, r)
  PROVE  Excusing
  <1> SUFFICES ASSUME NEW p \in Paths, RowKept(p), row[p].live = "yes"
               PROVE  (Excused(p) => Excused(p)') /\ (~Owed(p) => gap[p] \cap Stale \subseteq gap'[p])
    BY DEF Excusing
  <1>0. row'[p].v = row[p].v /\ row'[p].live = "yes"
    BY DEF RowKept
  <1>1. CASE \/ \E a \in Paths : \/ \E k \in Kinds : putObject(c, a, k)
                                 \/ deleteObject(c, a)
                                 \/ \E q \in Paths : copyObject(c, a, q)
             \/ reindex(c)
    <2>1. /\ call[c].op = "none" /\ Others(c) /\ gap' = gap
          /\ (call'[c].op = "mv" => call'[c].at = "commit") /\ (call'[c].op = "write" => call'[c].at = "commit")
      BY <1>1, BeginStep
    <2>2. ~OwnsNow(c, p) /\ ~OwnsNow(c, p)'
      BY <2>1 DEF OwnsNow, Owns
    <2> QED
      BY <2>1, <2>2, ExcusesFrom
  <1>2. CASE createVersion(c)
    <2>1. /\ call[c].op = "write" /\ call[c].at = "commit" /\ Others(c) /\ gap' = gap
          /\ call'[c].op = "write" /\ call'[c].path = call[c].path /\ row'[call[c].path].v = call[c].n
      BY <1>2, CreateVersionDoes
    <2>2. p # call[c].path
      BY <2>1, CommitsNew DEF WillCommit, Replaces
    <2>3. ~OwnsNow(c, p) /\ ~OwnsNow(c, p)'
      BY <2>1, <2>2 DEF OwnsNow, Owns
    <2> QED
      BY <2>1, <2>3, ExcusesFrom
  <1>3. CASE indexForSearch(c)
    <2>1. /\ call[c].op = "write" /\ call[c].at = "index" /\ Others(c) /\ call'[c] = Idle
          /\ \/ ~isCurrent(call[c].path, call[c].n) /\ gap' = gap
             \/ /\ \A q \in Paths \ {call[c].path} : gap'[q] = gap[q]
                /\ gap'[call[c].path] = call[c].gap /\ isCurrent(call[c].path, call[c].n)
      BY <1>3, IndexDoes
    <2>2. ~OwnsNow(c, p)'
      BY <2>1 DEF OwnsNow, Owns, Idle
    <2>3. OwnsNow(c, p) <=> p = call[c].path /\ isCurrent(call[c].path, call[c].n)
      BY <2>1 DEF OwnsNow, Owns, isCurrent
    <2> QED
      BY <2>1, <2>2, <2>3, ExcusesFrom
  <1>4. CASE rm(c)
    <2>1. /\ call[c].op = "rm" /\ call[c].at = "commit" /\ Others(c) /\ call'[c] = Idle
          /\ row'[call[c].path].live = "no" /\ \A q \in Paths \ {call[c].path} : gap'[q] = gap[q]
      BY <1>4, RmDoes
    <2>2. ~OwnsNow(c, p) /\ ~OwnsNow(c, p)' /\ p # call[c].path
      BY <1>0, <2>1 DEF OwnsNow, Owns, Idle
    <2> QED
      BY <2>1, <2>2, ExcusesFrom
  <1>5. CASE mvCommit(c)
    <2>1. /\ call[c].op = "mv" /\ call[c].at = "commit" /\ Others(c) /\ gap' = gap
          /\ \/ call'[c] = Idle
             \/ call'[c].op = "mv" /\ call'[c].to = call[c].to /\ row'[call[c].to].v = call[c].n
      BY <1>5, MvCommitDoes
    <2>2. ~OwnsNow(c, p)
      BY <2>1 DEF OwnsNow, Owns
    <2>3. ~OwnsNow(c, p)'
      <3>1. CASE call'[c] = Idle
        BY <3>1 DEF OwnsNow, Owns, Idle
      <3>2. CASE call'[c].op = "mv" /\ call'[c].to = call[c].to /\ row'[call[c].to].v = call[c].n
        <4>1. p # call[c].to
          BY <2>1, <3>2, CommitsNew DEF WillCommit, Arrives
        <4> QED
          BY <3>2, <4>1 DEF OwnsNow, Owns
      <3> QED
        BY <2>1, <3>1, <3>2
    <2> QED
      BY <2>1, <2>2, <2>3, ExcusesFrom
  <1>6. CASE mvDelete(c)
    <2>1. /\ call[c].op = "mv" /\ call[c].at = "delete" /\ Others(c) /\ gap' = gap /\ row' = row
          /\ call'[c].op = "mv" /\ call'[c].at = "gone" /\ call'[c].to = call[c].to /\ call'[c].n = call[c].n
          /\ call[c].gap \subseteq call'[c].gap
      BY <1>6, MvDeleteDoes
    <2>2. OwnsNow(c, p)' <=> OwnsNow(c, p)
      BY <2>1 DEF OwnsNow, Owns
    <2> QED
      BY <2>1, <2>2, ExcusesFrom
  <1>7. CASE mvGone(c)
    <2>1. /\ call[c].op = "mv" /\ call[c].at = "gone" /\ Others(c) /\ row'[call[c].path].live = "no"
          /\ call'[c].op = "mv" /\ call'[c].at = "tail" /\ call'[c].to = call[c].to /\ call'[c].n = call[c].n
          /\ call[c].gap \subseteq call'[c].gap /\ \A q \in Paths \ {call[c].path} : gap'[q] = gap[q]
      BY <1>7, MvGoneDoes
    <2>2. (OwnsNow(c, p)' <=> OwnsNow(c, p)) /\ p # call[c].path
      BY <1>0, <2>1 DEF OwnsNow, Owns
    <2> QED
      BY <2>1, <2>2, ExcusesFrom
  <1>8. CASE mvTail(c)
    <2>0. PICK a \in Paths, b \in Paths : a = call[c].path /\ b = call[c].to
      BY CallTyped
    <2>1. MvTailEffect(c, a, b)
      BY <1>8, <2>0, MvTailDoes
    <2>2. /\ call[c].op = "mv" /\ call[c].at = "tail" /\ Others(c) /\ call'[c] = Idle
          /\ (\A q \in Paths \ {a, b} : gap'[q] = gap[q]) /\ gap[a] \subseteq gap'[a] /\ a # b
          /\ \/ TargetUnchanged(call[c]) /\ call[c].gap \subseteq gap'[b]
             \/ ~TargetUnchanged(call[c]) /\ gap'[b] = gap[b]
      BY <2>1 DEF MvTailEffect
    <2>3. ~OwnsNow(c, p)'
      BY <2>2 DEF OwnsNow, Owns, Idle
    <2>4. OwnsNow(c, p) <=> p = b /\ TargetUnchanged(call[c])
      BY <2>0, <2>2 DEF OwnsNow, Owns, TargetUnchanged, isCurrent
    <2> QED
      BY <2>2, <2>3, <2>4, ExcusesFrom
  <1>9. CASE reindexDone(c) \/ \E r \in call[c].rows : reindexRead(c, r)
    <2>1. call[c].op = "reindex" /\ Others(c) /\ gap' = gap /\ (call'[c].op = "reindex" \/ call'[c] = Idle)
      BY <1>9, ReindexDoneDoes, ReindexReadDoes
    <2>2. ~OwnsNow(c, p) /\ ~OwnsNow(c, p)'
      BY <2>1 DEF OwnsNow, Owns, Idle
    <2> QED
      BY <2>1, <2>2, ExcusesFrom
  <1> QED
    BY <1>1, <1>2, <1>3, <1>4, <1>5, <1>6, <1>7, <1>8, <1>9

LEMMA ClienteleSteps == ASSUME IInv, NInv, Clientele PROVE Excusing /\ \E c \in Clients : ClientStep(c)
  <1>1. PICK c \in Clients :
          \/ \E p \in Paths : \/ \E k \in Kinds : putObject(c, p, k)
                             \/ deleteObject(c, p)
                             \/ \E q \in Paths : copyObject(c, p, q)
          \/ createVersion(c) \/ indexForSearch(c) \/ rm(c)
          \/ mvCommit(c) \/ mvDelete(c) \/ mvGone(c) \/ mvTail(c)
          \/ reindex(c) \/ reindexDone(c) \/ \E r \in call[c].rows : reindexRead(c, r)
    BY DEF Clientele
  <1>2. ClientStep(c)
    BY <1>1, BeginClient, CreateVersionClient, IndexClient, GoneClient, MvCommitClient, MvDeleteClient, MvTailClient, ReindexClient
  <1>3. Excusing
    BY <1>1, ClientExcuses
  <1> QED
    BY <1>2, <1>3
SourceAt(c) ==
  /\ obj[call[c].path] # NoDoc => Copied(c, obj[call[c].path].id)
  /\ \A t \in Tasks : t.path = call[c].path /\ t.v = call[c].seen => Copied(c, t.doc.id)
  /\ mig.at = "extract" /\ First(mig).path = call[c].path /\ First(mig).v = call[c].seen => Copied(c, mig.doc.id)
  /\ row[call[c].path].text = "indexed" => Copied(c, text[call[c].path].id)
  /\ row[call[c].path].image = "indexed" => Copied(c, image[call[c].path].id)
Followed(c) == Following(c) /\ gap[call[c].path] \cap Stale = {}
NearAt(p) ==
  row[p].live = "yes" /\ ~Owed(p) /\ gap[p] \cap Stale = {} =>
     /\ row[p].text = "indexed" => Near(p, text[p].id)
     /\ row[p].image = "indexed" => Near(p, image[p].id)
CopyAt(c) ==
  Taking(c) =>
     /\ call[c].text = "indexed" => text[call[c].path].id = call[c].doc.id
     /\ call[c].image = "indexed" /\ call[c].format = meta.format /\ conf.excluded = "no"
           => image[call[c].path].id = call[c].doc.id

LEMMA XInvParts ==
  XInv <=> /\ \A t \in Tasks : ReadNear(t.path, t.v, t.doc.id)
           /\ mig.at = "extract" => ReadNear(First(mig).path, First(mig).v, mig.doc.id)
           /\ \A p \in Paths : NearAt(p)
           /\ \A c \in Clients : Followed(c) => SourceAt(c)
           /\ \A c \in Clients : CopyAt(c)
  BY DEF XInv, ReadsNear, IndexedNear, SourceCopied, TakenCopied, NearAt, SourceAt, Followed, CopyAt, Tasks

(* What is read, or read to be embedded, stays near while its row does. *)
LEMMA ReadKept ==
  ASSUME Steady(Clients), Excusing, NEW p \in Paths, NEW v, NEW id, isCurrent(p, v)' => RowKept(p), ReadNear(p, v, id)
  PROVE  ReadNear(p, v, id)'
  <1> SUFFICES ASSUME isCurrent(p, v)' PROVE Near(p, id)' \/ Excused(p)'
    BY DEF ReadNear
  <1>1. RowKept(p) /\ isCurrent(p, v)
    BY DEF RowKept, isCurrent
  <1>2. Excused(p) => Excused(p)'
    BY <1>1 DEF Excusing, isCurrent
  <1> QED
    BY <1>1, <1>2, NearKept DEF ReadNear

LEMMA ReadsKept ==
  ASSUME Steady(Clients), Excusing,
         \A t \in Tasks' : t.path \in Paths /\ (isCurrent(t.path, t.v)' => RowKept(t.path)) /\ ReadNear(t.path, t.v, t.doc.id),
         NEW p, NEW v, NEW id, p = First(mig)'.path, v = First(mig)'.v, id = mig'.doc.id,
         mig'.at = "extract" => p \in Paths /\ (isCurrent(p, v)' => RowKept(p)) /\ ReadNear(p, v, id)
  PROVE  ReadsNear'
  <1>1. \A t \in Tasks' : ReadNear(t.path, t.v, t.doc.id)'
    BY ReadKept
  <1>2. mig'.at = "extract" => ReadNear(p, v, id)'
    BY ReadKept
  <1> QED
    BY <1>1, <1>2 DEF ReadsNear, Tasks

LEMMA RowStays ==
  ASSUME NEW c \in Clients, ClientStep(c), NEW p \in Paths, NEW v, Unseen(p, v), isCurrent(p, v)' PROVE RowKept(p)
  BY DEF ClientStep, Unseen, isCurrent

LEMMA TaskTyped == ASSUME IInv, NEW t \in Tasks PROVE t.path \in Paths
  BY JobsTyped DEF Task

LEMMA MigrationRow ==
  ASSUME IInv, NInv, mig.at \in {"extract", "embed"}
  PROVE  First(mig).path \in Paths /\ Unseen(First(mig).path, First(mig).v)
  <1>1. mig.rows # {} /\ mig \in MigType
    BY JobsTyped DEF IInv, MarkerExact
  <1>2. First(mig) \in mig.rows /\ First(mig).path \in Paths
    BY <1>1, NextRowDoes
  <1> QED
    BY <1>2, JobsUnseen

LEMMA ClientReads == ASSUME IInv, NInv, XInv, NEW c \in Clients, ClientStep(c), Excusing PROVE ReadsNear'
  <1>1. Steady(Clients)
    BY ClaimingSteady DEF ClientStep
  <1>2. ASSUME NEW t \in Tasks'
        PROVE  t.path \in Paths /\ (isCurrent(t.path, t.v)' => RowKept(t.path)) /\ ReadNear(t.path, t.v, t.doc.id)
    <2>1. CASE t \in Tasks
      BY <2>1, TaskTyped, JobsUnseen, RowStays, XInvParts
    <2>2. CASE t.path \in Paths /\ obj[t.path] # NoDoc /\ t.doc = obj[t.path] /\ row' = row
      BY <2>2 DEF ReadNear, Near, RowKept
    <2>3. CASE /\ t.path \in Paths /\ Owns(call[c], t.path) /\ t.v = call[c].n /\ t.v = row[t.path].v /\ t.doc = call[c].doc
               /\ RowKept(t.path)
      <3>1. row[t.path].doc = call[c].doc
        BY <2>3 DEF NInv, DocsCarried
      <3> QED
        BY <2>3, <3>1 DEF ReadNear, Near
    <2> QED
      BY <2>1, <2>2, <2>3 DEF ClientStep
  <1>3. PICK p, v, id : p = First(mig).path /\ v = First(mig).v /\ id = mig.doc.id
    OBVIOUS
  <1>4. mig' = mig
    BY DEF ClientStep
  <1>5. mig.at = "extract" => p \in Paths /\ (isCurrent(p, v)' => RowKept(p)) /\ ReadNear(p, v, id)
    BY <1>3, MigrationRow, RowStays, XInvParts
  <1>6. p = First(mig)'.path /\ v = First(mig)'.v /\ id = mig'.doc.id
    BY <1>3, <1>4, FirstSame
  <1> QED
    BY <1>1, <1>2, <1>4, <1>5, <1>6, ReadsKept

(* An indexed file that a step leaves alone stays near its content. *)
LEMMA NearAtKept ==
  ASSUME NEW p \in Paths, NearAt(p), Steady(Clients),
         row'[p].live = "yes" /\ ~Owed(p)' /\ gap'[p] \cap Stale = {} =>
            /\ row'[p].text = "indexed" => KeptText(p) \/ Near(p, text[p].id)'
            /\ row'[p].image = "indexed" => KeptImage(p) \/ Near(p, image[p].id)'
  PROVE  NearAt(p)'
  <1> SUFFICES ASSUME row'[p].live = "yes", ~Owed(p)', gap'[p] \cap Stale = {}
               PROVE  /\ row'[p].text = "indexed" => Near(p, text[p].id)'
                      /\ row'[p].image = "indexed" => Near(p, image[p].id)'
    BY DEF NearAt
  <1>1. ASSUME row'[p].text = "indexed", KeptText(p) PROVE Near(p, text[p].id)'
    <2>1. RowKept(p) /\ ~Owed(p) /\ row[p].text = "indexed" /\ text'[p] = text[p] /\ gap[p] \cap Foreign \subseteq gap'[p]
      BY <1>1 DEF KeptText
    <2>2. row[p].live = "yes" /\ gap[p] \cap Stale = {}
      BY <2>1 DEF RowKept, Foreign
    <2>3. PICK id : id = text[p].id
      OBVIOUS
    <2>4. Near(p, id)
      BY <2>1, <2>2, <2>3 DEF NearAt
    <2>5. Near(p, id)'
      BY <2>1, <2>4, NearKept
    <2> QED
      BY <2>1, <2>3, <2>5
  <1>2. ASSUME row'[p].image = "indexed", KeptImage(p) PROVE Near(p, image[p].id)'
    <2>1. RowKept(p) /\ ~Owed(p) /\ row[p].image = "indexed" /\ image'[p] = image[p] /\ gap[p] \cap Stale \subseteq gap'[p]
      BY <1>2 DEF KeptImage
    <2>2. row[p].live = "yes" /\ gap[p] \cap Stale = {}
      BY <2>1 DEF RowKept
    <2>3. PICK id : id = image[p].id
      OBVIOUS
    <2>4. Near(p, id)
      BY <2>1, <2>2, <2>3 DEF NearAt
    <2>5. Near(p, id)'
      BY <2>1, <2>4, NearKept
    <2> QED
      BY <2>1, <2>3, <2>5
  <1> QED
    BY <1>1, <1>2

(* A move gives its destination the chunks of the content it has copied. *)
LEMMA ArrivalNear ==
  ASSUME IInv, NInv, XInv, NEW c \in Clients, mvTail(c), TargetUnchanged(call[c]), NEW b \in Paths, b = call[c].to
  PROVE  NearAt(b)'
  <1> SUFFICES ASSUME gap'[b] \cap Stale = {}
               PROVE  /\ row'[b].text = "indexed" => Near(b, text[b].id)'
                      /\ row'[b].image = "indexed" => Near(b, image[b].id)'
    BY DEF NearAt
  <1>0. PICK a \in Paths : a = call[c].path
    BY CallTyped
  <1>1. MvTailEffect(c, a, b)
    BY <1>0, MvTailDoes
  <1>2. /\ call[c].op = "mv" /\ call[c].at = "tail" /\ RowKept(b)
        /\ row'[b].text = "null" \/ (row'[b].text = call[c].text /\ text'[b] = text[a])
        /\ \/ row'[b].image = "null"
           \/ row'[b].image = call[c].image /\ image'[b] = image[a] /\ conf.excluded = "no"
        /\ call[c].gap \subseteq gap'[b] /\ (Rewritten(call[c]) => "source rewritten" \in gap'[b])
        /\ (call[c].format # meta.format => "format changed" \in gap'[b])
    BY <1>1 DEF MvTailEffect
  <1>3. ~Rewritten(call[c]) /\ call[c].format = meta.format /\ call[c].gap \cap Stale = {}
    BY <1>2 DEF Stale
  <1>4. Taking(c)
    BY <1>2, <1>3 DEF Taking
  <1>5. /\ call[c].text = "indexed" => text[a].id = call[c].doc.id
        /\ call[c].image = "indexed" /\ conf.excluded = "no" => image[a].id = call[c].doc.id
    BY <1>0, <1>3, <1>4, XInvParts DEF CopyAt
  <1>6. row[b].doc = call[c].doc
    BY <1>2 DEF NInv, DocsCarried, Owns, TargetUnchanged, isCurrent
  <1>7. row'[b].doc = call[c].doc
    BY <1>2, <1>6 DEF RowKept
  <1> QED
    BY <1>2, <1>5, <1>7 DEF Near

LEMMA ClientNear == ASSUME IInv, NInv, XInv, NEW c \in Clients, ClientStep(c) PROVE \A p \in Paths : NearAt(p)'
  <1> SUFFICES ASSUME NEW p \in Paths PROVE NearAt(p)'
    OBVIOUS
  <1>1. CASE KeptText(p) /\ KeptImage(p)
    <2>1. Steady(Clients)
      BY ClaimingSteady DEF ClientStep
    <2> QED
      BY <1>1, <2>1, NearAtKept, XInvParts
  <1>2. CASE mvTail(c) /\ p = call[c].to /\ TargetUnchanged(call[c])
    BY <1>2, ArrivalNear
  <1> QED
    BY <1>1, <1>2 DEF ClientStep
(* The source of an undisturbed move that still has the content copied is     *)
(* live, and no other call owns its version.                                  *)
SourcesFree == \A c \in Clients : Following(c) => row[call[c].path].live = "yes" /\ ~Owed(call[c].path)

LEMMA FollowingFree == IInv /\ NInv => SourcesFree
  <1> SUFFICES ASSUME IInv, NInv, NEW c \in Clients, Following(c) PROVE row[call[c].path].live = "yes" /\ ~Owed(call[c].path)
    BY DEF SourcesFree
  <1>0. PICK p \in Paths : p = call[c].path
    BY CallTyped
  <1>1. /\ call[c].op = "mv" /\ call[c].at \in {"delete", "gone"} /\ Undisturbed(c)
        /\ row[p].v = call[c].seen /\ row[p].doc.id = call[c].doc.id
    BY <1>0 DEF Following, Undisturbed
  <1>2. row[p].live = "yes"
    <2>1. call[c].doc.id # 0 /\ (row[p].live = "no" => row[p].doc = NoDoc) /\ row[p] \in Row
      BY <1>1, JobsTyped DEF NInv, DocsCarried, Moves
    <2>2. row[p].live \in {"no", "yes"} /\ NoDoc.id = 0
      BY <2>1 DEF NoDoc, Row
    <2> QED
      BY <1>1, <2>1, <2>2
  <1>3. ASSUME NEW d \in Clients, Owns(call[d], p), call[d].n = row[p].v PROVE FALSE
    <2>1. d # c
      BY <1>0, <1>1, <1>3, CallTyped DEF Owns
    <2>2. Touches(d, p)
      BY <1>3 DEF Owns, Touches
    <2>3. call[d].n > call[c].seen
      BY <1>0, <1>1, <2>1, <2>2 DEF NInv, LateComers
    <2>4. call[d].n \in Nat
      BY CallTyped, VersionsNat
    <2> QED
      BY <1>1, <1>3, <2>3, <2>4
  <1> QED
    BY <1>0, <1>2, <1>3 DEF Owed

LEMMA AloneUnchanged == ASSUME NEW c \in Clients, ~Overlapped(c) PROVE ~Changing(Clients \ {c}, call[c].path)
  BY DEF Overlapped, Changing, Replaces, Arrives, Touches

(* The step of somebody else keeps what is known of the source of a move. *)
LEMMA SourceKept ==
  ASSUME IInv, NInv, IInv', NInv', XInv, NEW c \in Clients, NEW p \in Paths, p = call[c].path, call'[c] = call[c],
         Followed(c), Followed(c)', RowKept(p), Steady(Clients \ {c}),
         \A t \in Tasks' : t.path = p /\ t.v = call[c].seen => Copied(c, t.doc.id),
         NEW r, NEW id, r = First(mig)', id = mig'.doc.id,
         mig'.at = "extract" /\ r.path = p /\ r.v = call[c].seen => Copied(c, id),
         row'[p].text = "indexed" => KeptText(p) \/ Copied(c, text'[p].id),
         row'[p].image = "indexed" => KeptImage(p) \/ Copied(c, image'[p].id)
  PROVE  SourceAt(c)'
  <1>1. call'[c].path = p /\ call'[c].seen = call[c].seen /\ SourceAt(c)
    BY XInvParts
  <1>0. gap'[p] \cap Stale = {} /\ gap[p] \cap Stale = {} /\ Following(c)'
    BY DEF Followed
  <1>2. obj'[p] # NoDoc => Copied(c, obj[p].id)'
    <2>1. CASE obj'[p] = obj[p]
      <3>1. PICK i : i = obj[p].id
        OBVIOUS
      <3>2. obj[p] # NoDoc => Copied(c, i)'
        BY <1>1, <3>1, CopiedKept DEF SourceAt
      <3> QED
        BY <2>1, <3>1, <3>2
    <2>2. CASE Changing(Clients \ {c}, p)'
      BY <1>1, <2>2 DEF Copied
    <2> QED
      BY <2>1, <2>2 DEF Steady
  <1>3. \A t \in Tasks' : t.path = p /\ t.v = call[c].seen => Copied(c, t.doc.id)'
    BY CopiedKept
  <1>4. mig'.at = "extract" /\ r.path = p /\ r.v = call[c].seen => Copied(c, id)'
    BY CopiedKept
  <1>5. row'[p].live = "yes" /\ ~Owed(p)'
    <2>1. SourcesFree'
      BY FollowingFree, PTL
    <2>2. ~Owed(call[c].path)' /\ row'[call'[c].path].live = "yes"
      BY <1>0, <2>1 DEF SourcesFree
    <2> QED
      BY <1>1, <2>2 DEF Owed
  <1>6. ASSUME row'[p].text = "indexed" PROVE Copied(c, text[p].id)'
    <2>1. PICK i : i = text'[p].id
      OBVIOUS
    <2>2. Copied(c, i)
      <3>1. CASE KeptText(p)
        <4>1. row[p].text = "indexed" /\ text'[p] = text[p] /\ gap[p] \cap Foreign \subseteq gap'[p]
          BY <1>0, <1>5, <1>6, <3>1 DEF KeptText
        <4> QED
          BY <1>1, <2>1, <4>1 DEF SourceAt
      <3> QED
        BY <1>6, <2>1, <3>1
    <2>3. Copied(c, i)'
      BY <2>2, CopiedKept
    <2> QED
      BY <2>1, <2>3
  <1>7. ASSUME row'[p].image = "indexed" PROVE Copied(c, image[p].id)'
    <2>1. PICK i : i = image'[p].id
      OBVIOUS
    <2>2. Copied(c, i)
      <3>1. CASE KeptImage(p)
        <4>1. row[p].image = "indexed" /\ image'[p] = image[p] /\ gap[p] \cap Stale \subseteq gap'[p]
          BY <1>0, <1>5, <1>7, <3>1 DEF KeptImage
        <4> QED
          BY <1>1, <2>1, <4>1 DEF SourceAt
      <3> QED
        BY <1>7, <2>1, <3>1
    <2>3. Copied(c, i)'
      BY <2>2, CopiedKept
    <2> QED
      BY <2>1, <2>3
  <1> QED
    BY <1>1, <1>2, <1>3, <1>4, <1>6, <1>7 DEF SourceAt

LEMMA OtherSource ==
  ASSUME IInv, NInv, IInv', NInv', XInv, NEW d \in Clients, ClientStep(d), Excusing, NEW c \in Clients \ {d}, Followed(c)'
  PROVE  SourceAt(c)'
  <1>0. PICK p \in Paths : p = call[c].path
    BY CallTyped
  <1>1. call'[c] = call[c]
    BY DEF ClientStep, Claiming, Others
  <1>2. Undisturbed(c) /\ row'[p].v = call[c].seen /\ row'[p].doc.id = call[c].doc.id /\ call[c].seen \in Nat /\ call[c].op = "mv" /\ p # call[c].to
    <2>1. call[c].op = "mv"
      BY <1>1 DEF Followed, Following, Undisturbed
    <2> QED
      BY <1>0, <1>1, <2>1, CallTyped, VersionsNat DEF Followed, Following, Undisturbed
  <1>3. Touches(d, p) => call[d].n > call[c].seen
    BY <1>0, <1>2 DEF NInv, LateComers
  <1>4. call[d].n \in Nat
    BY CallTyped, VersionsNat
  <1>5. RowKept(p)
    BY <1>2, <1>3, <1>4 DEF ClientStep
  <1>6. Following(c) /\ Followed(c) /\ SourceAt(c)
    <2>1. Following(c)
      BY <1>0, <1>2, <1>5 DEF Following, RowKept
    <2>2. row[p].live = "yes" /\ ~Owed(p)
      BY <1>0, <2>1, FollowingFree DEF SourcesFree
    <2>3. gap[p] \cap Stale \subseteq gap'[p]
      BY <1>5, <2>2 DEF Excusing
    <2>4. Followed(c)
      BY <1>0, <1>1, <2>1, <2>3 DEF Followed
    <2> QED
      BY <2>1, <2>4, XInvParts
  <1>7. Steady(Clients \ {c})
    BY ClaimingSteady DEF ClientStep
  <1>8. KeptText(p) /\ KeptImage(p)
    <2>1. CASE mvTail(d) /\ p = call[d].to /\ TargetUnchanged(call[d])
      <3>1. MvTailEffect(d, call[d].path, call[d].to)
        BY <2>1, MvTailDoes, CallTyped
      <3>2. call[d].op = "mv" /\ call[d].at = "tail"
        BY <3>1 DEF MvTailEffect
      <3>3. Owed(p)
        BY <2>1, <3>2 DEF Owed, Owns, TargetUnchanged, isCurrent
      <3> QED
        BY <1>0, <1>6, <3>3, FollowingFree DEF SourcesFree
    <2> QED
      BY <2>1 DEF ClientStep
  <1>9. ASSUME NEW t \in Tasks', t.path = p, t.v = call[c].seen PROVE Copied(c, t.doc.id)
    <2>1. CASE t \in Tasks
      BY <1>0, <1>6, <1>9, <2>1 DEF SourceAt
    <2>2. CASE obj[t.path] # NoDoc /\ t.doc = obj[t.path]
      BY <1>0, <1>6, <1>9, <2>2 DEF SourceAt
    <2>3. CASE Owns(call[d], t.path) /\ t.v = call[d].n
      <3>1. Touches(d, p)
        BY <1>9, <2>3 DEF Owns, Touches
      <3> QED
        BY <1>2, <1>3, <1>4, <1>9, <2>3, <3>1
    <2> QED
      BY <2>1, <2>2, <2>3 DEF ClientStep
  <1>10. PICK r, id : r = First(mig) /\ id = mig.doc.id
    OBVIOUS
  <1>11. mig' = mig
    BY DEF ClientStep
  <1>12. r = First(mig)' /\ id = mig'.doc.id
    BY <1>10, <1>11, FirstSame
  <1>13. mig'.at = "extract" /\ r.path = p /\ r.v = call[c].seen => Copied(c, id)
    BY <1>0, <1>6, <1>10, <1>11 DEF SourceAt
  <1> QED
    BY <1>0, <1>1, <1>5, <1>6, <1>7, <1>8, <1>9, <1>12, <1>13, SourceKept

(* The move itself: nobody else touches its source. *)
LEMMA OwnSource ==
  ASSUME IInv, NInv, IInv', NInv', XInv, NEW c \in Clients, ClientStep(c), Followed(c)'
  PROVE  SourceAt(c)'
  <1>0. PICK p \in Paths : p = call[c].path
    BY CallTyped
  <1>1. /\ "source changed" \notin call'[c].gap /\ "interrupted" \notin call'[c].gap /\ (mvCommit(c) \/ mvDelete(c))
        /\ Following(c)' /\ gap'[call'[c].path] \cap Stale = {}
    BY DEF Followed, Following, Undisturbed, ClientStep
  <1>2. CASE mvDelete(c)
    <2>1. /\ call[c].op = "mv" /\ call[c].at = "delete" /\ call'[c].path = p /\ call'[c].seen = call[c].seen /\ call'[c].doc = call[c].doc
          /\ call[c].gap \cap {"source changed", "interrupted"} = {} /\ ~Overlapped(c) /\ obj' = [obj EXCEPT ![p] = NoDoc]
          /\ UNCHANGED <<row, text, image, mig, gap>> /\ Tasks' = Tasks
      BY <1>0, <1>1, <1>2, MvDeleteDoes, SameTasks
    <2>2. Followed(c)
      BY <1>0, <1>1, <2>1 DEF Followed, Following, Undisturbed
    <2>3. SourceAt(c)
      BY <2>2, XInvParts
    <2>4. \A id : Copied(c, id) => Copied(c, id)'
      BY <1>0, <2>1, AloneUnchanged DEF Copied
    <2>5. obj'[p] = NoDoc
      BY <2>1, JobsTyped
    <2> QED
      BY <1>0, <2>1, <2>3, <2>4, <2>5, FirstSame DEF SourceAt
  <1>3. CASE mvCommit(c)
    <2>1. /\ call[c].op = "mv" /\ call[c].at = "commit"
          /\ UNCHANGED <<obj, text, image, mig, gap>> /\ Tasks' = Tasks
      BY <1>3, MvCommitDoes, SameTasks
    <2>2. call'[c].op = "mv"
      BY <1>1 DEF Following, Undisturbed
    <2>3. /\ obj[call[c].to] # NoDoc /\ call'[c].path = p /\ call'[c].doc = obj[p] /\ call'[c].seen = row[p].v
          /\ ~Overlapped(c) /\ obj[p] # NoDoc /\ row'[p] = row[p] /\ p # call[c].to
      <3>1. call'[c] # Idle /\ p # call[c].to
        BY <1>0, <2>1, <2>2, CallTyped DEF Idle
      <3>2. /\ obj[call[c].to] # NoDoc /\ call'[c].path = call[c].path /\ call'[c].doc = obj[call[c].to]
            /\ call'[c].seen = row[call[c].path].v /\ (\A q \in Paths \ {call[c].to} : row'[q] = row[q])
            /\ "source changed" \notin call'[c].gap => ~Overlapped(c) /\ obj[call[c].path] = obj[call[c].to]
        BY <1>3, <3>1, MvCommitDoes
      <3> QED
        BY <1>0, <1>1, <3>1, <3>2
    <2>4. row[p].doc.id = obj[p].id
      BY <1>1, <2>3 DEF Following
    <2>5. ~Changing(Clients, p)
      BY <1>0, <2>1, <2>3, AloneUnchanged DEF Changing, Replaces, Arrives
    <2>6. \A id : Near(p, id) => Copied(c, id)'
      BY <2>3, <2>4, <2>5 DEF Near, Copied
    <2>7. row[p].live = "yes" /\ ~Owed(p)
      <3>1. /\ obj[p].id # 0 /\ (row[p].live = "no" => row[p].doc = NoDoc) /\ row[p] \in Row
        BY <2>3, JobsTyped DEF NInv, DocsCarried
      <3>2. row[p].live \in {"no", "yes"} /\ NoDoc.id = 0
        BY <3>1 DEF NoDoc, Row
      <3>3. ~Owed(p)
        BY <1>0, <2>1, <2>3 DEF Owed, Owns, Overlapped, Touches
      <3> QED
        BY <2>4, <3>1, <3>2, <3>3
    <2>8. Copied(c, obj[p].id)'
      BY <2>1, <2>3 DEF Copied
    <2>81. ~Excused(p) /\ gap[p] \cap Stale = {}
      BY <1>1, <2>1, <2>3, <2>7 DEF Excused
    <2>9. \A t \in Tasks : t.path = p /\ t.v = row[p].v => Near(p, t.doc.id)
      BY <2>7, <2>81, XInvParts DEF ReadNear, isCurrent
    <2>10. mig.at = "extract" /\ First(mig).path = p /\ First(mig).v = row[p].v => Near(p, mig.doc.id)
      BY <2>7, <2>81, XInvParts DEF ReadNear, isCurrent
    <2>11. (row[p].text = "indexed" => Near(p, text[p].id)) /\ (row[p].image = "indexed" => Near(p, image[p].id))
      BY <2>7, <2>81, XInvParts DEF NearAt
    <2> QED
      BY <2>1, <2>3, <2>6, <2>8, <2>9, <2>10, <2>11, FirstSame DEF SourceAt
  <1> QED
    BY <1>1, <1>2, <1>3

LEMMA CopyHeld ==
  ASSUME NEW c \in Clients, CopyAt(c), Taking(c)' => Held(c), meta'.format = meta.format, conf' = conf PROVE CopyAt(c)'
  BY DEF CopyAt, Held

LEMMA GoneCopy == ASSUME IInv, NInv, XInv, NEW c \in Clients, mvGone(c) PROVE CopyAt(c)'
  <1> SUFFICES ASSUME Taking(c)'
               PROVE  /\ call'[c].text = "indexed" => text'[call'[c].path].id = call'[c].doc.id
                      /\ call'[c].image = "indexed" => image'[call'[c].path].id = call'[c].doc.id
    BY DEF CopyAt
  <1>1. /\ UNCHANGED <<text, image>> /\ call'[c].path = call[c].path /\ call'[c].text = call[c].text /\ call'[c].image = call[c].image
        /\ call'[c].doc = call[c].doc /\ gap[call[c].path] \subseteq call'[c].gap
    BY MvGoneDoes
  <1>2. call'[c].gap \cap Stale = {} /\ call'[c].gap \cap {"source changed", "interrupted"} = {}
    BY DEF Taking, Stale
  <1>3. /\ Following(c) /\ ~Overlapped(c)
        /\ call[c].text = "indexed" => row[call[c].path].text = "indexed"
        /\ call[c].image = "indexed" => row[call[c].path].image = "indexed"
    BY <1>2, GoneUndisturbed
  <1>4. gap[call[c].path] \cap Stale = {} /\ SourceAt(c)
    BY <1>1, <1>2, <1>3, XInvParts DEF Followed
  <1>5. \A id : Copied(c, id) => id = call[c].doc.id
    BY <1>3, AloneUnchanged DEF Copied
  <1> QED
    BY <1>1, <1>3, <1>4, <1>5 DEF SourceAt

LEMMA XInvFrom ==
  ASSUME ReadsNear', \A p \in Paths : NearAt(p)', \A c \in Clients : Followed(c)' => SourceAt(c)', \A c \in Clients : CopyAt(c)'
  PROVE  XInv'
  BY DEF XInv, IndexedNear, SourceCopied, TakenCopied, NearAt, SourceAt, Followed, CopyAt, Tasks

LEMMA ClientXInv == ASSUME IInv, NInv, IInv', NInv', XInv, Clientele PROVE XInv'
  <1>0. Excusing
    BY ClienteleSteps
  <1>1. PICK c \in Clients : ClientStep(c)
    BY ClienteleSteps
  <1>2. \A d \in Clients : Followed(d)' => SourceAt(d)'
    BY <1>0, <1>1, OtherSource, OwnSource
  <1>3. ASSUME NEW d \in Clients PROVE CopyAt(d)'
    <2>1. CopyAt(d) /\ meta' = meta /\ conf' = conf
      BY <1>1, XInvParts DEF ClientStep
    <2>2. CASE Taking(d)' => Held(d)
      BY <2>1, <2>2, CopyHeld
    <2>3. CASE ~(Taking(d)' => Held(d))
      <3>1. mvGone(d)
        BY <1>1, <2>3 DEF ClientStep
      <3> QED
        BY <3>1, GoneCopy
    <2> QED
      BY <2>2, <2>3
  <1> QED
    BY <1>0, <1>1, <1>2, <1>3, ClientReads, ClientNear, XInvFrom
(* The background work embeds what it has read, or what it reads now. *)
ReadTask(t) ==
  \/ t \in Tasks
  \/ t.path \in Paths /\ obj[t.path] # NoDoc /\ t.doc = obj[t.path]
  \/ mig.at = "extract" /\ t.path = First(mig).path /\ t.v = First(mig).v /\ t.doc = mig.doc
ReadRow ==
  mig'.at = "extract" =>
     /\ mig'.rows = mig.rows /\ First(mig).path \in Paths
     /\ \/ mig.at = "extract" /\ mig'.doc = mig.doc
        \/ obj[First(mig).path] # NoDoc /\ mig'.doc = obj[First(mig).path]

LEMMA BackXInv ==
  ASSUME IInv, NInv, IInv', NInv', XInv, Backstage, \A p \in Paths : gap[p] \cap Stale \subseteq gap'[p],
         \A t \in Tasks' : ReadTask(t), ReadRow,
         \A p \in Paths : row'[p].text = "indexed" =>
            KeptText(p) \/ \E t \in Tasks : t.path = p /\ isCurrent(p, t.v) /\ text'[p].id = t.doc.id,
         \A p \in Paths : row'[p].image = "indexed" =>
            KeptImage(p) \/ \E t \in Tasks : t.path = p /\ isCurrent(p, t.v) /\ image'[p].id = t.doc.id,
         \A c \in Clients : CopyAt(c)'
  PROVE  XInv'
  <1>1. call' = call /\ obj' = obj /\ \A p \in Paths : RowKept(p)
    BY DEF Backstage
  <1>2. Steady(Clients) /\ Excusing /\ \A c \in Clients : Steady(Clients \ {c})
    BY BackSteady, BackExcuses
  <1>3. PICK f, i : f = First(mig)' /\ i = mig'.doc.id
    OBVIOUS
  <1>4. mig'.at = "extract" => /\ f = First(mig) /\ f.path \in Paths
                               /\ \/ mig.at = "extract" /\ i = mig.doc.id
                                  \/ obj[f.path] # NoDoc /\ i = obj[f.path].id
    BY <1>3, FirstSame DEF ReadRow
  <1>5. ReadsNear'
    <2>1. ASSUME NEW t \in Tasks'
          PROVE  t.path \in Paths /\ (isCurrent(t.path, t.v)' => RowKept(t.path)) /\ ReadNear(t.path, t.v, t.doc.id)
      <3>1. CASE t \in Tasks
        BY <1>1, <3>1, TaskTyped, XInvParts
      <3>2. CASE t.path \in Paths /\ obj[t.path] # NoDoc /\ t.doc = obj[t.path]
        BY <1>1, <3>2 DEF ReadNear, Near
      <3>3. CASE mig.at = "extract" /\ t.path = First(mig).path /\ t.v = First(mig).v /\ t.doc = mig.doc
        BY <1>1, <3>3, MigrationRow, XInvParts
      <3> QED
        BY <3>1, <3>2, <3>3 DEF ReadTask
    <2>2. mig'.at = "extract" => f.path \in Paths /\ (isCurrent(f.path, f.v)' => RowKept(f.path)) /\ ReadNear(f.path, f.v, i)
      <3> SUFFICES ASSUME mig'.at = "extract" PROVE f.path \in Paths /\ RowKept(f.path) /\ ReadNear(f.path, f.v, i)
        OBVIOUS
      <3>1. CASE mig.at = "extract" /\ i = mig.doc.id
        BY <1>1, <1>4, <3>1, XInvParts
      <3>2. CASE obj[f.path] # NoDoc /\ i = obj[f.path].id
        BY <1>1, <1>4, <3>2 DEF ReadNear, Near
      <3> QED
        BY <1>4, <3>1, <3>2
    <2>3. f.path = First(mig)'.path /\ f.v = First(mig)'.v
      BY <1>3
    <2> QED
      BY <1>2, <1>3, <2>1, <2>2, <2>3, ReadsKept
  <1>6. ASSUME NEW p \in Paths PROVE NearAt(p)'
    <2>0. SUFFICES ASSUME row'[p].live = "yes", ~Owed(p)', gap'[p] \cap Stale = {} PROVE NearAt(p)'
      BY DEF NearAt
    <2>00. ~Excused(p)
      <3>1. ~Owed(p)
        BY <1>1, <2>0, OwedSame DEF RowKept
      <3> QED
        BY <2>0, <3>1 DEF Excused
    <2>1. ASSUME row'[p].text = "indexed", ~KeptText(p) PROVE Near(p, text[p].id)'
      <3>1. PICK t \in Tasks : t.path = p /\ isCurrent(p, t.v) /\ text'[p].id = t.doc.id
        BY <2>1
      <3>2. PICK d : d = t.doc.id
        OBVIOUS
      <3>3. Near(p, d)
        BY <2>00, <3>1, <3>2, XInvParts DEF ReadNear
      <3>4. Near(p, d)'
        BY <1>1, <1>2, <3>3, NearKept
      <3> QED
        BY <3>1, <3>2, <3>4
    <2>2. ASSUME row'[p].image = "indexed", ~KeptImage(p) PROVE Near(p, image[p].id)'
      <3>1. PICK t \in Tasks : t.path = p /\ isCurrent(p, t.v) /\ image'[p].id = t.doc.id
        BY <2>2
      <3>2. PICK d : d = t.doc.id
        OBVIOUS
      <3>3. Near(p, d)
        BY <2>00, <3>1, <3>2, XInvParts DEF ReadNear
      <3>4. Near(p, d)'
        BY <1>1, <1>2, <3>3, NearKept
      <3> QED
        BY <3>1, <3>2, <3>4
    <2> QED
      BY <1>2, <2>1, <2>2, NearAtKept, XInvParts
  <1>7. ASSUME NEW c \in Clients, Followed(c)' PROVE SourceAt(c)'
    <2>0. PICK p \in Paths : p = call[c].path
      BY CallTyped
    <2>1. Followed(c)
      BY <1>1, <1>7, <2>0 DEF Followed, Following, Undisturbed, RowKept
    <2>2. SourceAt(c) /\ row[p].v = call[c].seen
      BY <2>0, <2>1, XInvParts DEF Followed, Following
    <2>3. ASSUME NEW t \in Tasks', t.path = p, t.v = call[c].seen PROVE Copied(c, t.doc.id)
      BY <2>0, <2>2, <2>3 DEF ReadTask, SourceAt
    <2>4. mig'.at = "extract" /\ f.path = p /\ f.v = call[c].seen => Copied(c, i)
      BY <1>4, <2>0, <2>2 DEF SourceAt
    <2>5. \A t \in Tasks : t.path = p /\ isCurrent(p, t.v) => Copied(c, t.doc.id)
      BY <2>0, <2>2 DEF SourceAt, isCurrent
    <2>6. /\ row'[p].text = "indexed" => KeptText(p) \/ Copied(c, text'[p].id)
          /\ row'[p].image = "indexed" => KeptImage(p) \/ Copied(c, image'[p].id)
      BY <2>5
    <2>7. call'[c] = call[c] /\ RowKept(p)
      BY <1>1
    <2>8. Steady(Clients \ {c}) /\ \A t \in Tasks' : t.path = p /\ t.v = call[c].seen => Copied(c, t.doc.id)
      BY <1>2, <2>3
    <2> QED
      BY <1>3, <1>7, <2>0, <2>1, <2>4, <2>6, <2>7, <2>8, SourceKept
  <1> QED
    BY <1>5, <1>6, <1>7, XInvFrom

LEMMA EmbeddedXInv == ASSUME IInv, NInv, IInv', NInv', XInv, NEW t \in running, embedded(t) PROVE XInv'
  <1>1. Backstage /\ Leave(t) /\ Resume(t) /\ t \in Tasks /\ meta'.format = meta.format /\ Tasks' = Tasks \ {t}
    BY EmbeddedDoes, EmbeddedHolds
  <1>2. ASSUME NEW p \in Paths, row'[p].text = "indexed"
        PROVE  KeptText(p) \/ \E u \in Tasks : u.path = p /\ isCurrent(p, u.v) /\ text'[p].id = u.doc.id
    <2>1. KeptText(p) \/ (p = t.path /\ isCurrent(t.path, t.v) /\ t.by # "image")
      BY EmbeddedHolds
    <2>2. p = t.path /\ isCurrent(t.path, t.v) /\ t.by # "image" => text'[p].id = t.doc.id
      BY <1>2, EmbeddedDoes
    <2> QED
      BY <1>1, <2>1, <2>2
  <1>3. ASSUME NEW p \in Paths, row'[p].image = "indexed"
        PROVE  KeptImage(p) \/ \E u \in Tasks : u.path = p /\ isCurrent(p, u.v) /\ image'[p].id = u.doc.id
    <2>1. KeptImage(p) \/ (p = t.path /\ isCurrent(t.path, t.v) /\ t.by = "image")
      BY EmbeddedHolds
    <2>2. p = t.path /\ isCurrent(t.path, t.v) /\ t.by = "image" => image'[p].id = t.doc.id
      BY <1>3, EmbeddedDoes
    <2> QED
      BY <1>1, <2>1, <2>2
  <1>4. ReadRow
    <2>1. mig'.at = "rows" \/ mig' = mig
      BY <1>1, ResumeDoes
    <2>2. mig.at = "extract" => First(mig).path \in Paths
      BY MigrationRow
    <2> QED
      BY <2>1, <2>2 DEF ReadRow
  <1>5. \A u \in Tasks' : ReadTask(u)
    BY <1>1 DEF ReadTask
  <1>6. conf' = conf
    BY <1>1 DEF Backstage
  <1>7. \A c \in Clients : CopyAt(c)'
    BY <1>1, <1>6, EmbeddedHolds, XInvParts, CopyHeld
  <1>8. \A p \in Paths : gap[p] \cap Stale \subseteq gap'[p]
    BY EmbeddedHolds
  <1> QED
    BY <1>8, <1>1, <1>2, <1>3, <1>4, <1>5, <1>7, BackXInv

LEMMA QuietXInv ==
  ASSUME IInv, NInv, IInv', NInv', XInv,
         \/ \E t \in running : failed(t) \/ initFailed(t)
         \/ warmupFailed \/ migrationSelect \/ migrationRead \/ migrationExtract \/ afterMigration
         \/ imageSlot \/ imageSelect \/ imageRow \/ embedImageFile
  PROVE  XInv'
  <1>1. /\ Backstage /\ meta'.format = meta.format
        /\ \A p \in Paths : KeptText(p) /\ KeptImage(p) /\ gap[p] \cap Stale \subseteq gap'[p]
    BY QuietHolds
  <1>2. \A c \in Clients : CopyAt(c)'
    <2>1. conf' = conf
      BY <1>1 DEF Backstage
    <2> QED
      BY <1>1, <2>1, QuietHolds, XInvParts, CopyHeld
  <1>3. mig.at = "extract" => First(mig).path \in Paths
    BY MigrationRow
  <1>4. (\A t \in Tasks' : ReadTask(t)) /\ ReadRow
    <2>1. ASSUME NEW t \in running, failed(t) \/ initFailed(t) PROVE Tasks' \subseteq Tasks /\ (mig'.at = "rows" \/ mig' = mig)
      <3>1. CASE failed(t)
        <4>1. Leave(t) /\ Resume(t)
          BY <3>1, FailedDoes
        <4> QED
          BY <4>1, ResumeDoes
      <3>2. CASE initFailed(t)
        BY <3>2, InitFailedDoes
      <3> QED
        BY <2>1, <3>1, <3>2
    <2>2. ASSUME warmupFailed \/ migrationSelect \/ afterMigration \/ imageSlot \/ imageSelect \/ imageRow
          PROVE  Tasks' = Tasks /\ (mig'.at \in {"rows", "after", "off"} \/ mig' = mig)
      <3>1. SameSlots /\ (mig'.at \in {"rows", "after", "off"} \/ mig' = mig)
        BY <2>2, WarmupFailedDoes, MigrationSelectDoes, AfterMigrationDoes, ImageSlotDoes, ImageSelectDoes, ImageRowDoes
      <3> QED
        BY <3>1, SameTasks
    <2>3. CASE (\E t \in running : failed(t) \/ initFailed(t)) \/ warmupFailed \/ migrationSelect \/ afterMigration
               \/ imageSlot \/ imageSelect \/ imageRow
      BY <1>3, <2>1, <2>2, <2>3 DEF ReadTask, ReadRow
    <2>4. CASE migrationRead
      <3>1. SameSlots /\ First(mig).path \in Paths /\ mig \in MigType /\ mig.rows # {}
        BY <2>4, MigrationReadDoes, JobsTyped
      <3>2. \/ mig' = NextRow(mig)
            \/ mig'.at = "extract" /\ mig'.rows = mig.rows /\ mig'.doc = obj[First(mig).path] /\ obj[First(mig).path] # NoDoc
        BY <2>4, MigrationReadDoes
      <3>3. NextRow(mig).at = "rows"
        BY <3>1, NextRowDoes
      <3> QED
        BY <3>1, <3>2, <3>3, SameTasks DEF ReadTask, ReadRow
    <2>5. CASE migrationExtract
      <3>1. mig.at = "extract" /\ First(mig).path \in Paths /\ mig \in MigType /\ mig.rows # {}
        BY <2>5, MigrationExtractDoes, JobsTyped
      <3>2. \/ mig' = NextRow(mig) /\ SameSlots
            \/ /\ mig'.at = "embed"
               /\ Tasks' = Tasks \cup {[by |-> "migration", path |-> First(mig).path, v |-> First(mig).v, doc |-> mig.doc]}
        BY <2>5, MigrationExtractDoes
      <3>3. NextRow(mig).at = "rows"
        BY <3>1, NextRowDoes
      <3>4. ReadRow
        BY <3>2, <3>3 DEF ReadRow
      <3>5. \A t \in Tasks' : ReadTask(t)
        BY <3>1, <3>2, SameTasks DEF ReadTask
      <3> QED
        BY <3>4, <3>5
    <2>6. CASE embedImageFile
      <3>1. mig' = mig /\ First(scan).path \in Paths
        BY <2>6, EmbedImageDoes
      <3>2. \/ SameSlots
            \/ /\ obj[First(scan).path] # NoDoc
               /\ Tasks' = Tasks \cup {[by |-> "image", path |-> First(scan).path, v |-> First(scan).v, doc |-> obj[First(scan).path]]}
        BY <2>6, EmbedImageDoes
      <3> QED
        BY <1>3, <3>1, <3>2, SameTasks DEF ReadTask, ReadRow
    <2> QED
      BY <2>3, <2>4, <2>5, <2>6
  <1> QED
    BY <1>1, <1>2, <1>4, BackXInv

LEMMA WarmedUpXInv == ASSUME IInv, NInv, IInv', NInv', XInv, warmedUp PROVE XInv'
  <1>1. /\ Backstage /\ SameSlots /\ mig.at = "warmup" /\ mig'.at = "rows" /\ meta'.format = conf.format /\ gap' = gap
    BY WarmedUpDoes
  <1>2. \A p \in Paths : KeptText(p) /\ KeptImage(p)
    BY WarmedUpHolds
  <1>3. ASSUME NEW c \in Clients PROVE CopyAt(c)'
    <2> SUFFICES ASSUME Taking(c)'
                 PROVE  /\ call'[c].text = "indexed" => text'[call'[c].path].id = call'[c].doc.id
                        /\ call'[c].image = "indexed" /\ call'[c].format = meta'.format /\ conf'.excluded = "no"
                              => image'[call'[c].path].id = call'[c].doc.id
      BY DEF CopyAt
    <2>1. Taking(c) /\ call'[c] = call[c] /\ text' = text /\ (image'[call[c].path] = image[call[c].path] \/ DropImages)
      BY WarmedUpHolds
    <2>2. call[c].format = meta.format
      BY <1>1, <2>1 DEF Taking, NInv, DocsCarried, Moves
    <2>3. conf' = conf
      BY <1>1 DEF Backstage
    <2>4. CopyAt(c)
      BY XInvParts
    <2>5. DropImages => call[c].format # meta'.format \/ conf.excluded # "no"
      BY <1>1, <2>2 DEF DropImages, NewFormat
    <2> QED
      BY <2>1, <2>2, <2>3, <2>4, <2>5 DEF CopyAt
  <1>4. Tasks' = Tasks
    BY <1>1, SameTasks
  <1>5. ReadRow /\ \A t \in Tasks' : ReadTask(t)
    BY <1>1, <1>4 DEF ReadRow, ReadTask
  <1> QED
    BY <1>1, <1>2, <1>3, <1>5, BackXInv

LEMMA CrashXInv == ASSUME IInv, XInv, Crash PROVE XInv'
  <1>1. /\ Tasks' = {} /\ mig'.at = "off" /\ (\A c \in Clients : call'[c] = Idle)
        /\ (\A p \in Paths : gap[p] \subseteq gap'[p] /\ (InFlight(p) => "interrupted" \in gap'[p]))
        /\ UNCHANGED <<obj, row, text, image>>
    BY CrashDoes DEF Stopped
  <1>2. ReadsNear'
    BY <1>1 DEF ReadsNear, Tasks
  <1>3. \A c \in Clients : ~Followed(c)' /\ ~Taking(c)'
    <2>1. \A c \in Clients : call'[c].op = "none"
      BY <1>1 DEF Idle
    <2> QED
      BY <2>1 DEF Followed, Following, Undisturbed, Taking
  <1>4. ASSUME NEW p \in Paths PROVE NearAt(p)'
    <2> SUFFICES ASSUME row'[p].live = "yes", gap'[p] \cap Stale = {}
                 PROVE  /\ row'[p].text = "indexed" => Near(p, text[p].id)'
                        /\ row'[p].image = "indexed" => Near(p, image[p].id)'
      BY DEF NearAt
    <2>1. ~InFlight(p) /\ gap[p] \cap Stale = {}
      BY <1>1 DEF Stale
    <2>2. ~Owed(p) /\ ~Changing(Clients, p)
      BY <2>1 DEF InFlight, Touches, Owed, Owns, Changing, Replaces, Arrives
    <2>3. NearAt(p)
      BY XInvParts
    <2> QED
      BY <1>1, <2>1, <2>2, <2>3 DEF NearAt, Near
  <1>5. \A c \in Clients : CopyAt(c)'
    BY <1>3 DEF CopyAt
  <1> QED
    BY <1>2, <1>3, <1>4, <1>5, XInvFrom

LEMMA BootXInv == ASSUME IInv, XInv, NEW s \in Settings, Boot(s) PROVE XInv'
  <1>1. /\ Tasks' = Tasks /\ mig'.at = "warmup" /\ (\A c \in Clients : call[c].op = "none")
        /\ UNCHANGED <<obj, row, text, image, call>>
        /\ \A p \in Paths : gap'[p] \cap Stale = gap[p] \cap Stale
    <2>1. Stale \cap Waits = {}
      BY DEF Stale, Waits
    <2> QED
      BY <2>1, BootDoes
  <1>2. \A p, id : Near(p, id) => Near(p, id)'
    BY <1>1 DEF Near, Changing, Replaces, Arrives
  <1>3. ReadsNear'
    <2>1. \A p \in Paths : ~Owed(p) /\ ~Owed(p)'
      BY <1>1 DEF Owed, Owns
    <2>2. \A p \in Paths : Excused(p) => Excused(p)'
      BY <1>1, <2>1 DEF Excused
    <2>3. \A t \in Tasks' : ReadNear(t.path, t.v, t.doc.id)'
      BY <1>1, <1>2, <2>2, TaskTyped, XInvParts DEF ReadNear, isCurrent
    <2> QED
      BY <1>1, <2>3 DEF ReadsNear, Tasks
  <1>4. \A c \in Clients : ~Followed(c)' /\ ~Taking(c)'
    BY <1>1 DEF Followed, Following, Undisturbed, Taking
  <1>5. \A p \in Paths : NearAt(p)'
    BY <1>1, <1>2, XInvParts DEF NearAt, Owed, Owns
  <1>6. \A c \in Clients : CopyAt(c)'
    BY <1>4 DEF CopyAt
  <1> QED
    BY <1>3, <1>4, <1>5, <1>6, XInvFrom

LEMMA StutterXInv == ASSUME IInv, NInv, IInv', NInv', XInv, UNCHANGED vars PROVE XInv'
  <1>1. /\ UNCHANGED <<up, conf, obj, row, text, image, call, calls, gap, mig, meta>>
    BY DEF vars
  <1>2. Backstage
    BY <1>1 DEF Backstage, RowKept
  <1>3. Tasks' = Tasks /\ (\A p \in Paths : KeptText(p) /\ KeptImage(p)) /\ \A c \in Clients : Taking(c)' => Held(c)
    BY BootHolds
  <1>4. \A t \in Tasks' : ReadTask(t)
    BY <1>3 DEF ReadTask
  <1>5. ReadRow
    BY <1>1, MigrationRow DEF ReadRow
  <1>6. \A c \in Clients : CopyAt(c)'
    BY <1>1, <1>3, XInvParts, CopyHeld
  <1>7. \A p \in Paths : gap[p] \cap Stale \subseteq gap'[p]
    BY <1>1
  <1> QED
    BY <1>2, <1>3, <1>4, <1>5, <1>6, <1>7, BackXInv

(* Where a call was cut off, its path or the call that owns it says so. *)
LEMMA CallFailedXInv == ASSUME IInv, XInv, NEW c \in Clients, callFailed(c) PROVE XInv'
  <1>1. /\ call'[c] = Idle
        /\ \A d \in Clients \ {c} : Weaker(d) /\ ("interrupted" \in call'[d].gap \/ call'[d] = call[d])
        /\ \A d \in Clients \ {c}, p \in Paths : Touches(c, p) /\ Touches(d, p) => "interrupted" \in call'[d].gap
        /\ \A p \in Paths : /\ gap[p] \subseteq gap'[p]
                            /\ Touches(c, p) => {"interrupted", "left pending"} \subseteq gap'[p]
        /\ UNCHANGED <<conf, meta, obj, row, text, image, slots, mig>>
    BY CallFailedDoes DEF IInv
  <1>2. Tasks' = Tasks /\ call'[c].op = "none" /\ \A p \in Paths : RowKept(p)
    <2>1. Tasks' = Tasks
      BY CallFailedDoes, SameTasks DEF IInv, slots, SameSlots
    <2>2. call'[c] = Idle /\ row' = row
      BY <1>1
    <2>3. call'[c].op = "none"
      BY <2>2 DEF Idle
    <2> QED
      BY <2>1, <2>2, <2>3 DEF RowKept
  <1>3. ASSUME NEW p \in Paths, NEW d \in Clients PROVE (Owns(call[d], p)' => d # c /\ Owns(call[d], p) /\ Touches(d, p)) /\ (Owns(call[d], p) => Touches(d, p))
    BY <1>1, <1>2 DEF Owns, Touches, Weaker
  <1>4. ASSUME NEW p \in Paths, ~Touches(c, p), NEW D \in SUBSET Clients PROVE Changing(D, p) => Changing(D, p)'
    <2> SUFFICES ASSUME NEW d \in D, Claims(d, p) PROVE Claims(d, p)'
      BY DEF Changing, Claims
    <2>1. d # c
      BY <1>4 DEF Claims, Replaces, Arrives, Touches
    <2> QED
      BY <1>1, <2>1 DEF Claims, Replaces, Arrives, Weaker
  <1>5. ASSUME NEW p \in Paths, ~Touches(c, p), NEW id PROVE Near(p, id) => Near(p, id)'
    BY <1>1, <1>4, <1>5 DEF Near
  <1>6. ASSUME NEW p \in Paths, NEW id PROVE (Near(p, id) \/ Excused(p) => Near(p, id)' \/ Excused(p)') /\ (Touches(c, p) => Excused(p)')
    <2>1. CASE Touches(c, p)
      <3>1. CASE Owed(p)'
        <4>1. PICK d \in Clients : Owns(call[d], p)' /\ call'[d].n = row'[p].v
          BY <3>1 DEF Owed
        <4>2. "interrupted" \in call'[d].gap
          BY <1>1, <1>3, <2>1, <4>1
        <4> QED
          BY <3>1, <4>1, <4>2 DEF Excused, Stale
      <3>2. CASE ~Owed(p)'
        <4>1. gap'[p] \cap Stale # {}
          BY <1>1, <2>1 DEF Stale
        <4> QED
          BY <3>2, <4>1 DEF Excused
      <3> QED
        BY <3>1, <3>2
    <2>2. CASE ~Touches(c, p)
      <3>1. \A d \in Clients : Owns(call[d], p) => d # c
        BY <1>3, <2>2
      <3>2. Owed(p) <=> Owed(p)'
        <4>1. Owed(p) => Owed(p)'
          BY <1>1, <2>2, OwedWeaker
        <4>2. ASSUME NEW d \in Clients, Owns(call[d], p)', call'[d].n = row'[p].v PROVE Owns(call[d], p) /\ call[d].n = row[p].v
          <5>1. d # c /\ Owns(call[d], p)
            BY <1>3, <4>2
          <5>2. call'[d].n = call[d].n /\ row' = row
            BY <1>1, <5>1 DEF Weaker
          <5> QED
            BY <4>2, <5>1, <5>2
        <4> QED
          BY <4>1, <4>2 DEF Owed
      <3>3. Excused(p) => Excused(p)'
        <4>1. CASE Owed(p)
          <5>1. ASSUME NEW d \in Clients, Owns(call[d], p), call[d].n = row[p].v, call[d].gap \cap Stale # {}
                PROVE  Owns(call[d], p)' /\ call'[d].n = row'[p].v /\ call'[d].gap \cap Stale # {}
            BY <1>1, <3>1, <5>1 DEF Owns, Weaker
          <5> QED
            BY <3>2, <4>1, <5>1 DEF Excused
        <4>2. CASE ~Owed(p)
          <5>1. gap[p] \cap Stale # {} => gap'[p] \cap Stale # {}
            BY <1>1
          <5> QED
            BY <3>2, <4>2, <5>1 DEF Excused
        <4> QED
          BY <4>1, <4>2
      <3> QED
        BY <1>5, <2>2, <3>3
    <2> QED
      BY <2>1, <2>2
  <1>7. ReadsNear'
    <2>1. \A t \in Tasks' : ReadNear(t.path, t.v, t.doc.id)'
      BY <1>1, <1>2, <1>6, TaskTyped, XInvParts DEF ReadNear, isCurrent
    <2>2. PICK p, v, id : p = First(mig).path /\ v = First(mig).v /\ id = mig.doc.id
      OBVIOUS
    <2>3. mig.at = "extract" => p \in Paths
      BY <2>2, NextRowDoes, JobsTyped DEF IInv, MarkerExact
    <2>4. mig.at = "extract" => ReadNear(p, v, id)'
      BY <1>1, <1>6, <2>2, <2>3, XInvParts DEF ReadNear, isCurrent
    <2>5. p = First(mig)'.path /\ v = First(mig)'.v /\ id = mig'.doc.id /\ mig' = mig
      BY <1>1, <2>2, FirstSame
    <2> QED
      BY <2>1, <2>4, <2>5 DEF ReadsNear, Tasks
  <1>8. ASSUME NEW p \in Paths PROVE NearAt(p)'
    <2> SUFFICES ASSUME row'[p].live = "yes", ~Owed(p)', gap'[p] \cap Stale = {}
                 PROVE  /\ row'[p].text = "indexed" => Near(p, text[p].id)'
                        /\ row'[p].image = "indexed" => Near(p, image[p].id)'
      BY DEF NearAt
    <2>1. ~Touches(c, p) /\ gap[p] \cap Stale = {}
      BY <1>1 DEF Stale
    <2>2. ~Owed(p)
      BY <1>1, <2>1, OwedWeaker
    <2>3. (row[p].text = "indexed" => Near(p, text[p].id)) /\ (row[p].image = "indexed" => Near(p, image[p].id))
      BY <1>1, <2>1, <2>2, XInvParts DEF NearAt
    <2>4. PICK i, j : i = text[p].id /\ j = image[p].id
      OBVIOUS
    <2>5. (Near(p, i) => Near(p, i)') /\ (Near(p, j) => Near(p, j)')
      BY <1>5, <2>1
    <2> QED
      BY <1>1, <2>3, <2>4, <2>5
  <1>9. ASSUME NEW d \in Clients, Followed(d)' PROVE SourceAt(d)'
    <2>0. PICK p \in Paths : p = call[d].path
      BY CallTyped
    <2>1. d # c /\ call'[d] = call[d]
      BY <1>1, <1>2, <1>9 DEF Followed, Following, Undisturbed
    <2>2. ~Touches(c, p) /\ gap[p] \cap Stale = {}
      BY <1>1, <1>9, <2>0, <2>1 DEF Followed, Stale
    <2>3. Followed(d)
      BY <1>1, <1>9, <2>0, <2>1, <2>2 DEF Followed, Following, Undisturbed
    <2>4. SourceAt(d)
      BY <2>3, XInvParts
    <2>5. Changing(Clients \ {d}, p) => Changing(Clients \ {d}, p)'
      BY <1>4, <2>2
    <2>6. \A id : Copied(d, id) => Copied(d, id)'
      BY <2>0, <2>1, <2>5 DEF Copied
    <2> QED
      BY <1>1, <1>2, <2>1, <2>4, <2>6, FirstSame DEF SourceAt
  <1>10. ASSUME NEW d \in Clients PROVE CopyAt(d)'
    BY <1>1, CallFailedHolds, XInvParts, CopyHeld
  <1> QED
    BY <1>7, <1>8, <1>9, <1>10, XInvFrom

LEMMA InitXInv == ASSUME Init PROVE XInv
  <1>1. /\ running = {} /\ queue = <<>> /\ mig.at = "off" /\ \A c \in Clients : call[c].op = "none"
    BY DEF Init, Idle, Stopped
  <1>2. Waiters = {}
    BY <1>1 DEF Waiters
  <1>3. ASSUME NEW p \in Paths
        PROVE  /\ row[p].text = "indexed" => text[p].id = row[p].doc.id
               /\ row[p].image = "indexed" => image[p].id = row[p].doc.id
    <2>1. CASE p = 1
      BY <2>1 DEF Init, Seed
    <2>2. CASE p # 1
      BY <2>2 DEF Init
    <2> QED
      BY <2>1, <2>2
  <1> QED
    BY <1>1, <1>2, <1>3 DEF XInv, ReadsNear, IndexedNear, SourceCopied, TakenCopied, Following, Undisturbed, Taking, Near

LEMMA NextXInv == ASSUME IInv, NInv, IInv', NInv', XInv, [Next]_vars PROVE XInv'
  <1>1. CASE UNCHANGED vars
    BY <1>1, StutterXInv
  <1>2. CASE Clientele
    BY <1>2, ClientXInv
  <1>3. CASE \E t \in running : embedded(t)
    BY <1>3, EmbeddedXInv
  <1>4. CASE warmedUp
    BY <1>4, WarmedUpXInv
  <1>5. CASE \/ \E t \in running : failed(t) \/ initFailed(t)
             \/ warmupFailed \/ migrationSelect \/ migrationRead \/ migrationExtract \/ afterMigration
             \/ imageSlot \/ imageSelect \/ imageRow \/ embedImageFile
    BY <1>5, QuietXInv
  <1>6. CASE Crash \/ \E s \in Settings : Boot(s)
    BY <1>6, CrashXInv, BootXInv
  <1>7. CASE \E c \in Clients : callFailed(c)
    BY <1>7, CallFailedXInv
  <1> QED
    BY <1>1, <1>2, <1>3, <1>4, <1>5, <1>6, <1>7 DEF Next, Background, Faults

LEMMA ContentsHold == Spec => []XInv
  <1>1. Init => XInv
    BY InitXInv
  <1>2. IInv /\ NInv /\ IInv' /\ NInv' /\ XInv /\ [Next]_vars => XInv'
    BY NextXInv
  <1> QED
    BY <1>1, <1>2, InvariantHolds, NumbersHold, PTL DEF Spec

LEMMA ContentsGive == ASSUME XInv PROVE IndexedIsFresh
  <1> SUFFICES ASSUME NEW p \in Paths, row[p].live = "yes", ~InFlight(p),
                      gap[p] \cap {"interrupted", "source changed", "source rewritten", "format changed"} = {}
               PROVE  /\ row[p].text = "indexed" => text[p].id \in {row[p].doc.id, obj[p].id}
                      /\ row[p].image = "indexed" => image[p].id \in {row[p].doc.id, obj[p].id}
    BY DEF IndexedIsFresh
  <1>1. ~Owed(p) /\ ~Changing(Clients, p)
    BY DEF InFlight, Touches, Owed, Owns, Changing, Replaces, Arrives
  <1>2. gap[p] \cap Stale = {} /\ NearAt(p)
    BY XInvParts DEF Stale
  <1> QED
    BY <1>1, <1>2 DEF NearAt, Near

(* A file marked indexed has the chunks of the content its row or its object  *)
(* holds, whichever of the write's job, the migration, the image job, a       *)
(* reindex and a move finished last (pipeline.ts, embedding-migration.ts,     *)
(* image-embedding.ts, reindex.ts, mv.ts); the exceptions are a call that a   *)
(* crash or an error cut off, and a move that overlapped a write or a change  *)
(* of format.                                                                 *)
THEOREM IndexedStaysFresh == Spec => []IndexedIsFresh
  <1>1. XInv => IndexedIsFresh
    BY ContentsGive
  <1> QED
    BY <1>1, ContentsHold, PTL
=============================================================================
