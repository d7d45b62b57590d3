------------------------ MODULE DriveFilesSolo_proofs ------------------------
(* For any callers, paths, texts and faults: an operation that runs alone on  *)
(* a path reconciles the object store, the version rows and the search index, *)
(* commits on the version it expected, the search index follows the head, and *)
(* mv deletes nothing before its destination is committed.                    *)
EXTENDS DriveFiles_proofs

-----------------------------------------------------------------------------
(* The newest row. *)

LEMMA NewestRow ==
  ASSUME NEW R, NEW h \in R, \A r \in R : r.version \in Nat /\ r.version <= h.version,
         \A r, s \in R : r.version = s.version => r = s
  PROVE  /\ (CHOOSE v \in {r.version : r \in R} : \A r \in R : r.version <= v) = h.version
         /\ (CHOOSE r \in R : r.version = h.version) = h
  <1>1. \A v \in {r.version : r \in R} : (\A r \in R : r.version <= v) => v = h.version
    OBVIOUS
  <1>2. h.version \in {r.version : r \in R}
    OBVIOUS
  <1>3. (CHOOSE v \in {r.version : r \in R} : \A r \in R : r.version <= v) = h.version
    BY <1>1, <1>2
  <1>4. \A r \in R : r.version = h.version => r = h
    OBVIOUS
  <1> QED
    BY <1>3, <1>4

LEMMA HeadOf ==
  ASSUME IInv, NEW p \in Paths, NEW h \in rows[p], h.version = files[p].current
  PROVE  HeadRow(p) = h /\ HeadHash(p) = h.hash
  <1>1. \A r \in rows[p] : r.version \in Nat
    BY DEF IInv, TypeOK, Row
  <1>2. PICK g \in rows[p] : /\ files[p] = [current |-> g.version, deleted |-> g.op = "delete"]
                             /\ \A s \in rows[p] : s.version <= g.version
    BY DEF IInv, FilesTrackHead
  <1>3. \A r \in rows[p] : r.version \in Nat /\ r.version <= h.version
    BY <1>1, <1>2
  <1>4. \A r, s \in rows[p] : r.version = s.version => r = s
    BY DEF IInv, VersionsDense
  <1>5. /\ (CHOOSE v \in {r.version : r \in rows[p]} : \A r \in rows[p] : r.version <= v) = h.version
        /\ (CHOOSE r \in rows[p] : r.version = h.version) = h
    BY <1>3, <1>4, NewestRow
  <1>6. HeadVersion(p) = h.version
    BY <1>5 DEF HeadVersion
  <1> QED
    BY <1>5, <1>6 DEF HeadRow, HeadHash

(* The row createVersion inserts is the newest. *)
LEMMA CreatedIsHead ==
  ASSUME IInv, IInv', NEW c \in Clients, pc[c] = "insert", CreateVersion(c),
         NEW p \in Paths, p = loc[c].path
  PROVE  /\ NewRow(c) \in rows'[p] /\ HeadHash(p)' = NewRow(c).hash
         /\ files'[p] = [current |-> loc[c].version, deleted |-> Deleting(c)]
         /\ \A q \in Paths : rows[q] \subseteq rows'[q]
         /\ \A q \in Paths \ {p} : rows'[q] = rows[q] /\ files'[q] = files[q]
  <1>1. loc[c].version \in Nat
    BY CallerTypes
  <1> DEFINE h == NewRow(c)
  <1> HIDE DEF h
  <1>2. /\ rows' = [rows EXCEPT ![p] = @ \cup {h}]
        /\ files' = [files EXCEPT ![p] = [current |-> loc[c].version, deleted |-> Deleting(c)]]
    BY DEF CreateVersion, h
  <1>3. /\ rows'[p] = rows[p] \cup {h}
        /\ files'[p] = [current |-> loc[c].version, deleted |-> Deleting(c)]
        /\ \A q \in Paths \ {p} : rows'[q] = rows[q] /\ files'[q] = files[q]
    BY <1>1, <1>2 DEF IInv, TypeOK
  <1>4. h.version = loc[c].version
    BY DEF h, NewRow
  <1>5. \A r \in rows'[p] : r.version \in Nat
    BY <1>1 DEF IInv, TypeOK, Row
  <1>6. PICK g \in rows'[p] : /\ files'[p] = [current |-> g.version, deleted |-> g.op = "delete"]
                              /\ \A s \in rows'[p] : s.version <= g.version
    BY <1>1, <1>3 DEF IInv, FilesTrackHead
  <1>7. \A r \in rows'[p] : r.version \in Nat /\ r.version <= h.version
    BY <1>3, <1>4, <1>5, <1>6
  <1>8. \A r, s \in rows'[p] : r.version = s.version => r = s
    BY <1>1 DEF IInv, VersionsDense
  <1>9. h \in rows'[p]
    BY <1>3
  <1>10. /\ (CHOOSE v \in {r.version : r \in rows'[p]} : \A r \in rows'[p] : r.version <= v) = h.version
         /\ (CHOOSE r \in rows'[p] : r.version = h.version) = h
    BY <1>7, <1>8, <1>9, NewestRow
  <1>11. HeadVersion(p)' = h.version
    BY <1>9, <1>10 DEF HeadVersion
  <1>12. HeadHash(p)' = h.hash
    BY <1>9, <1>10, <1>11 DEF HeadRow, HeadHash
  <1> QED
    BY <1>1, <1>3, <1>9, <1>12 DEF h
-----------------------------------------------------------------------------
(* A step leaves alone the paths its operation does not declare. *)

Same(p) ==
    /\ store'[p] = store[p] /\ rows'[p] = rows[p] /\ files'[p] = files[p] /\ fts'[p] = fts[p]
    /\ p \in stars' <=> p \in stars

LEMMA SameState ==
  ASSUME NEW p \in Paths, Same(p)
  PROVE  /\ Latest(p)' = Latest(p) /\ HeadHash(p)' = HeadHash(p)
         /\ Agrees(p)' <=> Agrees(p)
  <1>1. Latest(p)' = Latest(p)
    BY DEF Same, Latest
  <1>2. HeadVersion(p)' = HeadVersion(p)
    BY DEF Same, HeadVersion
  <1>3. HeadHash(p)' = HeadHash(p)
    BY <1>2 DEF Same, HeadHash, HeadRow
  <1> QED
    BY <1>1, <1>3 DEF Same, Agrees

(* What an operation touched, it declared. *)
LEMMA TouchedDeclared ==
  ASSUME IInv, SInv, NEW c \in Clients, NEW p, Touched(c, p)
  PROVE  p \in Writes(req[c]) /\ Running(c)
  BY DEF SInv, PathsApart, Touched, Running, Writes

LEMMA WritesTyped ==
  ASSUME IInv, NEW c \in Clients, Running(c)
  PROVE  Writes(req[c]) \subseteq Paths /\ CheckedPath(req[c]) \in Writes(req[c])
  BY CallerTypes DEF Running, Writes, CheckedPath

StepBy(c) ==
    /\ \A p \in Paths \ Writes(req[c]) : Same(p) /\ clean'[p] = clean[p]
    /\ \A p \in Paths : rows[p] \subseteq rows'[p]
    /\ \A d \in Clients \ {c} : pc'[d] = pc[d] /\ req'[d] = req[d] /\ loc'[d] = loc[d]

(* What is known of the other operations stays. *)
LEMMA OthersKept ==
  ASSUME IInv, SInv, NEW c \in Clients, Running(c), StepBy(c), NEW d \in Clients \ {c}, Running(d)
  PROVE  BaseHolds(d)' /\ RowRecorded(d)' /\ SoloState(d)'
  <1>1. BaseHolds(d) /\ RowRecorded(d) /\ SoloState(d)
    BY DEF SInv
  <1>2. /\ loc[d].solo \subseteq Paths
        /\ \A p \in loc[d].solo : p \notin Writes(req[c])
    BY WritesTyped DEF SInv, PathsApart
  <1>3. \A p \in loc[d].solo : /\ p \in Paths /\ Same(p) /\ clean'[p] = clean[p]
                               /\ Latest(p)' = Latest(p) /\ HeadHash(p)' = HeadHash(p)
    BY <1>2, SameState DEF StepBy
  <1>4. pc'[d] = pc[d] /\ req'[d] = req[d] /\ loc'[d] = loc[d]
    BY DEF StepBy
  <1>5. /\ Committed(d)' <=> Committed(d)
        /\ Deleting(d)' <=> Deleting(d)
        /\ IndexedPath(d)' = IndexedPath(d) /\ IndexedPath(d) \in Paths
    BY <1>4, CallerTypes DEF Committed, Deleting, IndexedPath, Running
  <1>6. BaseHolds(d)'
    BY <1>1, <1>3, <1>4 DEF BaseHolds, Same
  <1>7. RowRecorded(d)'
    BY <1>1, <1>4, <1>5 DEF RowRecorded, StepBy
  <1>8. SoloState(d)'
    <2> SUFFICES ASSUME NEW p \in loc[d].solo
                 PROVE  /\ pc[d] = "inspect" /\ p = req[d].dst => Latest(p)' # NoContent
                        /\ pc[d] = "inspect" /\ p = req[d].dst /\ req[d].kind = "mv"
                             /\ req[d].path \in loc[d].solo => Latest(p)' = Latest(req[d].path)'
                        /\ req[d].kind = "mv" /\ pc[d] \in {"next", "insert", "delete", "index"}
                             /\ p = req[d].dst => loc[d].text = loc[d].body
                        /\ pc[d] \in {"next", "insert"} /\ p = loc[d].path =>
                              Latest(p)' = IF Deleting(d) THEN NoContent ELSE loc[d].body
                        /\ Committed(d) /\ p = IndexedPath(d) =>
                              /\ Latest(p)' = loc[d].body
                              /\ files'[p] = [current |-> loc[d].target, deleted |-> FALSE]
                        /\ pc[d] = "index" /\ req[d].kind = "mv" /\ p = req[d].path =>
                              Latest(p)' = NoContent /\ HeadHash(p)' = NoContent /\ fts'[p] = NoContent
                        /\ pc[d] = "star" /\ clean'[p] => Latest(p)' # NoContent
      BY <1>4, <1>5 DEF SoloState
    <2>1. Latest(p)' = Latest(p) /\ HeadHash(p)' = HeadHash(p) /\ Same(p) /\ clean'[p] = clean[p]
      BY <1>3
    <2>2. req[d].path \in loc[d].solo => Latest(req[d].path)' = Latest(req[d].path)
      <3>1. ASSUME NEW q \in loc[d].solo PROVE Latest(q)' = Latest(q)
        BY <1>3
      <3>2. Latest(req[d].path)' = LET q == req[d].path IN IF store'[q] = << >> THEN NoContent ELSE store'[q][Len(store'[q])]
        BY <1>4 DEF Latest
      <3> QED
        BY <3>1, <3>2 DEF Latest
    <2> QED
      BY <1>1, <2>1, <2>2 DEF SoloState, Same
  <1> QED
    BY <1>6, <1>7, <1>8

(* The operation moves on with the same request. *)
MovesOn(c) ==
    /\ Running(c)' /\ req'[c] = req[c] /\ loc'[c].solo \subseteq loc[c].solo
    /\ loc'[c].path \in Writes(req[c])
    /\ pc'[c] \in {"kind", "star"} => req[c].kind = "star"

LEMMA ApartKept ==
  ASSUME IInv, SInv, NEW c \in Clients, Running(c), StepBy(c), MovesOn(c) \/ ~Running(c)'
  PROVE  PathsApart'
  <1> SUFFICES ASSUME NEW d \in Clients, Running(d)'
               PROVE  /\ req'[d].kind \in Kinds
                      /\ pc'[d] \in {"kind", "star"} => req'[d].kind = "star"
                      /\ loc'[d].path \in Writes(req'[d]) /\ loc'[d].solo \subseteq Writes(req'[d])
                      /\ \A e \in Clients \ {d} : Running(e)' => loc'[d].solo \cap Writes(req'[e]) = {}
    BY DEF PathsApart
  <1>1. \A e \in Clients : Running(e)' => /\ Running(e) /\ req'[e] = req[e] /\ loc'[e].solo \subseteq loc[e].solo
                                          /\ e # c => pc'[e] = pc[e] /\ loc'[e] = loc[e]
                                          /\ e = c => MovesOn(c)
    BY DEF StepBy, MovesOn, Running
  <1> QED
    BY <1>1 DEF SInv, PathsApart, MovesOn

(* A clean path that the step leaves clean agrees, or is being worked on. *)
LEMMA CleanKept ==
  ASSUME IInv, SInv, NEW c \in Clients, Running(c), StepBy(c),
         \A p \in Writes(req[c]) : clean'[p] =>
            \/ Agrees(p)' \/ Touched(c, p)'
            \/ clean[p] /\ ~Touched(c, p) /\ Same(p)
            \/ clean[p] /\ \E d \in Clients \ {c} : Touched(d, p)
  PROVE  CleanAgrees'
  <1> SUFFICES ASSUME NEW p \in Paths, clean'[p] PROVE Agrees(p)' \/ \E d \in Clients : Touched(d, p)'
    BY DEF CleanAgrees
  <1>1. \A d \in Clients \ {c} : Touched(d, p) => Touched(d, p)'
    BY DEF StepBy, Touched
  <1>2. CASE p \notin Writes(req[c])
    <2>1. Same(p) /\ clean[p]
      BY <1>2 DEF StepBy
    <2>2. ~Touched(c, p)
      BY <1>2, TouchedDeclared
    <2>3. Agrees(p) \/ \E d \in Clients : Touched(d, p)
      BY <2>1 DEF SInv, CleanAgrees
    <2> QED
      BY <1>1, <2>1, <2>2, <2>3, SameState
  <1>3. CASE p \in Writes(req[c])
    <2>1. CASE clean[p] /\ ~Touched(c, p) /\ Same(p)
      <3>1. Agrees(p) \/ \E d \in Clients : Touched(d, p)
        BY <2>1 DEF SInv, CleanAgrees
      <3> QED
        BY <1>1, <2>1, <3>1, SameState
    <2>2. CASE \E d \in Clients \ {c} : Touched(d, p)
      BY <1>1, <2>2
    <2> QED
      BY <1>3, <2>1, <2>2
  <1> QED
    BY <1>2, <1>3

LEMMA CopyKept ==
  ASSUME IInv, SInv, NEW c \in Clients, Running(c), StepBy(c),
         \A p \in Writes(req[c]) :
            /\ pc'[c] = "inspect" /\ p = req'[c].dst => Latest(p)' # NoContent
            /\ Latest(p)' = NoContent => Latest(p) = NoContent \/ Removing(c, p)'
            /\ clean'[p] => clean[p] \/ p \in loc[c].solo
            /\ Removing(c, p) /\ clean'[p] => Removing(c, p)' \/ p \in loc[c].solo,
         pc'[c] = "inspect" => req'[c].dst \in Writes(req[c])
  PROVE  CopyLost'
  <1> SUFFICES ASSUME NEW d \in Clients, NEW p, pc'[d] = "inspect", p = req'[d].dst,
                      Latest(p)' = NoContent, clean'[p]
               PROVE  \E e \in Clients : Removing(e, p)'
    <2>1. ASSUME NEW d \in Clients, NEW p, pc'[d] = "inspect", p = req'[d].dst
          PROVE  Latest(p)' # NoContent \/ ~clean'[p] \/ \E e \in Clients : Removing(e, p)'
      BY <2>1
    <2> QED
      BY <2>1 DEF CopyLost, Latest, Removing, Deleting
  <1>1. d # c
    OBVIOUS
  <1>2. pc[d] = "inspect" /\ p = req[d].dst /\ req[d].kind \in {"mv", "cp"}
    BY <1>1, CallerTypes DEF StepBy, PhaseOK
  <1>3. p \in Writes(req[d]) /\ p \in Paths /\ Running(d)
    BY <1>2, CallerTypes DEF Writes, CheckedPath, Running
  <1>4. p \notin loc[c].solo
    BY <1>1, <1>3 DEF SInv, PathsApart
  <1>5. \A e \in Clients \ {c} : Removing(e, p) => Removing(e, p)'
    BY DEF StepBy, Removing, Deleting
  <1>6. Latest(p) # NoContent \/ ~clean[p] \/ \E e \in Clients : Removing(e, p)
    BY <1>2 DEF SInv, CopyLost
  <1>7. CASE p \in Writes(req[c])
    BY <1>4, <1>5, <1>6, <1>7
  <1>8. CASE p \notin Writes(req[c])
    <2>1. ~Removing(c, p)
      BY <1>8 DEF Removing, Deleting, Writes, CheckedPath
    <2>2. Latest(p) = NoContent /\ clean[p]
      BY <1>3, <1>8, SameState DEF StepBy
    <2> QED
      BY <1>5, <1>6, <2>1, <2>2
  <1> QED
    BY <1>7, <1>8
-----------------------------------------------------------------------------
(* Where a step leads to, and what it needs to keep. *)

LEMMA GotoEffect ==
  ASSUME IInv, NEW c \in Clients, NEW phase, NEW l, Goto(c, phase, l)
  PROVE  /\ pc'[c] = phase /\ loc'[c] = l /\ req' = req
         /\ \A d \in Clients \ {c} : pc'[d] = pc[d] /\ loc'[d] = loc[d] /\ req'[d] = req[d]
  BY DEF Goto, IInv, TypeOK

LEMMA LeaveEffect ==
  ASSUME IInv, NEW c \in Clients, Leave(c)
  PROVE  /\ pc'[c] = "idle"
         /\ \A d \in Clients \ {c} : pc'[d] = pc[d] /\ loc'[d] = loc[d] /\ req'[d] = req[d]
  BY DEF Leave, IInv, TypeOK

LEMMA IndexOwedKept ==
  ASSUME SInv, UNCHANGED <<rows, files, fts, faults>>,
         \A d \in Clients : pc[d] = "index" =>
            pc'[d] = "index" /\ loc'[d].path = loc[d].path /\ loc'[d].target = loc[d].target
  PROVE  IndexOwed'
  <1> SUFFICES ASSUME "mv" \notin Kinds, faults' = 0, NEW p \in Paths
               PROVE  \/ fts'[p] = HeadHash(p)'
                      \/ \E d \in Clients : /\ pc'[d] = "index" /\ p = loc'[d].path
                                            /\ files'[p] = [current |-> loc'[d].target, deleted |-> FALSE]
    BY DEF IndexOwed
  <1>1. HeadVersion(p)' = HeadVersion(p)
    BY DEF HeadVersion
  <1>2. HeadHash(p)' = HeadHash(p)
    BY <1>1 DEF HeadHash, HeadRow
  <1>3. \/ fts[p] = HeadHash(p)
        \/ \E d \in Clients : /\ pc[d] = "index" /\ p = loc[d].path
                              /\ files[p] = [current |-> loc[d].target, deleted |-> FALSE]
    BY DEF SInv, IndexOwed
  <1> QED
    BY <1>2, <1>3

LEMMA WinsKept == ASSUME SInv, wins' = wins PROVE SoloConditionalExact'
  BY DEF SInv, SoloConditionalExact

LEMMA StepKeeps ==
  ASSUME IInv, SInv, NEW c \in Clients, Running(c), StepBy(c), MovesOn(c) \/ ~Running(c)',
         Running(c)' => BaseHolds(c)' /\ RowRecorded(c)' /\ SoloState(c)',
         CleanAgrees', CopyLost', IndexOwed', SoloConditionalExact'
  PROVE  SInv'
  <1>1. PathsApart'
    BY ApartKept
  <1>2. \A d \in Clients : Running(d)' => BaseHolds(d)' /\ RowRecorded(d)' /\ SoloState(d)'
    <2> SUFFICES ASSUME NEW d \in Clients \ {c}, Running(d)' PROVE BaseHolds(d)' /\ RowRecorded(d)' /\ SoloState(d)'
      OBVIOUS
    <2>1. Running(d)
      BY DEF StepBy, Running
    <2> QED
      BY <2>1, OthersKept
  <1> QED
    BY <1>1, <1>2 DEF SInv

LEMMA NothingChanged ==
  ASSUME UNCHANGED <<store, rows, files, fts, stars>>, NEW p
  PROVE  Same(p) /\ Latest(p)' = Latest(p) /\ HeadHash(p)' = HeadHash(p)
  <1>1. HeadVersion(p)' = HeadVersion(p)
    BY DEF HeadVersion
  <1> QED
    BY <1>1 DEF Same, Latest, HeadHash, HeadRow

(* To the next await, without an effect on the store or the database. *)
LEMMA QuietMove ==
  ASSUME IInv, SInv, NEW c \in Clients, Running(c), NEW phase, NEW l, Goto(c, phase, l),
         UNCHANGED <<store, database, faults, history>>,
         phase \notin {"idle", "inspect"}, phase \in {"kind", "star"} => req[c].kind = "star",
         pc[c] # "index", l.path \in Writes(req[c]), l.solo \subseteq loc[c].solo,
         \A p \in Paths : Touched(c, p) => Touched(c, p)',
         \A p \in Paths : Removing(c, p) => Removing(c, p)',
         BaseHolds(c)', RowRecorded(c)', SoloState(c)'
  PROVE  SInv'
  <1>1. /\ pc'[c] = phase /\ loc'[c] = l /\ req' = req
        /\ \A d \in Clients \ {c} : pc'[d] = pc[d] /\ loc'[d] = loc[d] /\ req'[d] = req[d]
    BY GotoEffect
  <1>2. UNCHANGED <<store, rows, files, fts, stars, faults, wins, clean>>
    BY DEF database, history
  <1>3. \A p \in Paths : Same(p) /\ Latest(p)' = Latest(p)
    BY <1>2, NothingChanged
  <1>4. StepBy(c)
    BY <1>1, <1>2, <1>3 DEF StepBy
  <1>5. MovesOn(c)
    BY <1>1 DEF MovesOn, Running
  <1>6. \A p \in Writes(req[c]) : p \in Paths
    BY WritesTyped
  <1>7. CleanAgrees'
    <2>1. \A p \in Writes(req[c]) : clean'[p] => Touched(c, p)' \/ (clean[p] /\ ~Touched(c, p) /\ Same(p))
      BY <1>2, <1>3, <1>6
    <2> QED
      BY <1>4, <2>1, CleanKept
  <1>8. CopyLost'
    <2>1. \A p \in Writes(req[c]) :
            /\ pc'[c] = "inspect" /\ p = req'[c].dst => Latest(p)' # NoContent
            /\ Latest(p)' = NoContent => Latest(p) = NoContent \/ Removing(c, p)'
            /\ clean'[p] => clean[p] \/ p \in loc[c].solo
            /\ Removing(c, p) /\ clean'[p] => Removing(c, p)' \/ p \in loc[c].solo
      BY <1>1, <1>2, <1>3, <1>6
    <2> QED
      BY <1>1, <1>4, <2>1, CopyKept
  <1>9. IndexOwed'
    <2>1. \A d \in Clients : pc[d] = "index" =>
            pc'[d] = "index" /\ loc'[d].path = loc[d].path /\ loc'[d].target = loc[d].target
      BY <1>1
    <2> QED
      BY <1>2, <2>1, IndexOwedKept
  <1>10. SoloConditionalExact'
    BY <1>2, WinsKept
  <1> QED
    BY <1>4, <1>5, <1>7, <1>8, <1>9, <1>10, StepKeeps

(* An operation ends without a further effect. *)
LEMMA QuietLeave ==
  ASSUME IInv, SInv, NEW c \in Clients, Running(c), Leave(c),
         UNCHANGED <<store, rows, files, fts, stars, wins>>,
         IndexOwed', \A p \in Paths \ Writes(req[c]) : clean'[p] = clean[p],
         \A p \in Writes(req[c]) : clean'[p] =>
            /\ clean[p] /\ ~Removing(c, p)
            /\ ~Touched(c, p) \/ \E d \in Clients \ {c} : Touched(d, p)
  PROVE  SInv'
  <1>1. /\ pc'[c] = "idle"
        /\ \A d \in Clients \ {c} : pc'[d] = pc[d] /\ loc'[d] = loc[d] /\ req'[d] = req[d]
    BY LeaveEffect
  <1>2. \A p \in Paths : Same(p) /\ Latest(p)' = Latest(p)
    BY NothingChanged
  <1>3. StepBy(c)
    BY <1>1, <1>2 DEF StepBy
  <1>4. \A p \in Writes(req[c]) : p \in Paths
    BY WritesTyped
  <1>5. CleanAgrees'
    <2>1. \A p \in Writes(req[c]) : clean'[p] =>
            \/ clean[p] /\ ~Touched(c, p) /\ Same(p)
            \/ clean[p] /\ \E d \in Clients \ {c} : Touched(d, p)
      BY <1>2, <1>4
    <2> QED
      BY <1>3, <2>1, CleanKept
  <1>6. CopyLost'
    <2>1. \A p \in Writes(req[c]) :
            /\ pc'[c] = "inspect" /\ p = req'[c].dst => Latest(p)' # NoContent
            /\ Latest(p)' = NoContent => Latest(p) = NoContent \/ Removing(c, p)'
            /\ clean'[p] => clean[p] \/ p \in loc[c].solo
            /\ Removing(c, p) /\ clean'[p] => Removing(c, p)' \/ p \in loc[c].solo
      BY <1>1, <1>2, <1>4
    <2> QED
      BY <1>1, <1>3, <2>1, CopyKept
  <1>7. SoloConditionalExact'
    BY WinsKept
  <1> QED
    BY <1>1, <1>3, <1>5, <1>6, <1>7, StepKeeps DEF Running
-----------------------------------------------------------------------------
(* The steps that touch neither the store nor the database. *)

LEMMA DedupedSolo ==
  ASSUME IInv, SInv, NEW c \in Clients, Deduped(c) PROVE SInv'
  <1>1. /\ pc[c] = "hash" /\ Running(c) /\ Leave(c)
        /\ UNCHANGED <<store, rows, files, fts, stars, faults, wins, clean>>
    BY DEF Deduped, Running, database
  <1>2. \A p \in Writes(req[c]) : ~Touched(c, p) /\ ~Removing(c, p)
    BY <1>1 DEF Touched, Removing
  <1>3. \A d \in Clients : pc[d] = "index" =>
            pc'[d] = "index" /\ loc'[d].path = loc[d].path /\ loc'[d].target = loc[d].target
    BY <1>1, LeaveEffect
  <1>4. IndexOwed'
    BY <1>1, <1>3, IndexOwedKept
  <1> QED
    BY <1>1, <1>2, <1>4, QuietLeave

(* A removal works on the path it removes. *)
LEMMA RemovingTouches ==
  ASSUME IInv, SInv, NEW d \in Clients, NEW p, Removing(d, p)
  PROVE  Touched(d, p)
  <1>1. Running(d) /\ pc[d] \in {"next", "insert", "index"} /\ p = req[d].path
    BY DEF Removing, Running
  <1>2. loc[d].path = req[d].path
    BY <1>1 DEF Removing, Deleting, SInv, PathsApart, Writes, CheckedPath
  <1> QED
    BY <1>1, <1>2 DEF Touched

LEMMA RejectSolo ==
  ASSUME IInv, SInv, NEW c \in Clients, Reject(c) PROVE SInv'
  <1>1. /\ pc[c] \in {"get", "copy", "kind", "inspect"} /\ Running(c) /\ Leave(c)
        /\ pc[c] = "inspect" => Latest(req[c].dst) = NoContent
        /\ UNCHANGED <<store, rows, files, fts, stars, faults, wins, clean>>
    BY DEF Reject, Running, database, history
  <1>2. \A d \in Clients : pc[d] = "index" =>
            pc'[d] = "index" /\ loc'[d].path = loc[d].path /\ loc'[d].target = loc[d].target
    BY <1>1, LeaveEffect
  <1>3. IndexOwed'
    BY <1>1, <1>2, IndexOwedKept
  <1>4. ASSUME NEW p \in Writes(req[c]), clean[p], Touched(c, p)
        PROVE  \E d \in Clients \ {c} : Touched(d, p)
    <2>1. pc[c] = "inspect" /\ p = req[c].dst
      BY <1>1, <1>4, CallerTypes DEF Touched, PhaseOK
    <2>2. PICK d \in Clients : Removing(d, p)
      BY <1>1, <1>4, <2>1 DEF SInv, CopyLost
    <2>3. d # c
      BY <2>1, <2>2 DEF Removing
    <2> QED
      BY <2>2, <2>3, RemovingTouches
  <1>5. \A p \in Writes(req[c]) : ~Removing(c, p)
    BY <1>1 DEF Removing
  <1> QED
    BY <1>1, <1>3, <1>4, <1>5, QuietLeave

LEMMA KnownOf ==
  ASSUME IInv, SInv, NEW c \in Clients, Running(c)
  PROVE  /\ BaseHolds(c) /\ RowRecorded(c) /\ SoloState(c)
         /\ loc[c].path \in Writes(req[c]) /\ loc[c].solo \subseteq Writes(req[c])
         /\ req[c].kind \in Kinds /\ (pc[c] \in {"kind", "star"} => req[c].kind = "star")
  BY DEF SInv, PathsApart

LEMMA NotDedupedSolo ==
  ASSUME IInv, SInv, NEW c \in Clients, NotDeduped(c) PROVE SInv'
  <1>1. /\ pc[c] = "hash" /\ Running(c) /\ Goto(c, "put", loc[c])
        /\ UNCHANGED <<store, database, faults, history>>
    BY DEF NotDeduped, Running
  <1>2. pc'[c] = "put" /\ loc'[c] = loc[c] /\ req'[c] = req[c] /\ files' = files
    BY <1>1, GotoEffect DEF database
  <1>3. BaseHolds(c)' /\ RowRecorded(c)' /\ SoloState(c)'
    BY <1>1, <1>2, KnownOf DEF BaseHolds, RowRecorded, SoloState, Committed
  <1>4. \A p \in Paths : ~Touched(c, p) /\ ~Removing(c, p)
    BY <1>1 DEF Touched, Removing
  <1> QED
    BY <1>1, <1>3, <1>4, KnownOf, QuietMove

LEMMA GetObjectSolo ==
  ASSUME IInv, SInv, NEW c \in Clients, GetObject(c) PROVE SInv'
  <1> DEFINE l == [loc[c] EXCEPT !.body = NewBody(req[c])]
  <1>1. /\ pc[c] = "get" /\ Running(c) /\ Goto(c, "put", l)
        /\ UNCHANGED <<store, database, faults, history>>
    BY DEF GetObject, Running
  <1>2. l.path = loc[c].path /\ l.base = loc[c].base /\ l.solo = loc[c].solo
    BY <1>1, CallerTypes DEF Locals, Running
  <1> HIDE DEF l
  <1>3. pc'[c] = "put" /\ loc'[c] = l /\ req'[c] = req[c] /\ files' = files
    BY <1>1, GotoEffect DEF database
  <1>4. BaseHolds(c)' /\ RowRecorded(c)' /\ SoloState(c)'
    BY <1>1, <1>2, <1>3, KnownOf DEF BaseHolds, RowRecorded, SoloState, Committed
  <1>5. \A p \in Paths : ~Touched(c, p) /\ ~Removing(c, p)
    BY <1>1 DEF Touched, Removing
  <1> QED
    BY <1>1, <1>2, <1>4, <1>5, KnownOf, QuietMove

LEMMA ResolvePathKindSolo ==
  ASSUME IInv, SInv, NEW c \in Clients, ResolvePathKind(c) PROVE SInv'
  <1>1. /\ pc[c] = "kind" /\ Running(c) /\ Goto(c, "star", loc[c])
        /\ Latest(req[c].path) # NoContent
        /\ UNCHANGED <<store, database, faults, history>>
    BY DEF ResolvePathKind, Running
  <1>2. pc'[c] = "star" /\ loc'[c] = loc[c] /\ req'[c] = req[c] /\ files' = files
    BY <1>1, GotoEffect DEF database
  <1>3. req[c].kind = "star" /\ \A p \in loc[c].solo : p = req[c].path
    BY <1>1, KnownOf DEF Writes, CheckedPath
  <1>4. \A p \in loc[c].solo : Latest(p)' # NoContent
    BY <1>1, <1>3, NothingChanged DEF database
  <1>5. SoloState(c)'
    BY <1>2, <1>4 DEF SoloState, Committed
  <1>6. BaseHolds(c)' /\ RowRecorded(c)'
    BY <1>1, <1>2, KnownOf DEF BaseHolds, RowRecorded, Committed
  <1>7. \A p \in Paths : ~Touched(c, p) /\ ~Removing(c, p)
    BY <1>1 DEF Touched, Removing
  <1> QED
    BY <1>1, <1>3, <1>5, <1>6, <1>7, KnownOf, QuietMove

LEMMA InspectCopySolo ==
  ASSUME IInv, SInv, NEW c \in Clients, InspectCopy(c) PROVE SInv'
  <1>0. PICK pdf \in {"no", "yes"} : Goto(c, "next", Inspected(c, pdf))
    BY DEF InspectCopy
  <1> DEFINE l == Inspected(c, pdf)
  <1>1. /\ pc[c] = "inspect" /\ Running(c) /\ Goto(c, "next", l)
        /\ UNCHANGED <<store, database, faults, history>>
    BY <1>0 DEF InspectCopy, Running
  <1>2. /\ l.path = loc[c].path /\ l.base = loc[c].base /\ l.solo \subseteq loc[c].solo
        /\ l.body = Latest(req[c].dst) /\ l.text = MovedText(c, pdf)
        /\ req[c].dst \in l.solo => TextIsSound(c, pdf)
    BY <1>1, CallerTypes DEF Locals, Running, Inspected
  <1> HIDE DEF l
  <1>3. pc'[c] = "next" /\ loc'[c] = l /\ req'[c] = req[c] /\ files' = files
    BY <1>1, GotoEffect DEF database
  <1>4. /\ req[c].kind \in {"mv", "cp"} /\ loc[c].path = req[c].dst
        /\ req[c].kind = "mv" => req[c].path # req[c].dst
    BY <1>1, CallerTypes DEF PhaseOK
  <1>5. ~Deleting(c)' /\ ~Committed(c)'
    BY <1>2, <1>3, <1>4 DEF Deleting, Committed
  <1>6. \A p : Latest(p)' = Latest(p)
    BY <1>1, NothingChanged DEF database
  <1>7. SoloState(c)'
    <2>1. ASSUME req[c].kind = "mv", req[c].dst \in l.solo, pdf = "yes"
          PROVE  fts[req[c].path] = Latest(req[c].dst)
      <3>1. req[c].path \in loc[c].solo /\ clean[req[c].path] /\ req[c].path \in Paths
        BY <1>1, <1>2, <2>1, CallerTypes DEF TextIsSound
      <3>2. ~Touched(c, req[c].path)
        BY <1>1, <1>4, <2>1 DEF Touched
      <3>3. ASSUME NEW d \in Clients \ {c}, Touched(d, req[c].path) PROVE FALSE
        BY <1>1, <3>1, <3>3, TouchedDeclared DEF SInv, PathsApart
      <3>4. Agrees(req[c].path)
        BY <3>1, <3>2, <3>3 DEF SInv, CleanAgrees
      <3>5. Latest(req[c].dst) = Latest(req[c].path)
        BY <1>1, <1>2, <2>1, <3>1, KnownOf DEF SoloState
      <3> QED
        BY <3>4, <3>5 DEF Agrees
    <2>2. req[c].kind = "mv" /\ req[c].dst \in l.solo => l.text = l.body
      BY <1>2, <2>1 DEF MovedText
    <2> QED
      BY <1>2, <1>3, <1>4, <1>5, <1>6, <2>2 DEF SoloState
  <1>8. BaseHolds(c)' /\ RowRecorded(c)'
    BY <1>1, <1>2, <1>3, <1>5, KnownOf DEF BaseHolds, RowRecorded
  <1>9. \A p \in Paths : (Touched(c, p) => Touched(c, p)') /\ ~Removing(c, p)
    BY <1>1, <1>2, <1>3 DEF Touched, Removing
  <1> QED
    BY <1>1, <1>2, <1>7, <1>8, <1>9, KnownOf, QuietMove

LEMMA NextVersionSolo ==
  ASSUME IInv, SInv, NEW c \in Clients, NextVersion(c) PROVE SInv'
  <1> DEFINE l == [loc[c] EXCEPT !.version = getNextVersion(loc[c].path)]
  <1>1. /\ pc[c] = "next" /\ Running(c) /\ Goto(c, "insert", l)
        /\ UNCHANGED <<store, database, faults, history>>
    BY DEF NextVersion, Running
  <1>2. /\ l.path = loc[c].path /\ l.base = loc[c].base /\ l.solo = loc[c].solo
        /\ l.body = loc[c].body /\ l.target = loc[c].target /\ l.text = loc[c].text
        /\ l.version = files[loc[c].path].current + 1
    BY <1>1, CallerTypes, HeadVersionIsCurrent DEF Locals, Running, getNextVersion, IInv
  <1> HIDE DEF l
  <1>3. pc'[c] = "insert" /\ loc'[c] = l /\ req'[c] = req[c] /\ files' = files /\ rows' = rows
    BY <1>1, GotoEffect DEF database
  <1>4. /\ Deleting(c)' <=> Deleting(c)
        /\ Committed(c)' <=> Committed(c)
        /\ IndexedPath(c)' = IndexedPath(c)
    BY <1>1, <1>2, <1>3 DEF Deleting, Committed, IndexedPath
  <1>5. \A p : Latest(p)' = Latest(p)
    BY <1>1, NothingChanged DEF database
  <1>6. SoloState(c)'
    BY <1>1, <1>2, <1>3, <1>4, <1>5, KnownOf DEF SoloState
  <1>7. BaseHolds(c)'
    BY <1>1, <1>2, <1>3, KnownOf DEF BaseHolds
  <1>8. RowRecorded(c)'
    BY <1>1, <1>2, <1>3, <1>4, KnownOf DEF RowRecorded
  <1>9. \A p \in Paths : (Touched(c, p) => Touched(c, p)') /\ (Removing(c, p) => Removing(c, p)')
    BY <1>1, <1>2, <1>3, <1>4 DEF Touched, Removing
  <1> QED
    BY <1>1, <1>2, <1>6, <1>7, <1>8, <1>9, KnownOf, QuietMove
-----------------------------------------------------------------------------
(* The steps with an effect on the object store. *)

LEMMA LatestAppended ==
  ASSUME IInv, NEW q \in Paths, NEW x \in Content \cup {NoContent},
         store' = [store EXCEPT ![q] = Append(@, x)], UNCHANGED database
  PROVE  /\ Latest(q)' = x
         /\ \A p \in Paths \ {q} : Same(p) /\ Latest(p)' = Latest(p)
         /\ \A p \in Paths : HeadHash(p)' = HeadHash(p)
  <1>1. /\ Len(store[q]) \in Nat /\ Len(store'[q]) = Len(store[q]) + 1
        /\ store'[q][Len(store[q]) + 1] = x
    BY StoreAppend DEF IInv
  <1>2. store'[q] # << >>
    <2>1. Len(store'[q]) # 0
      BY <1>1
    <2> QED
      BY <2>1
  <1>3. Latest(q)' = x
    BY <1>1, <1>2 DEF Latest
  <1>4. \A p \in Paths \ {q} : store'[p] = store[p]
    BY DEF IInv, TypeOK
  <1>5. \A p \in Paths \ {q} : Same(p)
    BY <1>4 DEF Same, database
  <1>6. ASSUME NEW p \in Paths PROVE HeadHash(p)' = HeadHash(p)
    <2>1. HeadVersion(p)' = HeadVersion(p)
      BY DEF HeadVersion, database
    <2> QED
      BY <2>1 DEF HeadHash, HeadRow, database
  <1> QED
    BY <1>3, <1>5, <1>6, SameState

LEMMA StoreMove ==
  ASSUME IInv, SInv, NEW c \in Clients, Running(c), NEW phase, NEW l, Goto(c, phase, l),
         NEW q \in Writes(req[c]), NEW x \in Content \cup {NoContent},
         store' = [store EXCEPT ![q] = Append(@, x)],
         UNCHANGED <<database, faults, history>>,
         phase \notin {"idle", "kind", "star"}, phase = "inspect" => q = req[c].dst /\ x # NoContent,
         pc[c] # "index", l.path \in Writes(req[c]), l.solo = loc[c].solo,
         Touched(c, q)', x = NoContent => Removing(c, q)',
         \A p \in Paths : Touched(c, p) => Touched(c, p)',
         \A p \in Paths : Removing(c, p) => Removing(c, p)',
         BaseHolds(c)', RowRecorded(c)', SoloState(c)'
  PROVE  SInv'
  <1>1. /\ pc'[c] = phase /\ loc'[c] = l /\ req' = req
        /\ \A d \in Clients \ {c} : pc'[d] = pc[d] /\ loc'[d] = loc[d] /\ req'[d] = req[d]
    BY GotoEffect
  <1>2. UNCHANGED <<rows, files, fts, stars, faults, wins, clean>>
    BY DEF database, history
  <1>3. q \in Paths /\ \A p \in Writes(req[c]) : p \in Paths
    BY WritesTyped
  <1>4. Latest(q)' = x /\ \A p \in Paths \ {q} : Same(p) /\ Latest(p)' = Latest(p)
    BY <1>3, LatestAppended
  <1>5. StepBy(c)
    BY <1>1, <1>2, <1>4 DEF StepBy
  <1>6. MovesOn(c)
    BY <1>1 DEF MovesOn, Running
  <1>7. CleanAgrees'
    <2>1. \A p \in Writes(req[c]) : clean'[p] => Touched(c, p)' \/ (clean[p] /\ ~Touched(c, p) /\ Same(p))
      BY <1>2, <1>3, <1>4
    <2> QED
      BY <1>5, <2>1, CleanKept
  <1>8. CopyLost'
    <2>1. \A p \in Writes(req[c]) :
            /\ pc'[c] = "inspect" /\ p = req'[c].dst => Latest(p)' # NoContent
            /\ Latest(p)' = NoContent => Latest(p) = NoContent \/ Removing(c, p)'
            /\ clean'[p] => clean[p] \/ p \in loc[c].solo
            /\ Removing(c, p) /\ clean'[p] => Removing(c, p)' \/ p \in loc[c].solo
      BY <1>1, <1>2, <1>3, <1>4
    <2>2. pc'[c] = "inspect" => req'[c].dst \in Writes(req[c])
      BY <1>1
    <2> QED
      BY <1>5, <2>1, <2>2, CopyKept
  <1>9. IndexOwed'
    <2>1. \A d \in Clients : pc[d] = "index" =>
            pc'[d] = "index" /\ loc'[d].path = loc[d].path /\ loc'[d].target = loc[d].target
      BY <1>1
    <2> QED
      BY <1>2, <2>1, IndexOwedKept
  <1>10. SoloConditionalExact'
    BY <1>2, WinsKept
  <1> QED
    BY <1>5, <1>6, <1>7, <1>8, <1>9, <1>10, StepKeeps

LEMMA PutObjectSolo ==
  ASSUME IInv, SInv, NEW c \in Clients, PutObject(c) PROVE SInv'
  <1>b. PICK q, x : q = req[c].path /\ x = loc[c].body
    OBVIOUS
  <1> DEFINE l == [loc[c] EXCEPT !.handle = NewHandle(req[c].path)]
  <1>1. /\ pc[c] = "put" /\ Running(c) /\ Goto(c, "next", l)
        /\ store' = [store EXCEPT ![q] = Append(@, x)]
        /\ UNCHANGED <<database, faults, history>>
    BY <1>b DEF PutObject, Running
  <1>2. /\ l.path = loc[c].path /\ l.base = loc[c].base /\ l.solo = loc[c].solo /\ l.body = x
    BY <1>b, <1>1, CallerTypes DEF Locals, Running
  <1>3. /\ req[c].kind \in {"write", "edit", "append", "revert"} /\ loc[c].path = q
        /\ x \in Content /\ q \in Paths
    BY <1>b, <1>1, CallerTypes DEF PhaseOK
  <1> HIDE DEF l
  <1>4. pc'[c] = "next" /\ loc'[c] = l /\ req'[c] = req[c] /\ files' = files
    BY <1>1, GotoEffect DEF database
  <1>5. ~Deleting(c)' /\ ~Committed(c)'
    BY <1>3, <1>4 DEF Deleting, Committed
  <1>6. Latest(q)' = x
    BY <1>1, <1>3, LatestAppended
  <1>7. SoloState(c)'
    BY <1>2, <1>3, <1>4, <1>5, <1>6 DEF SoloState
  <1>8. BaseHolds(c)' /\ RowRecorded(c)'
    BY <1>1, <1>2, <1>4, <1>5, KnownOf DEF BaseHolds, RowRecorded
  <1>9. Touched(c, q)' /\ \A p \in Paths : ~Touched(c, p) /\ ~Removing(c, p)
    BY <1>1, <1>2, <1>3, <1>4 DEF Touched, Removing
  <1>10. q \in Writes(req[c]) /\ x # NoContent /\ l.path \in Writes(req[c])
    BY <1>1, <1>2, <1>3, KnownOf, NoContentAssumption
  <1> QED
    <2>1. PICK phase, y : phase = "next" /\ y = x
      OBVIOUS
    <2>2. /\ phase \notin {"idle", "kind", "star"} /\ phase # "inspect" /\ pc[c] # "index"
          /\ y \in Content \cup {NoContent} /\ y # NoContent
          /\ Goto(c, phase, l) /\ store' = [store EXCEPT ![q] = Append(@, y)]
      BY <1>1, <1>3, <1>10, <2>1
    <2> QED
      BY <1>1, <1>2, <1>7, <1>8, <1>9, <1>10, <2>2, StoreMove

LEMMA CopyObjectSolo ==
  ASSUME IInv, SInv, NEW c \in Clients, CopyObject(c) PROVE SInv'
  <1>a. PICK q, x : q = req[c].dst /\ x = Latest(req[c].path)
    OBVIOUS
  <1> DEFINE l == [loc[c] EXCEPT !.path = req[c].dst, !.handle = NewHandle(req[c].dst)]
  <1>1. /\ pc[c] = "copy" /\ Running(c) /\ Goto(c, "inspect", l) /\ x # NoContent
        /\ store' = [store EXCEPT ![q] = Append(@, x)]
        /\ UNCHANGED <<database, faults, history>>
    BY <1>a DEF CopyObject, Running
  <1>2. l.path = q /\ l.base = loc[c].base /\ l.solo = loc[c].solo
    BY <1>a, <1>1, CallerTypes DEF Locals, Running
  <1>3. /\ req[c].kind \in {"mv", "cp"} /\ q \in Paths /\ x \in Content \cup {NoContent}
        /\ q \in Writes(req[c])
        /\ req[c].kind = "mv" => req[c].path \in Paths \ {q}
    BY <1>a, <1>1, CallerTypes, LatestType DEF PhaseOK, IInv, Writes, CheckedPath
  <1> HIDE DEF l
  <1>4. pc'[c] = "inspect" /\ loc'[c] = l /\ req'[c] = req[c] /\ files' = files
    BY <1>1, GotoEffect DEF database
  <1>5. ~Committed(c)'
    BY <1>4 DEF Committed
  <1>b. Latest(q)' = x /\ \A p \in Paths \ {q} : Latest(p)' = Latest(p)
    BY <1>1, <1>3, LatestAppended
  <1>6. Latest(q)' = x /\ (req[c].kind = "mv" => Latest(req[c].path)' = x)
    BY <1>a, <1>3, <1>4, <1>b DEF Latest
  <1>7. SoloState(c)'
    BY <1>a, <1>1, <1>4, <1>5, <1>6 DEF SoloState
  <1>8. BaseHolds(c)' /\ RowRecorded(c)'
    BY <1>1, <1>2, <1>4, <1>5, KnownOf DEF BaseHolds, RowRecorded
  <1>9. Touched(c, q)' /\ \A p \in Paths : ~Touched(c, p) /\ ~Removing(c, p)
    BY <1>1, <1>2, <1>4 DEF Touched, Removing
  <1> QED
    <2>1. PICK phase : phase = "inspect"
      OBVIOUS
    <2>2. /\ phase \notin {"idle", "kind", "star"} /\ pc[c] # "index"
          /\ x \in Content \cup {NoContent} /\ q \in Writes(req[c]) /\ l.path \in Writes(req[c])
          /\ q = req[c].dst /\ Goto(c, phase, l) /\ x # NoContent
          /\ store' = [store EXCEPT ![q] = Append(@, x)]
      BY <1>a, <1>1, <1>2, <1>3, <2>1
    <2> QED
      BY <1>1, <1>2, <1>7, <1>8, <1>9, <2>2, StoreMove

LEMMA DeleteObjectSolo ==
  ASSUME IInv, SInv, NEW c \in Clients, DeleteObject(c) PROVE SInv'
  <1>a. PICK q : q = req[c].path
    OBVIOUS
  <1> DEFINE l == [loc[c] EXCEPT !.path = req[c].path, !.handle = 0]
  <1>1. /\ pc[c] = "delete" /\ Running(c) /\ Goto(c, "next", l)
        /\ store' = [store EXCEPT ![q] = Append(@, NoContent)]
        /\ UNCHANGED <<database, faults, history>>
    BY <1>a DEF DeleteObject, Running
  <1>2. /\ l.path = q /\ l.base = loc[c].base /\ l.solo = loc[c].solo
        /\ l.body = loc[c].body /\ l.target = loc[c].target /\ l.text = loc[c].text
    BY <1>a, <1>1, CallerTypes DEF Locals, Running
  <1>3. /\ req[c].kind \in {"rm", "mv"} /\ q \in Paths /\ q \in Writes(req[c]) /\ req[c].dst \in Paths
        /\ req[c].kind = "mv" => q # req[c].dst
    BY <1>a, <1>1, CallerTypes DEF PhaseOK, Writes, CheckedPath
  <1> HIDE DEF l
  <1>4. pc'[c] = "next" /\ loc'[c] = l /\ req'[c] = req[c] /\ files' = files /\ rows' = rows
    BY <1>1, GotoEffect DEF database
  <1>5. /\ Deleting(c)'
        /\ Committed(c)' <=> req[c].kind = "mv"
        /\ Committed(c) <=> req[c].kind = "mv"
        /\ req[c].kind = "mv" => IndexedPath(c)' = req[c].dst /\ IndexedPath(c) = req[c].dst
    BY <1>a, <1>1, <1>2, <1>3, <1>4 DEF Deleting, Committed, IndexedPath
  <1>6. Latest(q)' = NoContent /\ \A p \in Paths \ {q} : Latest(p)' = Latest(p)
    BY <1>1, <1>3, LatestAppended
  <1>7. SoloState(c)'
    <2>1. \A p \in loc[c].solo : req[c].kind = "mv" /\ p = req[c].dst =>
             /\ Latest(p)' = loc[c].body /\ loc[c].text = loc[c].body
             /\ files[p] = [current |-> loc[c].target, deleted |-> FALSE]
      BY <1>1, <1>3, <1>5, <1>6, KnownOf DEF SoloState
    <2> QED
      BY <1>2, <1>4, <1>5, <1>6, <2>1 DEF SoloState
  <1>8. BaseHolds(c)' /\ RowRecorded(c)'
    BY <1>1, <1>2, <1>4, <1>5, KnownOf DEF BaseHolds, RowRecorded
  <1>9. Touched(c, q)' /\ Removing(c, q)'
    BY <1>a, <1>2, <1>4, <1>5 DEF Touched, Removing
  <1>10. \A p \in Paths : (Touched(c, p) => Touched(c, p)') /\ ~Removing(c, p)
    BY <1>1, <1>4 DEF Touched, Removing
  <1> QED
    <2>1. PICK phase, y : phase = "next" /\ y = NoContent
      OBVIOUS
    <2>2. /\ phase \notin {"idle", "kind", "star"} /\ phase # "inspect" /\ pc[c] # "index"
          /\ y \in Content \cup {NoContent} /\ q \in Writes(req[c]) /\ l.path \in Writes(req[c])
          /\ Goto(c, phase, l) /\ store' = [store EXCEPT ![q] = Append(@, y)]
      BY <1>1, <1>2, <1>3, <2>1
    <2> QED
      BY <1>1, <1>2, <1>7, <1>8, <1>9, <1>10, <2>2, StoreMove
-----------------------------------------------------------------------------
(* The commits. *)

(* A conditional operation that has the path to itself commits on top of the *)
(* version it was told to expect.                                            *)
LEMMA WinIsExact ==
  ASSUME IInv, SInv, NEW c \in Clients, pc[c] = "insert", CreateVersion(c)
  PROVE  SoloConditionalExact'
  <1>1. Running(c) /\ RecordWin(c)
    BY DEF CreateVersion, Running
  <1> SUFFICES ASSUME NEW w \in wins', w.solo, w.expected > 0 PROVE w.version = w.expected + 1
    BY DEF SoloConditionalExact
  <1>2. CASE w \in wins
    BY <1>2 DEF SInv, SoloConditionalExact
  <1>3. CASE w \notin wins
    <2>1. /\ loc[c].path = CheckedPath(req[c])
          /\ w = [path |-> loc[c].path, expected |-> req[c].expected, version |-> loc[c].version,
                  solo |-> loc[c].path \in loc[c].solo]
      BY <1>1, <1>3 DEF RecordWin
    <2>2. /\ w.expected = req[c].expected /\ w.version = loc[c].version
          /\ w.solo = (loc[c].path \in loc[c].solo)
      BY <2>1
    <2>3. CheckedPath(req[c]) \in loc[c].solo
      BY <2>1, <2>2
    <2> QED
      BY <1>1, <2>1, <2>2, <2>3, KnownOf DEF BaseHolds
  <1> QED
    BY <1>2, <1>3

LEMMA HeadKept == ASSUME NEW p, rows'[p] = rows[p] PROVE HeadHash(p)' = HeadHash(p)
  <1>1. HeadVersion(p)' = HeadVersion(p)
    BY DEF HeadVersion
  <1> QED
    BY <1>1 DEF HeadHash, HeadRow

LEMMA IndexOwedAt ==
  ASSUME SInv, NEW q \in Paths, faults' = faults,
         \A p \in Paths \ {q} : rows'[p] = rows[p] /\ files'[p] = files[p] /\ fts'[p] = fts[p],
         \A d \in Clients : pc[d] = "index" /\ loc[d].path # q =>
            pc'[d] = "index" /\ loc'[d].path = loc[d].path /\ loc'[d].target = loc[d].target,
         "mv" \notin Kinds /\ faults = 0 =>
            \/ fts'[q] = HeadHash(q)'
            \/ \E d \in Clients : /\ pc'[d] = "index" /\ q = loc'[d].path
                                  /\ files'[q] = [current |-> loc'[d].target, deleted |-> FALSE]
  PROVE  IndexOwed'
  <1> SUFFICES ASSUME "mv" \notin Kinds, faults' = 0, NEW p \in Paths \ {q}
               PROVE  \/ fts'[p] = HeadHash(p)'
                      \/ \E d \in Clients : /\ pc'[d] = "index" /\ p = loc'[d].path
                                            /\ files'[p] = [current |-> loc'[d].target, deleted |-> FALSE]
    BY DEF IndexOwed
  <1>1. rows'[p] = rows[p]
    OBVIOUS
  <1>2. HeadHash(p)' = HeadHash(p)
    BY <1>1, HeadKept
  <1>3. \/ fts[p] = HeadHash(p)
        \/ \E d \in Clients : /\ pc[d] = "index" /\ p = loc[d].path
                              /\ files[p] = [current |-> loc[d].target, deleted |-> FALSE]
    BY DEF SInv, IndexOwed
  <1> QED
    BY <1>2, <1>3

LEMMA StoreKept == ASSUME store' = store, NEW p PROVE Latest(p)' = Latest(p)
  BY DEF Latest

(* What createVersion puts into the row. *)
LEMMA CommitFacts ==
  ASSUME IInv, SInv, NEW c \in Clients, pc[c] = "insert", CreateVersion(c), IInv', NEW q, q = loc[c].path
  PROVE  /\ Running(c) /\ q \in Paths /\ q \in Writes(req[c]) /\ store' = store /\ faults' = faults
         /\ \A p \in Paths : Latest(p)' = Latest(p) /\ rows[p] \subseteq rows'[p]
         /\ \A p \in Paths \ {q} : rows'[p] = rows[p] /\ files'[p] = files[p]
         /\ q \in loc[c].solo => Latest(q) = IF Deleting(c) THEN NoContent ELSE loc[c].body
         /\ Deleting(c) => HeadHash(q)' = NoContent
         /\ ~Deleting(c) =>
               /\ loc[c].body \in Content
               /\ files'[q] = [current |-> loc[c].version, deleted |-> FALSE]
               /\ \E r \in rows'[q] : /\ r.version = loc[c].version /\ r.hash = loc[c].body
                                      /\ r.op # "delete" /\ (req[c].kind = "mv" => r.op = "write")
  <1>1. Running(c) /\ q \in Paths
    BY CallerTypes DEF Running
  <1>2. store' = store /\ faults' = faults
    BY DEF CreateVersion
  <1>3. /\ NewRow(c) \in rows'[q] /\ HeadHash(q)' = NewRow(c).hash
        /\ files'[q] = [current |-> loc[c].version, deleted |-> Deleting(c)]
        /\ \A p \in Paths : rows[p] \subseteq rows'[p]
        /\ \A p \in Paths \ {q} : rows'[p] = rows[p] /\ files'[p] = files[p]
    BY <1>1, CreatedIsHead
  <1>4. Deleting(c) => HeadHash(q)' = NoContent
    BY <1>3 DEF NewRow
  <1>5. ASSUME ~Deleting(c)
        PROVE  /\ loc[c].body \in Content
               /\ files'[q] = [current |-> loc[c].version, deleted |-> FALSE]
               /\ \E r \in rows'[q] : /\ r.version = loc[c].version /\ r.hash = loc[c].body
                                      /\ r.op # "delete" /\ (req[c].kind = "mv" => r.op = "write")
    <2>1. loc[c].body \in Content
      BY <1>5, CallerTypes DEF PhaseOK
    <2>2. Deleting(c) = FALSE
      BY <1>5
    <2>3. /\ NewRow(c).version = loc[c].version /\ NewRow(c).hash = loc[c].body
          /\ NewRow(c).op # "delete" /\ (req[c].kind = "mv" => NewRow(c).op = "write")
      BY <1>5 DEF NewRow, RowOperation
    <2> QED
      BY <1>3, <2>1, <2>2, <2>3
  <1>6. q \in loc[c].solo => Latest(q) = IF Deleting(c) THEN NoContent ELSE loc[c].body
    BY <1>1, KnownOf DEF SoloState
  <1>7. q \in Writes(req[c])
    BY <1>1, KnownOf
  <1> QED
    BY <1>1, <1>2, <1>3, <1>4, <1>5, <1>6, <1>7, StoreKept

LEMMA CommitContentSolo ==
  ASSUME IInv, SInv, NEW c \in Clients, CommitContent(c) PROVE SInv'
  <1> DEFINE l == [loc[c] EXCEPT !.target = loc[c].version]
  <1>1. /\ pc[c] = "insert" /\ CreateVersion(c) /\ Goto(c, "index", l)
        /\ req[c].kind \in {"write", "edit", "append", "revert", "cp"}
        /\ UNCHANGED <<fts, stars, threads, clean>>
    BY DEF CommitContent
  <1>2. IInv'
    BY CommitContentIInv
  <1>a. PICK q : q = loc[c].path
    OBVIOUS
  <1>3. /\ l.path = q /\ l.base = loc[c].base /\ l.solo = loc[c].solo
        /\ l.body = loc[c].body /\ l.target = loc[c].version
    BY <1>a, <1>1, CallerTypes DEF Locals
  <1> HIDE DEF l
  <1>4. /\ pc'[c] = "index" /\ loc'[c] = l /\ req'[c] = req[c]
        /\ \A d \in Clients \ {c} : pc'[d] = pc[d] /\ loc'[d] = loc[d] /\ req'[d] = req[d]
    BY <1>1, GotoEffect
  <1>5. /\ ~Deleting(c) /\ IndexedPath(c)' = q
        /\ \A p \in Writes(req[c]) : p = q
    <2>1. Running(c)
      BY <1>1 DEF Running
    <2> QED
      BY <1>a, <1>1, <1>3, <1>4, <2>1, KnownOf DEF Deleting, IndexedPath, Writes
  <1>6. /\ Running(c) /\ q \in Paths /\ q \in Writes(req[c]) /\ store' = store /\ faults' = faults
        /\ \A p \in Paths : Latest(p)' = Latest(p) /\ rows[p] \subseteq rows'[p]
        /\ \A p \in Paths \ {q} : rows'[p] = rows[p] /\ files'[p] = files[p]
        /\ q \in loc[c].solo => Latest(q) = loc[c].body
        /\ loc[c].body \in Content
        /\ files'[q] = [current |-> loc[c].version, deleted |-> FALSE]
        /\ \E r \in rows'[q] : /\ r.version = loc[c].version /\ r.hash = loc[c].body
                               /\ r.op # "delete" /\ (req[c].kind = "mv" => r.op = "write")
    BY <1>a, <1>1, <1>2, <1>5, CommitFacts
  <1>7. StepBy(c)
    BY <1>1, <1>4, <1>6 DEF StepBy, Same
  <1>8. MovesOn(c)
    BY <1>3, <1>4, <1>6 DEF MovesOn, Running
  <1>9. BaseHolds(c)' /\ RowRecorded(c)'
    BY <1>3, <1>4, <1>5, <1>6, KnownOf DEF BaseHolds, RowRecorded
  <1>10. SoloState(c)'
    BY <1>1, <1>3, <1>4, <1>5, <1>6 DEF SoloState
  <1>11. \A p \in Writes(req[c]) : Touched(c, p)' /\ ~Removing(c, p)
    BY <1>3, <1>4, <1>5 DEF Touched, Removing
  <1>12. CleanAgrees'
    BY <1>6, <1>7, <1>11, CleanKept
  <1>13. CopyLost'
    BY <1>1, <1>4, <1>5, <1>6, <1>7, <1>11, CopyKept
  <1>14. IndexOwed'
    <2>1. \A d \in Clients : pc[d] = "index" /\ loc[d].path # q =>
            pc'[d] = "index" /\ loc'[d].path = loc[d].path /\ loc'[d].target = loc[d].target
      BY <1>1, <1>4
    <2>2. /\ pc'[c] = "index" /\ q = loc'[c].path
          /\ files'[q] = [current |-> loc'[c].target, deleted |-> FALSE]
      BY <1>3, <1>4, <1>6
    <2>3. \A p \in Paths \ {q} : rows'[p] = rows[p] /\ files'[p] = files[p] /\ fts'[p] = fts[p]
      BY <1>1, <1>6
    <2> QED
      BY <1>6, <2>1, <2>2, <2>3, IndexOwedAt
  <1>15. SoloConditionalExact'
    BY <1>1, WinIsExact
  <1> QED
    BY <1>6, <1>7, <1>8, <1>9, <1>10, <1>12, <1>13, <1>14, <1>15, StepKeeps

LEMMA CommitRemovalSolo ==
  ASSUME IInv, SInv, NEW c \in Clients, CommitRemoval(c) PROVE SInv'
  <1>a. PICK q : q = loc[c].path
    OBVIOUS
  <1>1. /\ pc[c] = "insert" /\ CreateVersion(c) /\ Leave(c) /\ req[c].kind = "rm"
        /\ fts' = clearSearchData(req[c].path) /\ stars' = stars \ {req[c].path}
        /\ MarkClean(c, loc[c].solo)
    BY DEF CommitRemoval
  <1>2. IInv'
    BY CommitRemovalIInv
  <1>3. Deleting(c) /\ Running(c)
    BY <1>1 DEF Deleting, Running
  <1>4. q = req[c].path /\ \A p \in Writes(req[c]) : p = q
    BY <1>a, <1>1, <1>3, KnownOf DEF Writes, CheckedPath
  <1>5. /\ q \in Paths /\ q \in Writes(req[c]) /\ store' = store /\ faults' = faults
        /\ \A p \in Paths : Latest(p)' = Latest(p) /\ rows[p] \subseteq rows'[p]
        /\ \A p \in Paths \ {q} : rows'[p] = rows[p] /\ files'[p] = files[p]
        /\ q \in loc[c].solo => Latest(q) = NoContent
        /\ HeadHash(q)' = NoContent
    BY <1>a, <1>1, <1>2, <1>3, CommitFacts
  <1>6. /\ fts'[q] = NoContent /\ \A p \in Paths \ {q} : fts'[p] = fts[p]
        /\ q \notin stars' /\ \A p \in Paths \ {q} : p \in stars' <=> p \in stars
    BY <1>1, <1>4, <1>5 DEF clearSearchData, IInv, TypeOK
  <1>7. /\ clean'[q] <=> q \in loc[c].solo
        /\ \A p \in Paths \ Writes(req[c]) : clean'[p] = clean[p]
    BY <1>1, <1>5 DEF MarkClean
  <1>8. /\ pc'[c] = "idle"
        /\ \A d \in Clients \ {c} : pc'[d] = pc[d] /\ loc'[d] = loc[d] /\ req'[d] = req[d]
    BY <1>1, LeaveEffect
  <1>9. StepBy(c)
    BY <1>5, <1>6, <1>7, <1>8 DEF StepBy, Same
  <1>10. CleanAgrees'
    <2>1. clean'[q] => Agrees(q)'
      BY <1>5, <1>6, <1>7 DEF Agrees
    <2> QED
      BY <1>3, <1>4, <1>9, <2>1, CleanKept
  <1>11. CopyLost'
    BY <1>3, <1>4, <1>5, <1>7, <1>8, <1>9, CopyKept
  <1>12. IndexOwed'
    BY <1>1, <1>5, <1>6, <1>8, IndexOwedAt
  <1>13. SoloConditionalExact'
    BY <1>1, WinIsExact
  <1> QED
    BY <1>3, <1>8, <1>9, <1>10, <1>11, <1>12, <1>13, StepKeeps DEF Running

LEMMA CommitMoveTargetSolo ==
  ASSUME IInv, SInv, NEW c \in Clients, CommitMoveTarget(c) PROVE SInv'
  <1> DEFINE l == [loc[c] EXCEPT !.target = loc[c].version]
  <1>1. /\ pc[c] = "insert" /\ CreateVersion(c) /\ Goto(c, "delete", l)
        /\ req[c].kind = "mv" /\ ~Deleting(c)
        /\ UNCHANGED <<fts, stars, threads, clean>>
    BY DEF CommitMoveTarget
  <1>2. IInv'
    BY CommitMoveTargetIInv
  <1>a. PICK q : q = loc[c].path
    OBVIOUS
  <1>3. /\ l.path = q /\ l.base = loc[c].base /\ l.solo = loc[c].solo
        /\ l.body = loc[c].body /\ l.target = loc[c].version /\ l.text = loc[c].text
    BY <1>a, <1>1, CallerTypes DEF Locals
  <1> HIDE DEF l
  <1>4. /\ pc'[c] = "delete" /\ loc'[c] = l /\ req'[c] = req[c]
        /\ \A d \in Clients \ {c} : pc'[d] = pc[d] /\ loc'[d] = loc[d] /\ req'[d] = req[d]
    BY <1>1, GotoEffect
  <1>5. /\ q = req[c].dst /\ q # req[c].path /\ req[c].path \in Paths /\ "mv" \in Kinds
        /\ Writes(req[c]) = {req[c].path, q} /\ CheckedPath(req[c]) = req[c].path
    <2>1. Running(c)
      BY <1>1 DEF Running
    <2> QED
      BY <1>a, <1>1, <2>1, KnownOf, CallerTypes DEF Deleting, Writes, CheckedPath, Running
  <1>6. /\ Running(c) /\ q \in Paths /\ store' = store /\ faults' = faults
        /\ \A p \in Paths : Latest(p)' = Latest(p) /\ rows[p] \subseteq rows'[p]
        /\ \A p \in Paths \ {q} : rows'[p] = rows[p] /\ files'[p] = files[p]
        /\ q \in loc[c].solo => Latest(q) = loc[c].body
        /\ loc[c].body \in Content
        /\ files'[q] = [current |-> loc[c].version, deleted |-> FALSE]
        /\ \E r \in rows'[q] : /\ r.version = loc[c].version /\ r.hash = loc[c].body
                               /\ r.op # "delete" /\ (req[c].kind = "mv" => r.op = "write")
    BY <1>a, <1>1, <1>2, CommitFacts
  <1>7. StepBy(c) /\ Same(req[c].path)
    BY <1>1, <1>4, <1>5, <1>6 DEF StepBy, Same
  <1>8. MovesOn(c)
    BY <1>3, <1>4, <1>5 DEF MovesOn, Running
  <1>b. IndexedPath(c)' = q
    BY <1>1, <1>4, <1>5 DEF IndexedPath
  <1>9. RowRecorded(c)'
    BY <1>3, <1>4, <1>6, <1>b DEF RowRecorded
  <1>c. BaseHolds(c)'
    BY <1>1, <1>3, <1>4, <1>5, <1>6, KnownOf DEF BaseHolds
  <1>10. SoloState(c)'
    <2>1. req[c].dst = q /\ (q \in loc[c].solo => loc[c].text = loc[c].body)
      BY <1>1, <1>5, <1>6, KnownOf DEF SoloState
    <2>2. /\ pc'[c] = "delete" /\ loc'[c].solo = loc[c].solo /\ req'[c].dst = q
          /\ loc'[c].body = loc[c].body /\ loc'[c].target = loc[c].version
          /\ q \in loc[c].solo => loc'[c].text = loc'[c].body
      BY <1>3, <1>4, <2>1
    <2>3. q \in loc[c].solo => /\ Latest(q)' = loc[c].body
                               /\ files'[q] = [current |-> loc[c].version, deleted |-> FALSE]
      BY <1>6
    <2> QED
      BY <1>b, <2>2, <2>3 DEF SoloState
  <1>11. /\ Touched(c, q)' /\ ~Touched(c, req[c].path)
         /\ \A p \in Writes(req[c]) : ~Removing(c, p)
    BY <1>a, <1>1, <1>4, <1>5 DEF Touched, Removing
  <1>12. CleanAgrees'
    <2>1. \A p \in Writes(req[c]) : clean'[p] => Touched(c, p)' \/ (clean[p] /\ ~Touched(c, p) /\ Same(p))
      BY <1>1, <1>5, <1>7, <1>11
    <2> QED
      BY <1>6, <1>7, <2>1, CleanKept
  <1>13. CopyLost'
    <2>1. \A p \in Writes(req[c]) :
            /\ Latest(p)' = Latest(p) /\ ~Removing(c, p) /\ clean'[p] = clean[p]
      BY <1>1, <1>5, <1>6, <1>11
    <2> QED
      BY <1>4, <1>6, <1>7, <2>1, CopyKept
  <1>14. IndexOwed'
    BY <1>5 DEF IndexOwed
  <1>15. SoloConditionalExact'
    BY <1>1, WinIsExact
  <1> QED
    BY <1>6, <1>7, <1>8, <1>9, <1>c, <1>10, <1>12, <1>13, <1>14, <1>15, StepKeeps

LEMMA CommitMoveSourceSolo ==
  ASSUME IInv, SInv, NEW c \in Clients, CommitMoveSource(c) PROVE SInv'
  <1>1. /\ pc[c] = "insert" /\ CreateVersion(c) /\ Goto(c, "index", loc[c])
        /\ req[c].kind = "mv" /\ Deleting(c) /\ fts' = clearSearchData(req[c].path)
        /\ UNCHANGED <<stars, threads, clean>>
    BY DEF CommitMoveSource
  <1>2. IInv'
    BY CommitMoveSourceIInv
  <1>a. PICK q, t : q = loc[c].path /\ t = req[c].dst
    OBVIOUS
  <1>4. /\ pc'[c] = "index" /\ loc'[c] = loc[c] /\ req'[c] = req[c]
        /\ \A d \in Clients \ {c} : pc'[d] = pc[d] /\ loc'[d] = loc[d] /\ req'[d] = req[d]
    BY <1>1, GotoEffect
  <1>5. /\ q = req[c].path /\ q # t /\ t \in Paths /\ "mv" \in Kinds /\ Writes(req[c]) = {q, t}
    <2>1. Running(c)
      BY <1>1 DEF Running
    <2> QED
      BY <1>a, <1>1, <2>1, KnownOf, CallerTypes DEF Deleting, Writes, Running, PhaseOK
  <1>6. /\ Running(c) /\ q \in Paths /\ store' = store /\ faults' = faults
        /\ \A p \in Paths : Latest(p)' = Latest(p) /\ rows[p] \subseteq rows'[p]
        /\ \A p \in Paths \ {q} : rows'[p] = rows[p] /\ files'[p] = files[p]
        /\ q \in loc[c].solo => Latest(q) = NoContent
        /\ HeadHash(q)' = NoContent
    BY <1>a, <1>1, <1>2, CommitFacts
  <1>7. fts'[q] = NoContent /\ \A p \in Paths \ {q} : fts'[p] = fts[p]
    BY <1>1, <1>5, <1>6 DEF clearSearchData, IInv, TypeOK
  <1>8. StepBy(c)
    BY <1>1, <1>4, <1>5, <1>6, <1>7 DEF StepBy, Same
  <1>9. MovesOn(c)
    BY <1>a, <1>4, <1>5 DEF MovesOn, Running
  <1>10. /\ IndexedPath(c)' = t /\ IndexedPath(c) = t /\ Committed(c) /\ Committed(c)' /\ Deleting(c)'
    BY <1>a, <1>1, <1>4 DEF IndexedPath, Committed, Deleting
  <1>11. RowRecorded(c)'
    BY <1>4, <1>5, <1>6, <1>10, KnownOf DEF RowRecorded
  <1>12. BaseHolds(c)'
    BY <1>4, <1>6, KnownOf DEF BaseHolds
  <1>13. SoloState(c)'
    <2>1. t \in loc[c].solo => /\ Latest(t)' = loc[c].body /\ loc[c].text = loc[c].body
                               /\ files'[t] = [current |-> loc[c].target, deleted |-> FALSE]
      BY <1>a, <1>1, <1>5, <1>6, <1>10, KnownOf DEF SoloState
    <2> QED
      BY <1>a, <1>1, <1>4, <1>5, <1>6, <1>7, <1>10, <2>1 DEF SoloState
  <1>14. /\ Touched(c, q)' /\ Touched(c, t)'
         /\ \A p \in Writes(req[c]) : Removing(c, p) => Removing(c, p)'
    BY <1>a, <1>1, <1>4, <1>10 DEF Touched, Removing
  <1>15. CleanAgrees'
    BY <1>5, <1>6, <1>8, <1>14, CleanKept
  <1>16. CopyLost'
    <2>1. \A p \in Writes(req[c]) :
            /\ Latest(p)' = Latest(p) /\ (Removing(c, p) => Removing(c, p)') /\ clean'[p] = clean[p]
      BY <1>1, <1>5, <1>6, <1>14
    <2> QED
      BY <1>4, <1>6, <1>8, <2>1, CopyKept
  <1>17. IndexOwed'
    BY <1>5 DEF IndexOwed
  <1>18. SoloConditionalExact'
    BY <1>1, WinIsExact
  <1> QED
    BY <1>6, <1>8, <1>9, <1>11, <1>12, <1>13, <1>15, <1>16, <1>17, <1>18, StepKeeps
-----------------------------------------------------------------------------
(* The ends of an operation. *)

(* An operation that fails behind a store effect leaves its paths not clean. *)
LEMMA FailedSolo ==
  ASSUME IInv, SInv, NEW c \in Clients, CommitConflict(c) \/ Abort(c) PROVE SInv'
  <1>1. /\ Running(c) /\ Leave(c) /\ MarkClean(c, {})
        /\ UNCHANGED <<store, rows, files, fts, stars, wins>>
        /\ (faults' = faults /\ pc[c] # "index") \/ faults' # 0
    BY DEF CommitConflict, Abort, Running, database, IInv, TypeOK
  <1>2. \A p \in Paths : IF p \in Writes(req[c]) THEN ~clean'[p] ELSE clean'[p] = clean[p]
    BY <1>1 DEF MarkClean
  <1>3. IndexOwed'
    <2>1. CASE faults' # 0
      BY <2>1 DEF IndexOwed
    <2>2. CASE faults' = faults /\ pc[c] # "index"
      <3>1. \A d \in Clients : pc[d] = "index" =>
              pc'[d] = "index" /\ loc'[d].path = loc[d].path /\ loc'[d].target = loc[d].target
        BY <1>1, <2>2, LeaveEffect
      <3> QED
        BY <1>1, <2>2, <3>1, IndexOwedKept
    <2> QED
      BY <1>1, <2>1, <2>2
  <1>4. \A p \in Writes(req[c]) : ~clean'[p]
    BY <1>1, <1>2, WritesTyped
  <1> QED
    BY <1>1, <1>2, <1>3, <1>4, QuietLeave

(* indexTextForSearch writes the text of the head version, or leaves the row *)
(* to the operation whose version is the head.                               *)
LEMMA IndexTextSolo ==
  ASSUME IInv, SInv, NEW c \in Clients, IndexText(c) PROVE SInv'
  <1>1. /\ pc[c] = "index" /\ Running(c) /\ Leave(c) /\ MarkClean(c, loc[c].solo)
        /\ fts' = (IF StillCurrent(c) THEN [fts EXCEPT ![IndexedPath(c)] = TextToIndex(c)]
                   ELSE IF req[c].kind = "mv" THEN clearSearchData(req[c].path) ELSE fts)
        /\ stars' = (IF req[c].kind = "mv" THEN favoritesAfterMove(req[c].path, req[c].dst) ELSE stars)
        /\ UNCHANGED <<store, rows, files, faults, wins>>
    BY DEF IndexText, Running
  <1>a. PICK q, s, b : q = IndexedPath(c) /\ s = req[c].path /\ b = loc[c].body
    OBVIOUS
  <1>2. /\ q \in Paths /\ s \in Paths /\ q \in Writes(req[c])
        /\ req[c].kind = "mv" => s \in Writes(req[c]) /\ s # q
        /\ req[c].kind # "mv" => loc[c].path = q /\ \A p \in Writes(req[c]) : p = q
        /\ req[c].kind = "mv" => q = req[c].dst /\ \A p \in Writes(req[c]) : p \in {q, s}
    BY <1>a, <1>1, CallerTypes, KnownOf DEF IndexedPath, Writes, CheckedPath, PhaseOK
  <1>3. PICK r \in rows[q] : /\ r.version = loc[c].target /\ r.hash = b /\ b \in Content
                             /\ r.op # "delete"
    BY <1>a, <1>1, KnownOf DEF RowRecorded, Committed
  <1>4. b # NoContent
    BY <1>3, NoContentAssumption
  <1>5. StillCurrent(c) => files[q].current = loc[c].target
    <2>1. files[q].current \in Nat /\ loc[c].target \in Nat
      BY <1>1, <1>2, CallerTypes DEF IInv, TypeOK, Locals
    <2> QED
      BY <1>a, <1>3, <2>1 DEF StillCurrent, readCurrentVersion, Undefined
  <1>6. StillCurrent(c) => HeadHash(q) = b
    BY <1>2, <1>3, <1>5, HeadOf
  <1>7. files[q] = [current |-> loc[c].target, deleted |-> FALSE] => StillCurrent(c)
    BY <1>a DEF StillCurrent, readCurrentVersion
  <1>8. /\ StillCurrent(c) => fts'[q] = TextToIndex(c) /\ \A p \in Paths \ {q} : fts'[p] = fts[p]
        /\ req[c].kind # "mv" /\ ~StillCurrent(c) => fts' = fts
        /\ \A p \in Paths : p \notin Writes(req[c]) => fts'[p] = fts[p]
    BY <1>a, <1>1, <1>2 DEF clearSearchData, IInv, TypeOK
  <1>b. TextToIndex(c) = b \/ (req[c].kind = "mv" /\ q \notin loc[c].solo)
    BY <1>a, <1>1, <1>2, KnownOf DEF TextToIndex, SoloState
  <1>9. /\ req[c].kind # "mv" => stars' = stars
        /\ req[c].kind = "mv" => s \notin stars'
        /\ \A p \in Paths : p \notin Writes(req[c]) => (p \in stars' <=> p \in stars)
    BY <1>a, <1>1, <1>2 DEF favoritesAfterMove
  <1>10. /\ \A p \in Writes(req[c]) : clean'[p] <=> p \in loc[c].solo
         /\ \A p \in Paths \ Writes(req[c]) : clean'[p] = clean[p]
    BY <1>1, WritesTyped DEF MarkClean
  <1>11. /\ pc'[c] = "idle"
         /\ \A d \in Clients \ {c} : pc'[d] = pc[d] /\ loc'[d] = loc[d] /\ req'[d] = req[d]
    BY <1>1, LeaveEffect
  <1>12. \A p \in Paths : Latest(p)' = Latest(p) /\ HeadHash(p)' = HeadHash(p)
    BY <1>1, StoreKept, HeadKept
  <1>13. StepBy(c)
    BY <1>1, <1>8, <1>9, <1>10, <1>11 DEF StepBy, Same
  <1>14. CleanAgrees'
    <2>1. q \in loc[c].solo => Agrees(q)'
      <3> SUFFICES ASSUME q \in loc[c].solo PROVE Agrees(q)'
        OBVIOUS
      <3>1. Latest(q) = b /\ files[q] = [current |-> loc[c].target, deleted |-> FALSE]
        BY <1>a, <1>1, KnownOf DEF SoloState, Committed
      <3> QED
        BY <1>2, <1>4, <1>6, <1>7, <1>8, <1>12, <1>b, <3>1 DEF Agrees
    <2>2. req[c].kind = "mv" /\ s \in loc[c].solo => Agrees(s)'
      <3> SUFFICES ASSUME req[c].kind = "mv", s \in loc[c].solo PROVE Agrees(s)'
        OBVIOUS
      <3>1. Latest(s) = NoContent /\ HeadHash(s) = NoContent /\ fts[s] = NoContent
        BY <1>a, <1>1, KnownOf DEF SoloState
      <3>2. fts'[s] = NoContent
        BY <1>a, <1>1, <1>2, <1>8, <3>1 DEF clearSearchData, IInv, TypeOK
      <3> QED
        BY <1>2, <1>9, <1>12, <3>1, <3>2 DEF Agrees
    <2>3. \A p \in Writes(req[c]) : clean'[p] => Agrees(p)'
      <3> SUFFICES ASSUME NEW p \in Writes(req[c]), clean'[p] PROVE Agrees(p)'
        OBVIOUS
      <3>1. p \in loc[c].solo
        BY <1>10
      <3>2. CASE p = q
        BY <2>1, <3>1, <3>2
      <3>3. CASE req[c].kind = "mv" /\ p = s
        BY <2>2, <3>1, <3>3
      <3> QED
        BY <1>2, <3>2, <3>3
    <2> QED
      BY <1>1, <1>13, <2>3, CleanKept
  <1>15. CopyLost'
    <2>1. \A p \in Writes(req[c]) : Latest(p)' = Latest(p) /\ (clean'[p] => p \in loc[c].solo)
      BY <1>1, <1>10, <1>12, WritesTyped
    <2> QED
      BY <1>1, <1>11, <1>13, <2>1, CopyKept
  <1>16. IndexOwed'
    <2> SUFFICES ASSUME "mv" \notin Kinds PROVE IndexOwed'
      BY DEF IndexOwed
    <2>1. req[c].kind # "mv" /\ loc[c].path = q
      BY <1>1, <1>2, KnownOf
    <2>2. \A p \in Paths \ {q} : rows'[p] = rows[p] /\ files'[p] = files[p] /\ fts'[p] = fts[p]
      BY <1>1, <1>2, <1>8, <2>1
    <2>3. \A d \in Clients : pc[d] = "index" /\ loc[d].path # q =>
            pc'[d] = "index" /\ loc'[d].path = loc[d].path /\ loc'[d].target = loc[d].target
      BY <1>11, <2>1
    <2>4. CASE StillCurrent(c)
      <3>1. fts'[q] = HeadHash(q)'
        BY <1>2, <1>6, <1>8, <1>12, <1>b, <2>1, <2>4
      <3> QED
        BY <1>1, <1>2, <2>2, <2>3, <3>1, IndexOwedAt
    <2>5. CASE ~StillCurrent(c)
      <3>1. \/ "mv" \in Kinds \/ faults # 0 \/ fts[q] = HeadHash(q)
            \/ \E d \in Clients : /\ pc[d] = "index" /\ q = loc[d].path
                                  /\ files[q] = [current |-> loc[d].target, deleted |-> FALSE]
        BY <1>2 DEF SInv, IndexOwed
      <3>2. ASSUME NEW d \in Clients, pc[d] = "index", q = loc[d].path,
                   files[q] = [current |-> loc[d].target, deleted |-> FALSE]
            PROVE  d # c
        BY <1>7, <2>5, <3>2
      <3>3. fts' = fts /\ files' = files
        BY <1>1, <1>8, <2>1, <2>5
      <3>4. "mv" \notin Kinds /\ faults = 0 =>
               \/ fts'[q] = HeadHash(q)'
               \/ \E d \in Clients : /\ pc'[d] = "index" /\ q = loc'[d].path
                                     /\ files'[q] = [current |-> loc'[d].target, deleted |-> FALSE]
        BY <1>2, <1>11, <1>12, <3>1, <3>2, <3>3
      <3> QED
        BY <1>1, <1>2, <2>2, <2>3, <3>4, IndexOwedAt
    <2> QED
      BY <2>4, <2>5
  <1>17. SoloConditionalExact'
    BY <1>1, WinsKept
  <1> QED
    BY <1>1, <1>11, <1>13, <1>14, <1>15, <1>16, <1>17, StepKeeps DEF Running

LEMMA favoriteAddSolo ==
  ASSUME IInv, SInv, NEW c \in Clients, favoriteAdd(c) PROVE SInv'
  <1>a. PICK q : q = req[c].path
    OBVIOUS
  <1>1. /\ pc[c] = "star" /\ Running(c) /\ Leave(c) /\ stars' = stars \cup {q}
        /\ MarkClean(c, IF clean[q] THEN loc[c].solo ELSE {})
        /\ UNCHANGED <<store, rows, files, fts, faults, wins>>
    BY <1>a DEF favoriteAdd, Running
  <1>2. q \in Paths /\ Writes(req[c]) = {q}
    BY <1>a, <1>1, KnownOf, CallerTypes DEF Writes, CheckedPath
  <1>3. /\ clean'[q] => clean[q] /\ q \in loc[c].solo
        /\ \A p \in Paths \ {q} : clean'[p] = clean[p]
    BY <1>1, <1>2 DEF MarkClean
  <1>4. /\ pc'[c] = "idle"
        /\ \A d \in Clients \ {c} : pc'[d] = pc[d] /\ loc'[d] = loc[d] /\ req'[d] = req[d]
    BY <1>1, LeaveEffect
  <1>5. \A p \in Paths : Latest(p)' = Latest(p) /\ HeadHash(p)' = HeadHash(p)
    BY <1>1, StoreKept, HeadKept
  <1>6. StepBy(c)
    BY <1>1, <1>2, <1>3, <1>4 DEF StepBy, Same
  <1>7. clean'[q] => Agrees(q)'
    <2> SUFFICES ASSUME clean[q], q \in loc[c].solo PROVE Agrees(q)'
      BY <1>3
    <2>1. Latest(q) # NoContent
      BY <1>1, KnownOf DEF SoloState
    <2>2. ASSUME NEW d \in Clients PROVE ~Touched(d, q)
      <3>1. CASE d = c
        BY <1>1, <3>1 DEF Touched
      <3>2. CASE d # c
        BY <1>1, <3>2, TouchedDeclared DEF SInv, PathsApart
      <3> QED
        BY <3>1, <3>2
    <2>3. Agrees(q)
      BY <1>2, <2>2 DEF SInv, CleanAgrees
    <2> QED
      BY <1>1, <1>2, <1>5, <2>1, <2>3 DEF Agrees
  <1>8. CleanAgrees'
    BY <1>1, <1>2, <1>6, <1>7, CleanKept
  <1>9. CopyLost'
    <2>1. \A p \in Writes(req[c]) : Latest(p)' = Latest(p) /\ (clean'[p] => p \in loc[c].solo)
      BY <1>2, <1>3, <1>5
    <2> QED
      BY <1>1, <1>4, <1>6, <2>1, CopyKept
  <1>10. IndexOwed'
    <2>1. \A d \in Clients : pc[d] = "index" =>
            pc'[d] = "index" /\ loc'[d].path = loc[d].path /\ loc'[d].target = loc[d].target
      BY <1>1, <1>4
    <2> QED
      BY <1>1, <2>1, IndexOwedKept
  <1>11. SoloConditionalExact'
    BY <1>1, WinsKept
  <1> QED
    BY <1>1, <1>4, <1>6, <1>8, <1>9, <1>10, <1>11, StepKeeps DEF Running
-----------------------------------------------------------------------------
(* A new operation takes its paths away from those that had them alone. *)

LEMMA BeginSolo ==
  ASSUME IInv, SInv, NEW c \in Clients, pc[c] = "idle", NEW r \in Request, Begin(c, r)
  PROVE  SInv'
  <1>1. /\ r.kind \in Kinds \ {"comment"} /\ r.kind \in AllKinds
        /\ UNCHANGED <<store, rows, files, fts, stars, faults, wins, clean>>
        /\ assertExpectedVersion(CheckedPath(r), r.expected)
    BY DEF Begin, Request, database, history
  <1>2. /\ pc'[c] = FirstPhase(r) /\ req'[c] = r /\ loc'[c] = FirstLocals(c, r)
        /\ \A d \in Clients \ {c} :
              /\ pc'[d] = pc[d] /\ req'[d] = req[d]
              /\ loc'[d] = IF pc[d] = "idle" THEN loc[d] ELSE [loc[d] EXCEPT !.solo = @ \ Writes(r)]
    BY DEF Begin, IInv, TypeOK
  <1>3. /\ FirstPhase(r) \in {"hash", "put", "get", "delete", "copy", "kind"}
        /\ FirstPhase(r) = "delete" => r.kind = "rm"
        /\ FirstPhase(r) = "kind" => r.kind = "star"
    BY <1>1 DEF FirstPhase, AllKinds
  <1>4. \A d \in Clients \ {c} : Running(d) =>
            /\ loc'[d].path = loc[d].path /\ loc'[d].body = loc[d].body /\ loc'[d].base = loc[d].base
            /\ loc'[d].version = loc[d].version /\ loc'[d].target = loc[d].target
            /\ loc'[d].solo = loc[d].solo \ Writes(r)
    BY <1>2, CallerTypes DEF Running, Locals
  <1>a. \A d \in Clients \ {c} : Running(d) => loc'[d].text = loc[d].text
    BY <1>2, CallerTypes DEF Running, Locals
  <1>5. /\ loc'[c].path = CheckedPath(r) /\ loc'[c].base = HeadVersion(CheckedPath(r))
        /\ loc'[c].solo = {p \in Writes(r) : \A d \in Clients \ {c} : p \notin Busy(d)}
    BY <1>2 DEF FirstLocals, CheckedVersion
  <1>6. \A d \in Clients \ {c} : Running(d)' <=> Running(d)
    BY <1>2 DEF Running
  <1>7. CheckedPath(r) \in Writes(r) /\ CheckedPath(r) \in Paths
    BY DEF Writes, CheckedPath, Request
  <1>8. \A p \in Paths : Same(p) /\ Latest(p)' = Latest(p) /\ HeadHash(p)' = HeadHash(p)
    BY <1>1, NothingChanged
  <1>9. PathsApart'
    <2>1. /\ req'[c].kind \in Kinds
          /\ pc'[c] \in {"kind", "star"} => req'[c].kind = "star"
          /\ loc'[c].path \in Writes(req'[c]) /\ loc'[c].solo \subseteq Writes(req'[c])
      BY <1>1, <1>2, <1>3, <1>5, <1>7
    <2>2. \A e \in Clients \ {c} : Running(e)' => loc'[c].solo \cap Writes(req'[e]) = {}
      BY <1>2, <1>5, <1>6 DEF Busy, Running
    <2>3. ASSUME NEW d \in Clients \ {c}, Running(d)'
          PROVE  /\ req'[d].kind \in Kinds
                 /\ pc'[d] \in {"kind", "star"} => req'[d].kind = "star"
                 /\ loc'[d].path \in Writes(req'[d]) /\ loc'[d].solo \subseteq Writes(req'[d])
                 /\ \A e \in Clients \ {d} : Running(e)' => loc'[d].solo \cap Writes(req'[e]) = {}
      <3>1. Running(d)
        BY <1>6, <2>3
      <3>2. ASSUME NEW e \in Clients \ {d}, Running(e)' PROVE loc'[d].solo \cap Writes(req'[e]) = {}
        <4>1. CASE e = c
          BY <1>2, <1>4, <3>1, <4>1
        <4>2. CASE e # c
          <5>1. loc[d].solo \cap Writes(req[e]) = {}
            BY <1>6, <3>1, <3>2, <4>2 DEF SInv, PathsApart
          <5> QED
            BY <1>2, <1>4, <3>1, <4>2, <5>1
        <4> QED
          BY <4>1, <4>2
      <3> QED
        BY <1>2, <1>4, <3>1, <3>2, KnownOf
    <2> QED
      BY <2>1, <2>2, <2>3 DEF PathsApart
  <1>10. BaseHolds(c)'
    <2>1. HeadVersion(CheckedPath(r)) = files[CheckedPath(r)].current
      BY <1>7, HeadVersionIsCurrent DEF IInv
    <2>2. r.expected > 0 => r.expected = HeadVersion(CheckedPath(r))
      BY <1>1 DEF assertExpectedVersion, Undefined
    <2> QED
      BY <1>1, <1>2, <1>3, <1>5, <2>1, <2>2 DEF BaseHolds
  <1>11. RowRecorded(c)' /\ SoloState(c)'
    BY <1>2, <1>3 DEF RowRecorded, SoloState, Committed
  <1>12. ASSUME NEW d \in Clients \ {c}, Running(d)
         PROVE  BaseHolds(d)' /\ RowRecorded(d)' /\ SoloState(d)'
    <2>1. /\ Committed(d)' <=> Committed(d)
          /\ Deleting(d)' <=> Deleting(d)
          /\ IndexedPath(d)' = IndexedPath(d)
      BY <1>2, <1>4, <1>12 DEF Committed, Deleting, IndexedPath
    <2>2. loc'[d].solo \subseteq loc[d].solo /\ loc[d].solo \subseteq Paths
      BY <1>4, <1>12, KnownOf, WritesTyped
    <2>a. /\ pc'[d] = pc[d] /\ req'[d] = req[d]
          /\ loc'[d].path = loc[d].path /\ loc'[d].body = loc[d].body /\ loc'[d].target = loc[d].target
          /\ loc'[d].text = loc[d].text
      BY <1>2, <1>4, <1>12, <1>a
    <2>3. BaseHolds(d)'
      BY <1>1, <1>2, <1>4, <1>12, <2>2, KnownOf DEF BaseHolds
    <2>b. RowRecorded(d)
      BY <1>12, KnownOf
    <2>4. RowRecorded(d)'
      BY <1>1, <2>a, <2>b, <2>1 DEF RowRecorded
    <2>5. SoloState(d)'
      <3>1. SoloState(d)
        BY <1>12, KnownOf
      <3>2. \A p \in loc'[d].solo : p \in loc[d].solo /\ Latest(p)' = Latest(p) /\ HeadHash(p)' = HeadHash(p)
        BY <1>8, <2>2
      <3> QED
        BY <1>1, <2>a, <2>1, <3>1, <3>2 DEF SoloState
    <2> QED
      BY <2>3, <2>4, <2>5
  <1>13. \A d \in Clients, p \in Paths : (Touched(d, p) => Touched(d, p)') /\ (Removing(d, p) => Removing(d, p)')
    BY <1>2, <1>4 DEF Touched, Removing, Deleting, Running
  <1>14. CleanAgrees'
    <2> SUFFICES ASSUME NEW p \in Paths, clean'[p] PROVE Agrees(p)' \/ \E d \in Clients : Touched(d, p)'
      BY DEF CleanAgrees
    <2> QED
      BY <1>1, <1>8, <1>13, SameState DEF SInv, CleanAgrees
  <1>15. CopyLost'
    <2> SUFFICES ASSUME NEW d \in Clients, NEW p, pc'[d] = "inspect", p = req'[d].dst,
                        Latest(p)' = NoContent, clean'[p]
                 PROVE  \E e \in Clients : Removing(e, p)'
      BY DEF CopyLost, Latest, Removing, Deleting
    <2>1. d # c
      BY <1>2, <1>3
    <2>2. pc[d] = "inspect" /\ p = req[d].dst
      BY <1>2, <2>1
    <2>3. p \in Paths
      BY <2>2, CallerTypes
    <2> QED
      BY <1>1, <1>8, <1>13, <2>2, <2>3 DEF SInv, CopyLost
  <1>16. IndexOwed'
    <2>1. \A d \in Clients : pc[d] = "index" =>
            pc'[d] = "index" /\ loc'[d].path = loc[d].path /\ loc'[d].target = loc[d].target
      BY <1>2, <1>4 DEF Running
    <2> QED
      BY <1>1, <2>1, IndexOwedKept
  <1>17. SoloConditionalExact'
    BY <1>1, WinsKept
  <1>18. \A d \in Clients : Running(d)' => BaseHolds(d)' /\ RowRecorded(d)' /\ SoloState(d)'
    BY <1>6, <1>10, <1>11, <1>12
  <1> QED
    BY <1>9, <1>14, <1>15, <1>16, <1>17, <1>18 DEF SInv

LEMMA OutsideSolo ==
  ASSUME SInv, UNCHANGED <<store, rows, files, fts, stars, req, pc, loc, faults, wins, clean>>
  PROVE  SInv'
  <1>1. /\ \A c : /\ Running(c)' <=> Running(c)
                  /\ Deleting(c)' <=> Deleting(c)
                  /\ Committed(c)' <=> Committed(c)
                  /\ IndexedPath(c)' = IndexedPath(c)
        /\ \A p : Same(p) /\ Latest(p)' = Latest(p) /\ HeadHash(p)' = HeadHash(p)
    <2>1. \A p : Same(p) /\ Latest(p)' = Latest(p) /\ HeadHash(p)' = HeadHash(p)
      BY NothingChanged
    <2> QED
      BY <2>1 DEF Running, Deleting, Committed, IndexedPath
  <1>2. PathsApart'
    BY <1>1 DEF SInv, PathsApart
  <1>3. \A c \in Clients : Running(c)' => BaseHolds(c)' /\ RowRecorded(c)' /\ SoloState(c)'
    BY <1>1 DEF SInv, BaseHolds, RowRecorded, SoloState
  <1>4. /\ \A c, p : Touched(c, p)' <=> Touched(c, p)
        /\ \A c, p : Removing(c, p)' <=> Removing(c, p)
    BY <1>1 DEF Touched, Removing
  <1>5. CleanAgrees' /\ CopyLost'
    BY <1>1, <1>4, SameState DEF SInv, CleanAgrees, CopyLost, Agrees
  <1>6. IndexOwed'
    BY IndexOwedKept
  <1>7. SoloConditionalExact'
    BY WinsKept
  <1> QED
    BY <1>2, <1>3, <1>5, <1>6, <1>7 DEF SInv
-----------------------------------------------------------------------------
(* The invariant. *)

LEMMA InitSolo == Init => SInv
  <1> SUFFICES ASSUME Init PROVE SInv
    OBVIOUS
  <1>1. PICK seeded \in SUBSET Paths, x \in Chunks :
          /\ store = [p \in Paths |-> IF p \in seeded THEN << <<x>> >> ELSE << >>]
          /\ rows = [p \in Paths |->
                       IF p \in seeded
                       THEN {[version |-> 1, op |-> "write",
                              handle |-> IF Versioning THEN 1 ELSE 0,
                              hash |-> <<x>>, copied |-> FALSE]}
                       ELSE {}]
          /\ files = [p \in Paths |->
                        IF p \in seeded THEN [current |-> 1, deleted |-> FALSE]
                        ELSE [current |-> 0, deleted |-> TRUE]]
          /\ fts = [p \in Paths |-> IF p \in seeded THEN <<x>> ELSE NoContent]
          /\ stars = {} /\ pc = [c \in Clients |-> "idle"] /\ wins = {}
    BY DEF Init
  <1>2. IInv
    BY InitIInv
  <1>3. \A c \in Clients : ~Running(c)
    BY <1>1 DEF Running
  <1>4. ASSUME NEW p \in Paths PROVE Agrees(p)
    <2>1. CASE p \in seeded
      <3> DEFINE h == [version |-> 1, op |-> "write", handle |-> IF Versioning THEN 1 ELSE 0,
                       hash |-> <<x>>, copied |-> FALSE]
      <3>1. h \in rows[p] /\ files[p].current = 1 /\ fts[p] = <<x>> /\ store[p] = << <<x>> >>
        BY <1>1, <2>1
      <3>2. h.version = files[p].current /\ h.hash = <<x>>
        BY <3>1
      <3> HIDE DEF h
      <3>3. HeadHash(p) = <<x>>
        BY <1>2, <3>1, <3>2, HeadOf
      <3>4. Latest(p) = <<x>>
        <4>1. Len(<< <<x>> >>) = 1 /\ << <<x>> >>[1] = <<x>> /\ << <<x>> >> # << >>
          OBVIOUS
        <4> QED
          BY <3>1, <4>1 DEF Latest
      <3> QED
        BY <1>1, <3>1, <3>3, <3>4 DEF Agrees
    <2>2. CASE p \notin seeded
      BY <1>1, <2>2 DEF Agrees, Latest, HeadHash
    <2> QED
      BY <2>1, <2>2
  <1>5. CleanAgrees
    BY <1>4 DEF CleanAgrees
  <1>6. IndexOwed
    BY <1>4 DEF IndexOwed, Agrees
  <1>7. CopyLost
    BY <1>1 DEF CopyLost
  <1>8. PathsApart /\ SoloConditionalExact
    BY <1>1, <1>3 DEF PathsApart, SoloConditionalExact
  <1> QED
    BY <1>3, <1>5, <1>6, <1>7, <1>8 DEF SInv

LEMMA StepSolo == ASSUME IInv, SInv, [Next]_vars PROVE SInv'
  <1>1. ASSUME NEW c \in Clients, BeginSome(c) PROVE SInv'
    <2>1. PICK r \in Request : Begin(c, r)
      BY <1>1, BegunRequest
    <2>2. pc[c] = "idle"
      BY <1>1 DEF BeginSome
    <2> QED
      BY <2>1, <2>2, BeginSolo
  <1>2. ASSUME NEW p \in Paths, commentAdd(p) PROVE SInv'
    BY <1>2, OutsideSolo DEF commentAdd, history
  <1>3. ASSUME NEW c \in Clients, Step(c) PROVE SInv'
    BY <1>3, DedupedSolo, NotDedupedSolo, GetObjectSolo, PutObjectSolo, CopyObjectSolo,
       InspectCopySolo, DeleteObjectSolo, RejectSolo, NextVersionSolo, CommitContentSolo,
       CommitRemovalSolo, CommitMoveTargetSolo, CommitMoveSourceSolo, FailedSolo,
       IndexTextSolo, ResolvePathKindSolo, favoriteAddSolo DEF Step
  <1>4. ASSUME NEW c \in Clients, Abort(c) PROVE SInv'
    BY <1>4, FailedSolo
  <1>5. CASE UNCHANGED vars
    BY <1>5, OutsideSolo DEF vars
  <1> QED
    BY <1>1, <1>2, <1>3, <1>4, <1>5 DEF Next

(* What is known of lone operations and of the search index holds in every   *)
(* reachable state.                                                          *)
THEOREM SoloInvariant == Spec => [](IInv /\ SInv)
  <1>1. Init => IInv /\ SInv
    BY InitIInv, InitSolo
  <1>2. (IInv /\ SInv) /\ [Next]_vars => (IInv /\ SInv)'
    BY StepIInv, StepSolo
  <1> QED
    BY <1>1, <1>2, PTL DEF Spec

(* Nobody has begun to work on a path nobody is writing. *)
LEMMA QuietUntouched ==
  ASSUME IInv, SInv, NEW p, Quiet(p), NEW c \in Clients
  PROVE  ~Touched(c, p) /\ ~(pc[c] = "index" /\ p = loc[c].path)
  <1>1. Running(c) => p \notin Writes(req[c])
    BY DEF Quiet, Busy, Running
  <1> QED
    BY <1>1, TouchedDeclared, KnownOf DEF Running

(* An operation that has its path to itself leaves the object store, the     *)
(* version rows, the search index and the favorites of the path in           *)
(* agreement, whatever conflicts and aborted operations left there before.   *)
THEOREM LoneOperationReconciles == Spec => []SoloCommitReconciles
  <1>1. IInv /\ SInv => SoloCommitReconciles
    <2> SUFFICES ASSUME IInv, SInv, NEW p \in Paths, clean[p], Quiet(p) PROVE Agrees(p)
      BY DEF SoloCommitReconciles, Agrees
    <2> QED
      BY QuietUntouched DEF SInv, CleanAgrees
  <1> QED
    BY <1>1, SoloInvariant, PTL

(* Without mv and without aborted operations, the re-check before indexing   *)
(* (indexTextForSearch) keeps the search text at the head version, however   *)
(* the writers overlap.                                                      *)
THEOREM SearchIsCurrent == Spec => []SearchFollowsHead
  <1>1. IInv /\ SInv => SearchFollowsHead
    <2> SUFFICES ASSUME IInv, SInv, "mv" \notin Kinds, faults = 0, NEW p \in Paths, Quiet(p)
                 PROVE  fts[p] = HeadHash(p)
      BY DEF SearchFollowsHead
    <2>1. \A c \in Clients : ~(pc[c] = "index" /\ p = loc[c].path)
      BY QuietUntouched
    <2> QED
      BY <2>1 DEF SInv, IndexOwed
  <1> QED
    BY <1>1, SoloInvariant, PTL

(* expectedVersion (ops/versioning.ts) is exact for an operation that has    *)
(* the path to itself: it commits the version after the one it expected.     *)
THEOREM ConditionIsExact == Spec => []SoloConditionalExact
  <1>1. IInv /\ SInv => SoloConditionalExact
    BY DEF SInv
  <1> QED
    BY <1>1, SoloInvariant, PTL

LEMMA MoveStep ==
  ASSUME IInv, SInv, Next, NEW c \in Clients, pc[c] # "idle", req[c].kind = "mv",
         store'[req[c].path] # store[req[c].path], pc'[c] # pc[c]
  PROVE  \E r \in rows[req[c].dst] :
            r.version = loc[c].target /\ r.hash = loc[c].body /\ r.op = "write"
  <1>1. store' # store
    OBVIOUS
  <1>2. PICK d \in Clients : PutObject(d) \/ CopyObject(d) \/ DeleteObject(d)
    <2>1. ASSUME NEW d \in Clients PROVE ~BeginSome(d) /\ ~Abort(d)
      BY <1>1, BegunRequest DEF Begin, Abort
    <2>2. ASSUME NEW p \in Paths PROVE ~commentAdd(p)
      BY <1>1 DEF commentAdd
    <2>3. ASSUME NEW d \in Clients, Step(d) PROVE PutObject(d) \/ CopyObject(d) \/ DeleteObject(d)
      BY <1>1, <2>3 DEF Step, Deduped, NotDeduped, GetObject, InspectCopy, Reject, NextVersion,
         CommitContent, CommitRemoval, CommitMoveTarget, CommitMoveSource, CommitConflict,
         IndexText, ResolvePathKind, favoriteAdd, CreateVersion
    <2> QED
      BY <2>1, <2>2, <2>3 DEF Next
  <1>3. d = c
    BY <1>2, GotoEffect DEF PutObject, CopyObject, DeleteObject
  <1>4. ~PutObject(c)
    BY CallerTypes DEF PutObject, PhaseOK
  <1>5. ~CopyObject(c)
    <2>1. req[c].path # req[c].dst /\ req[c].path \in Paths
      BY CallerTypes DEF PhaseOK
    <2>2. ASSUME CopyObject(c) PROVE store'[req[c].path] = store[req[c].path]
      <3>1. store' = [store EXCEPT ![req[c].dst] = Append(@, Latest(req[c].path))]
        BY <2>2 DEF CopyObject
      <3>2. DOMAIN store = Paths
        BY DEF IInv, TypeOK
      <3> QED
        BY <2>1, <3>1, <3>2
    <2> QED
      BY <2>2
  <1>6. pc[c] = "delete" /\ Running(c)
    BY <1>2, <1>3, <1>4, <1>5 DEF DeleteObject, Running
  <1> QED
    BY <1>6, KnownOf DEF RowRecorded, Committed, IndexedPath

(* mv takes its source object away only behind the commit of its             *)
(* destination: an error or a crash leaves the file under one of its names.  *)
THEOREM MoveIsSafe == Spec => MoveCommitsBeforeDelete
  <1>1. IInv /\ SInv /\ [Next]_vars =>
          [\A c \in Clients :
             (pc[c] # "idle" /\ req[c].kind = "mv" /\ store'[req[c].path] # store[req[c].path]
                /\ pc'[c] # pc[c])
             => \E r \in rows[req[c].dst] :
                   r.version = loc[c].target /\ r.hash = loc[c].body /\ r.op = "write"]_vars
    BY MoveStep
  <1> QED
    BY <1>1, SoloInvariant, PTL DEF Spec, MoveCommitsBeforeDelete
=============================================================================
