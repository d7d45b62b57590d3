-------------------------- MODULE DriveFiles_proofs --------------------------
(***************************************************************************)
(* For every set of callers, paths and texts, with and without object      *)
(* versioning and however many operations are started or cut short:        *)
(* version numbers stay unique and dense, the files row follows the newest *)
(* version row, and every recorded version can be read back.               *)
(***************************************************************************)
EXTENDS DriveFiles, SequenceTheorems, TLAPS

(* MAX(version) is the version the files row names. *)
LEMMA HeadVersionIsCurrent ==
    ASSUME TypeOK, FilesTrackHead, NEW p \in Paths
    PROVE  /\ HeadVersion(p) = files[p].current
           /\ HeadVersion(p) \in Nat
<1>1. CASE rows[p] = {}
    BY <1>1 DEF HeadVersion, FilesTrackHead
<1>2. CASE rows[p] # {}
    <2>1. PICK r \in rows[p] :
              /\ files[p] = [current |-> r.version, deleted |-> r.op = "delete"]
              /\ \A s \in rows[p] : s.version <= r.version
        BY <1>2 DEF FilesTrackHead
    <2>2. \A s \in rows[p] : s \in Row
        BY DEF TypeOK
    <2>3. r.version \in Nat /\ \A s \in rows[p] : s.version \in Nat
        BY <2>2 DEF Row
    <2>4. r.version \in {s.version : s \in rows[p]}
        OBVIOUS
    <2>5. \A v \in {s.version : s \in rows[p]} :
              (\A s \in rows[p] : s.version <= v) => v = r.version
        BY <2>1, <2>3
    <2>6. (CHOOSE v \in {s.version : s \in rows[p]} : \A s \in rows[p] : s.version <= v)
              = r.version
        BY <2>1, <2>4, <2>5
    <2> QED BY <1>2, <2>1, <2>3, <2>6 DEF HeadVersion
<1> QED BY <1>1, <1>2

(* The store returns an object or nothing. *)
LEMMA LatestType ==
    ASSUME TypeOK, NEW p \in Paths
    PROVE  Latest(p) \in Content \cup {NoContent}
<1> DEFINE s == store[p]
<1>1. s \in Seq(Content \cup {NoContent})
    BY DEF TypeOK
<1>2. s # << >> => Len(s) \in 1 .. Len(s)
    BY <1>1, EmptySeq
<1>3. \A i \in 1 .. Len(s) : s[i] \in Content \cup {NoContent}
    BY <1>1, ElementOfSeq
<1> QED BY <1>2, <1>3 DEF Latest

(* Rows and handles depend on the rows and, monotonically, on the store. *)
StoreGrows ==
    \A p \in Paths : /\ Len(store[p]) <= Len(store'[p])
                     /\ \A i \in 1 .. Len(store[p]) : store'[p][i] = store[p][i]

LEMMA StoreSame == ASSUME TypeOK, store' = store PROVE StoreGrows
<1>1. \A p \in Paths : Len(store[p]) \in Nat
    BY LenProperties DEF TypeOK
<1> QED BY <1>1 DEF StoreGrows

(* One more object version on one path. *)
LEMMA StoreAppend ==
    ASSUME TypeOK, NEW p \in Paths, NEW x \in Content \cup {NoContent},
           store' = [store EXCEPT ![p] = Append(@, x)]
    PROVE  /\ store' \in [Paths -> Seq(Content \cup {NoContent})]
           /\ StoreGrows
           /\ Len(store[p]) \in Nat
           /\ Len(store'[p]) = Len(store[p]) + 1
           /\ store'[p][Len(store[p]) + 1] = x
<1>1. \A q \in Paths : store[q] \in Seq(Content \cup {NoContent}) /\ Len(store[q]) \in Nat
    BY LenProperties DEF TypeOK
<1>2. store'[p] = Append(store[p], x) /\ \A q \in Paths : q # p => store'[q] = store[q]
    BY DEF TypeOK
<1>3. /\ Append(store[p], x) \in Seq(Content \cup {NoContent})
      /\ Len(Append(store[p], x)) = Len(store[p]) + 1
      /\ \A i \in 1 .. Len(store[p]) : Append(store[p], x)[i] = store[p][i]
      /\ Append(store[p], x)[Len(store[p]) + 1] = x
    BY <1>1, AppendProperties
<1>4. store' \in [Paths -> Seq(Content \cup {NoContent})]
    BY <1>1, <1>3 DEF TypeOK
<1>5. StoreGrows
    <2> SUFFICES ASSUME NEW q \in Paths
                 PROVE /\ Len(store[q]) <= Len(store'[q])
                       /\ \A i \in 1 .. Len(store[q]) : store'[q][i] = store[q][i]
        BY DEF StoreGrows
    <2>1. CASE q = p
        BY <2>1, <1>1, <1>2, <1>3
    <2>2. CASE q # p
        BY <2>2, <1>1, <1>2
    <2> QED BY <2>1, <2>2
<1> QED BY <1>1, <1>2, <1>3, <1>4, <1>5

(* A step that adds no version row keeps what is said of the rows. *)
LEMMA RowsFrame ==
    ASSUME IInv, StoreGrows, UNCHANGED <<rows, files>>,
           store' \in [Paths -> Seq(Content \cup {NoContent})]
    PROVE  VersionsDense' /\ FilesTrackHead' /\ HandlesValid'
<1>1. VersionsDense' /\ FilesTrackHead'
    BY DEF IInv, VersionsDense, FilesTrackHead
<1>2. HandlesValid'
    <2> SUFFICES ASSUME NEW p \in Paths, NEW r \in rows[p]
                 PROVE /\ r.handle \in 0 .. Len(store'[p])
                       /\ Versioning /\ r.op # "delete" =>
                            /\ r.handle \in 1 .. Len(store'[p])
                            /\ store'[p][r.handle] # NoContent
                            /\ ~r.copied => store'[p][r.handle] = r.hash
        BY DEF HandlesValid, VersionsRetrievable
    <2>1. Len(store[p]) \in Nat /\ Len(store'[p]) \in Nat
        BY LenProperties DEF IInv, TypeOK
    <2>2. r.handle \in 0 .. Len(store[p])
        BY DEF IInv, HandlesValid
    <2>3. Versioning /\ r.op # "delete" =>
              /\ r.handle \in 1 .. Len(store[p])
              /\ store[p][r.handle] # NoContent
              /\ ~r.copied => store[p][r.handle] = r.hash
        BY DEF IInv, HandlesValid, VersionsRetrievable
    <2> QED BY <2>1, <2>2, <2>3 DEF StoreGrows
<1> QED BY <1>1, <1>2

(* The operations that do not take part in a step stay where they are. *)
LEMMA OthersFrame ==
    ASSUME IInv, StoreGrows, NEW d \in Clients,
           store' \in [Paths -> Seq(Content \cup {NoContent})],
           \A p \in Paths : files'[p].current \in Nat /\ files[p].current <= files'[p].current,
           pc'[d] = pc[d], req'[d] = req[d],
           pc[d] # "idle" => /\ loc'[d].path = loc[d].path
                             /\ loc'[d].body = loc[d].body
                             /\ loc'[d].handle = loc[d].handle
                             /\ loc'[d].version = loc[d].version
    PROVE  PhaseOK(d)'
<1>1. CASE pc[d] = "idle"
    BY <1>1 DEF PhaseOK
<1>2. CASE pc[d] # "idle"
    <2>1. PhaseOK(d) /\ loc[d] \in Locals /\ req[d] \in Request
        BY <1>2 DEF IInv, TypeOK
    <2>2. loc[d].path \in Paths /\ loc[d].handle \in Nat /\ loc[d].version \in Nat
        BY <2>1 DEF Locals
    <2>3. /\ Len(store[loc[d].path]) \in Nat
          /\ Len(store'[loc[d].path]) \in Nat
        BY <2>2, LenProperties DEF IInv, TypeOK
    <2>4. Written(d) => Written(d)'
        BY <1>2, <2>2, <2>3 DEF Written, StoreGrows
    <2>5. Deleting(d)' <=> Deleting(d)
        BY <1>2 DEF Deleting
    <2>6. Versioning /\ Written(d) =>
              store'[loc[d].path][loc[d].handle] = store[loc[d].path][loc[d].handle]
        BY <2>2 DEF Written, StoreGrows
    <2>7. files[loc[d].path].current \in Nat
        BY <2>2 DEF IInv, TypeOK
    <2>8. pc[d] = "insert" => loc[d].version \in 1 .. files'[loc[d].path].current + 1
        BY <2>1, <2>2, <2>7 DEF PhaseOK
    <2> QED BY <1>2, <2>1, <2>4, <2>5, <2>6, <2>8 DEF PhaseOK
<1> QED BY <1>1, <1>2
-----------------------------------------------------------------------------
(* What the variables a step does not compute from its caller contribute. *)
DataTypes ==
    /\ store' \in [Paths -> Seq(Content \cup {NoContent})]
    /\ rows' \in [Paths -> SUBSET Row]
    /\ files' \in [Paths -> [current : Nat, deleted : BOOLEAN]]
    /\ fts' \in [Paths -> Content \cup {NoContent}]
    /\ stars' \subseteq Paths
    /\ threads' \subseteq Paths
    /\ faults' \in Nat
    /\ clean' \in [Paths -> BOOLEAN]

CurrentGrows ==
    \A p \in Paths : files'[p].current \in Nat /\ files[p].current <= files'[p].current

LEMMA FilesSame == ASSUME TypeOK, files' = files PROVE CurrentGrows
<1>1. \A p \in Paths : files[p].current \in Nat
    BY DEF TypeOK
<1> QED BY <1>1 DEF CurrentGrows

(* An operation moves on to its next await. *)
LEMMA GotoFrame ==
    ASSUME IInv, NEW c \in Clients, pc[c] # "idle",
           NEW phase \in Phases \ {"idle"}, NEW l \in Locals, Goto(c, phase, l),
           DataTypes, StoreGrows, CurrentGrows
    PROVE  /\ TypeOK'
           /\ \A d \in Clients \ {c} : PhaseOK(d)'
           /\ pc'[c] = phase /\ loc'[c] = l /\ req'[c] = req[c]
<1>1. /\ pc'[c] = phase /\ loc'[c] = l /\ req' = req /\ started' = started
      /\ \A d \in Clients \ {c} : pc'[d] = pc[d] /\ loc'[d] = loc[d]
    BY DEF Goto, IInv, TypeOK
<1>2. /\ pc' \in [Clients -> Phases]
      /\ loc' \in [Clients -> Locals \cup {NoRequest}]
    BY DEF Goto, IInv, TypeOK
<1>3. \A d \in Clients : pc'[d] # "idle" =>
          /\ req'[d] \in Request
          /\ req'[d].kind \in {"write", "edit", "append"} => req'[d].new \in Chunks
          /\ loc'[d] \in Locals
    BY <1>1 DEF IInv, TypeOK
<1>4. TypeOK'
    BY <1>1, <1>2, <1>3 DEF TypeOK, IInv, DataTypes
<1>5. \A d \in Clients \ {c} : PhaseOK(d)'
    BY <1>1, OthersFrame DEF DataTypes, CurrentGrows
<1> QED BY <1>1, <1>4, <1>5

(* An operation ends, by a result or by an error. *)
LEMMA LeaveFrame ==
    ASSUME IInv, NEW c \in Clients, Leave(c), DataTypes, StoreGrows, CurrentGrows
    PROVE  TypeOK' /\ \A d \in Clients : PhaseOK(d)'
<1>1. /\ pc'[c] = "idle" /\ loc'[c] = NoRequest /\ req'[c] = NoRequest /\ started' = started
      /\ \A d \in Clients \ {c} : pc'[d] = pc[d] /\ loc'[d] = loc[d] /\ req'[d] = req[d]
    BY DEF Leave, IInv, TypeOK
<1>2. /\ pc' \in [Clients -> Phases]
      /\ loc' \in [Clients -> Locals \cup {NoRequest}]
      /\ req' \in [Clients -> Request \cup {NoRequest}]
    BY DEF Leave, IInv, TypeOK, Phases
<1>3. \A d \in Clients : pc'[d] # "idle" =>
          /\ req'[d] \in Request
          /\ req'[d].kind \in {"write", "edit", "append"} => req'[d].new \in Chunks
          /\ loc'[d] \in Locals
    BY <1>1 DEF IInv, TypeOK
<1>4. TypeOK'
    BY <1>1, <1>2, <1>3 DEF TypeOK, IInv, DataTypes
<1>5. \A d \in Clients \ {c} : PhaseOK(d)'
    BY <1>1, OthersFrame DEF DataTypes, CurrentGrows
<1>6. PhaseOK(c)'
    BY <1>1 DEF PhaseOK
<1> QED BY <1>4, <1>5, <1>6

LEMMA MarkCleanType ==
    ASSUME IInv, NEW c \in Clients, NEW alone, MarkClean(c, alone)
    PROVE  clean' \in [Paths -> BOOLEAN]
<1>1. clean \in [Paths -> BOOLEAN]
    BY DEF IInv, TypeOK
<1>2. \A p \in Paths : clean[p] \in BOOLEAN
    BY <1>1
<1>3. ASSUME NEW p \in Paths
      PROVE (IF p \in Writes(req[c]) THEN p \in alone ELSE clean[p]) \in BOOLEAN
    <2>1. (p \in alone) \in BOOLEAN
        OBVIOUS
    <2>2. CASE p \in Writes(req[c])
        BY <2>1, <2>2, Zenon
    <2>3. CASE p \notin Writes(req[c])
        BY <1>2, <2>3, Zenon
    <2> QED BY <2>2, <2>3
<1> QED BY <1>3, Zenon DEF MarkClean

(* Steps that end an operation and change neither the store nor a row. *)
LEMMA QuietEnd ==
    ASSUME IInv, NEW c \in Clients, Leave(c), UNCHANGED <<store, rows, files>>,
           fts' \in [Paths -> Content \cup {NoContent}], stars' \subseteq Paths,
           threads' \subseteq Paths, faults' \in Nat, clean' \in [Paths -> BOOLEAN]
    PROVE  IInv'
<1>1. TypeOK
    BY DEF IInv
<1>2. StoreGrows /\ CurrentGrows
    BY <1>1, StoreSame, FilesSame
<1>3. DataTypes
    BY <1>1 DEF DataTypes, TypeOK
<1>4. TypeOK' /\ \A d \in Clients : PhaseOK(d)'
    BY <1>2, <1>3, LeaveFrame
<1>5. VersionsDense' /\ FilesTrackHead' /\ HandlesValid'
    BY <1>2, <1>3, RowsFrame DEF DataTypes
<1> QED BY <1>4, <1>5 DEF IInv

(* Steps to the next await that change neither the store nor the database. *)
LEMMA QuietGoto ==
    ASSUME IInv, NEW c \in Clients, pc[c] # "idle",
           NEW phase \in Phases \ {"idle"}, NEW l \in Locals, Goto(c, phase, l),
           UNCHANGED <<store, database, faults, history>>,
           pc'[c] = phase /\ loc'[c] = l /\ req'[c] = req[c] => PhaseOK(c)'
    PROVE  IInv'
<1>1. TypeOK
    BY DEF IInv
<1>2. StoreGrows /\ CurrentGrows
    BY <1>1, StoreSame, FilesSame DEF database
<1>3. DataTypes
    BY <1>1 DEF DataTypes, TypeOK, database, history
<1>4. /\ TypeOK' /\ \A d \in Clients \ {c} : PhaseOK(d)'
      /\ pc'[c] = phase /\ loc'[c] = l /\ req'[c] = req[c]
    BY <1>2, <1>3, GotoFrame
<1>5. VersionsDense' /\ FilesTrackHead' /\ HandlesValid'
    BY <1>2, <1>3, RowsFrame DEF DataTypes, database
<1> QED BY <1>4, <1>5 DEF IInv
-----------------------------------------------------------------------------
(* The initial states. *)
LEMMA InitIInv == Init => IInv
<1> SUFFICES ASSUME Init PROVE IInv
    OBVIOUS
<1>1. PICK seeded \in SUBSET Paths, x \in Chunks : 
        /\ store = [p \in Paths |-> IF p \in seeded THEN << <<x>> >> ELSE << >>]
        /\ rows = [p \in Paths |->
                     IF p \in seeded
                     THEN {[version |-> 1, op |-> "write",
                            handle |-> IF Versioning THEN 1 ELSE 0,
                            hash |-> <<x>>, copied |-> FALSE]}
                     ELSE {}]
        /\ files = [p \in Paths |->
                      IF p \in seeded THEN [current |-> 1, deleted |-> FALSE]
                      ELSE [current |-> 0, deleted |-> TRUE]]
        /\ fts = [p \in Paths |-> IF p \in seeded THEN <<x>> ELSE NoContent]
        /\ stars = {} /\ threads = {}
        /\ req = [c \in Clients |-> NoRequest]
        /\ pc = [c \in Clients |-> "idle"]
        /\ loc = [c \in Clients |-> NoRequest]
        /\ started = 0 /\ faults = 0
        /\ clean = [p \in Paths |-> TRUE]
    BY DEF Init
<1>2. <<x>> \in Content /\ << <<x>> >> \in Seq(Content \cup {NoContent})
      /\ << >> \in Seq(Content \cup {NoContent})
    BY DEF Content
<1>3. TypeOK
    <2>1. store \in [Paths -> Seq(Content \cup {NoContent})]
        BY <1>1, <1>2
    <2>2. rows \in [Paths -> SUBSET Row]
        BY <1>1, <1>2 DEF Row, Operations
    <2>3. files \in [Paths -> [current : Nat, deleted : BOOLEAN]]
        BY <1>1
    <2>4. fts \in [Paths -> Content \cup {NoContent}]
        BY <1>1, <1>2
    <2>5. clean \in [Paths -> BOOLEAN]
        BY <1>1, Zenon
    <2>6. /\ pc \in [Clients -> Phases]
          /\ req \in [Clients -> Request \cup {NoRequest}]
          /\ loc \in [Clients -> Locals \cup {NoRequest}]
          /\ \A c \in Clients : pc[c] = "idle"
        BY <1>1 DEF Phases
    <2> QED BY <1>1, <2>1, <2>2, <2>3, <2>4, <2>5, <2>6 DEF TypeOK
<1> DEFINE row == [version |-> 1, op |-> "write", handle |-> IF Versioning THEN 1 ELSE 0,
                   hash |-> <<x>>, copied |-> FALSE]
<1>a. \A p \in Paths : rows[p] = IF p \in seeded THEN {row} ELSE {}
    BY <1>1
<1>b. row.version = 1 /\ row.op = "write"
    OBVIOUS
<1>c. \A p \in Paths : files[p] = IF p \in seeded THEN [current |-> 1, deleted |-> FALSE]
                                 ELSE [current |-> 0, deleted |-> TRUE]
    BY <1>1
<1> HIDE DEF row
<1>4. VersionsDense
    BY <1>a, <1>b DEF VersionsDense
<1>5. FilesTrackHead
    <2> SUFFICES ASSUME NEW p \in Paths, p \in seeded
                 PROVE \E r \in rows[p] :
                          /\ files[p] = [current |-> r.version, deleted |-> r.op = "delete"]
                          /\ \A s \in rows[p] : s.version <= r.version
        BY <1>a, <1>c DEF FilesTrackHead
    <2>1. [current |-> row.version, deleted |-> row.op = "delete"]
              = [current |-> 1, deleted |-> FALSE]
        BY <1>b
    <2>2. row \in rows[p] /\ \A s \in rows[p] : s.version <= row.version
        BY <1>a, <1>b
    <2> QED BY <1>c, <2>1, <2>2
<1>6. HandlesValid
    <2> SUFFICES ASSUME NEW p \in Paths, NEW r \in rows[p]
                 PROVE /\ r.handle \in 0 .. Len(store[p])
                       /\ Versioning /\ r.op # "delete" =>
                            /\ r.handle \in 1 .. Len(store[p])
                            /\ store[p][r.handle] # NoContent
                            /\ ~r.copied => store[p][r.handle] = r.hash
        BY DEF HandlesValid, VersionsRetrievable
    <2>1. p \in seeded /\ store[p] = << <<x>> >>
        BY <1>1
    <2>2. r.handle = (IF Versioning THEN 1 ELSE 0) /\ r.hash = <<x>>
        BY <1>1, <2>1
    <2>3. Len(<< <<x>> >>) = 1 /\ << <<x>> >>[1] = <<x>>
        OBVIOUS
    <2>4. <<x>> # NoContent
        BY <1>2, NoContentAssumption
    <2> QED BY <2>1, <2>2, <2>3, <2>4
<1>7. \A c \in Clients : PhaseOK(c)
    BY <1>1 DEF PhaseOK
<1> QED BY <1>3, <1>4, <1>5, <1>6, <1>7 DEF IInv
-----------------------------------------------------------------------------
(* A started operation has a well-formed request. *)
LEMMA BegunRequest ==
    ASSUME IInv, NEW c \in Clients, BeginSome(c)
    PROVE  \E r \in Request : /\ r.kind \in {"write", "edit", "append"} => r.new \in Chunks
                             /\ Begin(c, r)
<1>1. PICK k \in Kinds, p \in Paths :
          \E q \in IF k \in {"mv", "cp"} THEN Paths ELSE {p},
             x \in IF k \in {"write", "edit", "append"} THEN Chunks ELSE {NoContent},
             y \in IF k = "edit" THEN Chunks ELSE {NoContent},
             v \in IF k = "revert" THEN 0 .. HeadVersion(p) ELSE {0} :
          \E e \in IF k = "star" THEN {Undefined}
                   ELSE {Undefined} \cup 0 .. HeadVersion(IF k = "cp" THEN q ELSE p) :
             Begin(c, [kind |-> k, path |-> p, dst |-> q, new |-> x, old |-> y,
                       expected |-> e, target |-> v])
    BY DEF BeginSome
<1>2. PICK q \in IF k \in {"mv", "cp"} THEN Paths ELSE {p},
           x \in IF k \in {"write", "edit", "append"} THEN Chunks ELSE {NoContent},
           y \in IF k = "edit" THEN Chunks ELSE {NoContent},
           v \in IF k = "revert" THEN 0 .. HeadVersion(p) ELSE {0} :
          \E e \in IF k = "star" THEN {Undefined}
                   ELSE {Undefined} \cup 0 .. HeadVersion(IF k = "cp" THEN q ELSE p) :
             Begin(c, [kind |-> k, path |-> p, dst |-> q, new |-> x, old |-> y,
                       expected |-> e, target |-> v])
    BY <1>1
<1>3. PICK e \in IF k = "star" THEN {Undefined}
                 ELSE {Undefined} \cup 0 .. HeadVersion(IF k = "cp" THEN q ELSE p) :
             Begin(c, [kind |-> k, path |-> p, dst |-> q, new |-> x, old |-> y,
                       expected |-> e, target |-> v])
    BY <1>2
<1>4. q \in Paths /\ x \in Text /\ y \in Text
    BY DEF Text
<1>5. HeadVersion(p) \in Nat /\ HeadVersion(IF k = "cp" THEN q ELSE p) \in Nat
    BY <1>4, HeadVersionIsCurrent DEF IInv
<1>6. v \in Nat /\ e \in Nat \cup {Undefined}
    BY <1>5
<1>7. k \in AllKinds
    BY KindsAssumption
<1>8. [kind |-> k, path |-> p, dst |-> q, new |-> x, old |-> y,
       expected |-> e, target |-> v] \in Request
    BY <1>4, <1>6, <1>7 DEF Request
<1> QED BY <1>3, <1>8

(* Starting an operation touches neither the store nor a row, and takes away *)
(* only "solo" from the operations it overlaps with.                         *)
LEMMA BeginIInv ==
    ASSUME IInv, NEW c \in Clients, BeginSome(c) PROVE IInv'
<1>1. PICK r : /\ r \in Request
               /\ r.kind \in {"write", "edit", "append"} => r.new \in Chunks
               /\ Begin(c, r)
    BY BegunRequest
<1>2. TypeOK /\ FilesTrackHead /\ pc[c] = "idle"
    BY DEF IInv, BeginSome
<1>3. StoreGrows /\ CurrentGrows
    BY <1>1, <1>2, StoreSame, FilesSame DEF Begin, database
<1>4. DataTypes /\ UNCHANGED <<rows, files>>
    BY <1>1, <1>2 DEF DataTypes, TypeOK, Begin, database, history
<1>5. VersionsDense' /\ FilesTrackHead' /\ HandlesValid'
    BY <1>3, <1>4, RowsFrame DEF DataTypes
<1>6. r.path \in Paths /\ r.dst \in Paths /\ r.kind \in AllKinds
    BY <1>1 DEF Request
<1>7. CheckedPath(r) \in Paths /\ Writes(r) \subseteq Paths
    BY <1>6 DEF CheckedPath, Writes
<1>8. FirstLocals(c, r) \in Locals
    <2>1. HeadVersion(CheckedPath(r)) \in Nat
        BY <1>2, <1>7, HeadVersionIsCurrent
    <2>2. r.kind = "write" => <<r.new>> \in Content
        BY <1>1 DEF Content
    <2> QED BY <1>7, <2>1, <2>2 DEF FirstLocals, Locals, CheckedVersion
<1>9. FirstPhase(r) \in {"hash", "put", "get", "delete", "copy", "kind"}
    BY DEF FirstPhase
<1>10. /\ pc'[c] = FirstPhase(r) /\ req'[c] = r /\ loc'[c] = FirstLocals(c, r)
       /\ started' = started + 1
       /\ \A d \in Clients \ {c} :
             /\ pc'[d] = pc[d] /\ req'[d] = req[d]
             /\ loc'[d] = IF pc[d] = "idle" THEN loc[d]
                          ELSE [loc[d] EXCEPT !.solo = @ \ Writes(r)]
    BY <1>1, <1>2 DEF Begin, TypeOK
<1>11. ASSUME NEW d \in Clients \ {c}, pc[d] # "idle"
       PROVE  /\ loc'[d] \in Locals
              /\ loc'[d].path = loc[d].path /\ loc'[d].body = loc[d].body
              /\ loc'[d].handle = loc[d].handle /\ loc'[d].version = loc[d].version
    <2>1. loc[d] \in Locals
        BY <1>2, <1>11 DEF TypeOK
    <2>2. loc'[d] = [loc[d] EXCEPT !.solo = loc[d].solo \ Writes(r)]
        BY <1>10, <1>11
    <2> QED BY <2>1, <2>2 DEF Locals
<1>12. TypeOK'
    <2>1. pc' \in [Clients -> Phases]
        BY <1>1, <1>2, <1>9 DEF Begin, TypeOK, Phases
    <2>2. req' \in [Clients -> Request \cup {NoRequest}]
        BY <1>1, <1>2 DEF Begin, TypeOK
    <2>3. loc' \in [Clients -> Locals \cup {NoRequest}]
        <3>1. \A d \in Clients : loc'[d] \in Locals \cup {NoRequest}
            BY <1>2, <1>8, <1>10, <1>11 DEF TypeOK
        <3>2. loc' = [d \in Clients |-> loc'[d]]
            BY <1>1 DEF Begin
        <3> QED BY <3>1, <3>2
    <2>4. \A d \in Clients : pc'[d] # "idle" =>
              /\ req'[d] \in Request
              /\ req'[d].kind \in {"write", "edit", "append"} => req'[d].new \in Chunks
              /\ loc'[d] \in Locals
        BY <1>1, <1>2, <1>8, <1>10, <1>11 DEF TypeOK
    <2>5. started' \in Nat
        BY <1>2, <1>10 DEF TypeOK
    <2> QED BY <1>4, <2>1, <2>2, <2>3, <2>4, <2>5 DEF TypeOK, DataTypes
<1>13. \A d \in Clients \ {c} : PhaseOK(d)'
    BY <1>3, <1>4, <1>10, <1>11, OthersFrame DEF DataTypes, CurrentGrows
<1>14. PhaseOK(c)'
    <2>1. /\ r.kind \in {"mv", "cp"} => r.path # r.dst
          /\ r.kind = "revert" => Versioning
        BY <1>1 DEF Begin
    <2>2. r.kind # "cp" => FirstLocals(c, r).path = r.path
        BY DEF FirstLocals, CheckedPath
    <2>3. r.kind = "write" => FirstLocals(c, r).body \in Content
        BY <1>1 DEF FirstLocals, Content
    <2>4. /\ FirstPhase(r) = "hash" => r.kind = "write"
          /\ FirstPhase(r) = "put" => r.kind = "write"
          /\ FirstPhase(r) = "get" => r.kind \in {"edit", "append", "revert"}
          /\ FirstPhase(r) = "copy" => r.kind \in {"mv", "cp"}
          /\ FirstPhase(r) = "delete" => r.kind = "rm"
        BY <1>6 DEF FirstPhase, AllKinds
    <2> QED BY <1>9, <1>10, <2>1, <2>2, <2>3, <2>4 DEF PhaseOK
<1> QED BY <1>5, <1>12, <1>13, <1>14 DEF IInv
-----------------------------------------------------------------------------
(* What an operation holds at any await. *)
LEMMA CallerTypes ==
    ASSUME IInv, NEW c \in Clients, pc[c] # "idle"
    PROVE  /\ loc[c] \in Locals /\ req[c] \in Request
           /\ loc[c].path \in Paths /\ loc[c].body \in Content \cup {NoContent}
           /\ loc[c].handle \in Nat /\ loc[c].version \in Nat
           /\ req[c].path \in Paths /\ req[c].dst \in Paths /\ req[c].kind \in AllKinds
           /\ PhaseOK(c)
<1>1. loc[c] \in Locals /\ req[c] \in Request /\ PhaseOK(c)
    BY DEF IInv, TypeOK
<1> QED BY <1>1 DEF Locals, Request

(* Edit, append and revert compute a content from what they read. *)
LEMMA NewBodyType ==
    ASSUME IInv, NEW c \in Clients, pc[c] = "get", Readable(req[c])
    PROVE  NewBody(req[c]) \in Content
<1> DEFINE r == req[c]
<1>1. /\ r.path \in Paths
      /\ r.kind \in {"edit", "append", "revert"}
      /\ r.kind \in {"edit", "append"} => r.new \in Chunks
      /\ r.kind = "revert" => Versioning
    BY CallerTypes DEF IInv, TypeOK, PhaseOK
<1>2. Latest(r.path) \in Content \cup {NoContent}
    BY <1>1, LatestType DEF IInv
<1>3. CASE r.kind = "append"
    <2>1. Latest(r.path) \in Seq(Chunks)
        BY <1>2, <1>3 DEF Readable, Content
    <2>2. Append(Latest(r.path), r.new) \in Seq(Chunks)
        BY <1>1, <1>3, <2>1, AppendProperties
    <2> QED BY <1>3, <2>2 DEF NewBody, Content
<1>4. CASE r.kind = "edit"
    <2> DEFINE s == Latest(r.path)
    <2>1. s \in Seq(Chunks)
        BY <1>2, <1>4 DEF Readable, Content
    <2>2. Len(s) \in Nat /\ DOMAIN s = 1 .. Len(s) /\ \A i \in 1 .. Len(s) : s[i] \in Chunks
        BY <2>1, LenProperties, ElementOfSeq
    <2> HIDE DEF s
    <2>3. EditResult(s, r.old, r.new) \in [1 .. Len(s) -> Chunks]
        BY <1>1, <1>4, <2>2 DEF EditResult
    <2>4. EditResult(s, r.old, r.new) \in Seq(Chunks)
        BY <2>2, <2>3
    <2> QED BY <1>4, <2>4 DEF NewBody, Content, s
<1>5. CASE r.kind = "revert"
    <2>1. \E row \in rows[r.path] : row.version = r.target /\ row.handle # 0
        BY <1>5 DEF Readable, Revertible
    <2>2. RevertRow(r.path, r.target) \in rows[r.path]
        BY <2>1 DEF RevertRow
    <2>3. RevertRow(r.path, r.target).version = r.target
        BY <2>1 DEF RevertRow
    <2>4. RevertRow(r.path, r.target).handle # 0
        BY <1>1, <2>1, <2>2, <2>3 DEF IInv, VersionsDense
    <2>5. RevertRow(r.path, r.target).handle \in 0 .. Len(store[r.path])
        BY <1>1, <2>2 DEF IInv, HandlesValid
    <2>6. store[r.path] \in Seq(Content \cup {NoContent})
        BY <1>1 DEF IInv, TypeOK
    <2>7. RevertRow(r.path, r.target).handle \in 1 .. Len(store[r.path])
        BY <2>4, <2>5, <2>6, LenProperties
    <2>8. store[r.path][RevertRow(r.path, r.target).handle] \in Content \cup {NoContent}
        BY <2>6, <2>7, ElementOfSeq
    <2>9. store[r.path][RevertRow(r.path, r.target).handle] # NoContent
        BY <1>5 DEF Readable
    <2> QED BY <1>5, <2>8, <2>9 DEF NewBody
<1> QED BY <1>1, <1>3, <1>4, <1>5

LEMMA GetObjectIInv ==
    ASSUME IInv, NEW c \in Clients, GetObject(c) PROVE IInv'
<1> DEFINE l == [loc[c] EXCEPT !.body = NewBody(req[c])]
<1>1. pc[c] = "get" /\ Goto(c, "put", l) /\ UNCHANGED <<store, database, faults, history>>
    BY DEF GetObject
<1>2. NewBody(req[c]) \in Content
    BY NewBodyType DEF GetObject
<1>3. l \in Locals /\ l.body = NewBody(req[c]) /\ l.path = loc[c].path
    BY <1>1, <1>2, CallerTypes DEF Locals
<1> HIDE DEF l
<1>4. PhaseOK(c)
    BY DEF IInv
<1>5. pc'[c] = "put" /\ loc'[c] = l /\ req'[c] = req[c] => PhaseOK(c)'
    BY <1>1, <1>2, <1>3, <1>4 DEF PhaseOK
<1>6. "put" \in Phases \ {"idle"}
    BY DEF Phases
<1> QED BY <1>1, <1>3, <1>5, <1>6, QuietGoto

LEMMA NotDedupedIInv ==
    ASSUME IInv, NEW c \in Clients, NotDeduped(c) PROVE IInv'
<1>1. /\ pc[c] = "hash" /\ Goto(c, "put", loc[c])
      /\ UNCHANGED <<store, database, faults, history>>
    BY DEF NotDeduped
<1>2. loc[c] \in Locals /\ PhaseOK(c)
    BY <1>1, CallerTypes
<1>3. pc'[c] = "put" /\ loc'[c] = loc[c] /\ req'[c] = req[c] => PhaseOK(c)'
    BY <1>1, <1>2 DEF PhaseOK
<1>4. "put" \in Phases \ {"idle"}
    BY DEF Phases
<1> QED BY <1>1, <1>2, <1>3, <1>4, QuietGoto

LEMMA InspectCopyIInv ==
    ASSUME IInv, NEW c \in Clients, InspectCopy(c) PROVE IInv'
<1>0. PICK pdf \in {"no", "yes"} : Goto(c, "next", Inspected(c, pdf))
    BY DEF InspectCopy
<1> DEFINE l == Inspected(c, pdf)
<1>1. /\ pc[c] = "inspect" /\ Goto(c, "next", l) /\ Latest(req[c].dst) # NoContent
      /\ UNCHANGED <<store, database, faults, history>>
    BY <1>0 DEF InspectCopy
<1>2. Latest(req[c].dst) \in Content /\ MovedText(c, pdf) \in Content \cup {NoContent}
    BY <1>1, CallerTypes, LatestType DEF IInv, TypeOK, MovedText
<1>3. l \in Locals /\ l.body \in Content /\ l.path = loc[c].path /\ l.handle = loc[c].handle
    BY <1>1, <1>2, CallerTypes DEF Locals, Inspected
<1> HIDE DEF l
<1>4. /\ req[c].kind \in {"mv", "cp"} /\ Written(c)
      /\ loc[c].path = req[c].dst
      /\ req[c].kind = "mv" => req[c].path # req[c].dst
    BY <1>1 DEF IInv, PhaseOK
<1>5. pc'[c] = "next" /\ loc'[c] = l /\ req'[c] = req[c] => PhaseOK(c)'
    BY <1>1, <1>3, <1>4 DEF PhaseOK, Written, Deleting
<1>6. "next" \in Phases \ {"idle"}
    BY DEF Phases
<1> QED BY <1>1, <1>3, <1>5, <1>6, QuietGoto

LEMMA NextVersionIInv ==
    ASSUME IInv, NEW c \in Clients, NextVersion(c) PROVE IInv'
<1> DEFINE l == [loc[c] EXCEPT !.version = getNextVersion(loc[c].path)]
<1>1. pc[c] = "next" /\ Goto(c, "insert", l) /\ UNCHANGED <<store, database, faults, history>>
    BY DEF NextVersion
<1>2. loc[c].path \in Paths /\ loc[c] \in Locals
    BY <1>1, CallerTypes
<1>3. /\ getNextVersion(loc[c].path) = files[loc[c].path].current + 1
      /\ files[loc[c].path].current \in Nat
    BY <1>2, HeadVersionIsCurrent DEF IInv, getNextVersion
<1>4. /\ l \in Locals /\ l.body = loc[c].body /\ l.path = loc[c].path
      /\ l.handle = loc[c].handle /\ l.version = files[loc[c].path].current + 1
    BY <1>2, <1>3 DEF Locals
<1> HIDE DEF l
<1>5. files' = files
    BY <1>1 DEF database
<1>6. PhaseOK(c)
    BY DEF IInv
<1>7. pc'[c] = "insert" /\ loc'[c] = l /\ req'[c] = req[c] => PhaseOK(c)'
    BY <1>1, <1>3, <1>4, <1>5, <1>6 DEF PhaseOK, Written, Deleting
<1>8. "insert" \in Phases \ {"idle"}
    BY DEF Phases
<1> QED BY <1>1, <1>4, <1>7, <1>8, QuietGoto

LEMMA ResolvePathKindIInv ==
    ASSUME IInv, NEW c \in Clients, ResolvePathKind(c) PROVE IInv'
<1>1. /\ pc[c] = "kind" /\ Goto(c, "star", loc[c])
      /\ UNCHANGED <<store, database, faults, history>>
    BY DEF ResolvePathKind
<1>2. loc[c] \in Locals /\ PhaseOK(c)
    BY <1>1, CallerTypes
<1>3. pc'[c] = "star" /\ loc'[c] = loc[c] /\ req'[c] = req[c] => PhaseOK(c)'
    BY <1>1, <1>2 DEF PhaseOK
<1>4. "star" \in Phases \ {"idle"}
    BY DEF Phases
<1> QED BY <1>1, <1>2, <1>3, <1>4, QuietGoto
-----------------------------------------------------------------------------
(* The calls on the object store. *)
LEMMA StoreStep ==
    ASSUME IInv, NEW c \in Clients, pc[c] # "idle",
           NEW p \in Paths, NEW x \in Content \cup {NoContent},
           store' = [store EXCEPT ![p] = Append(@, x)],
           NEW phase \in Phases \ {"idle"}, NEW l \in Locals, Goto(c, phase, l),
           UNCHANGED <<database, faults, history>>,
           pc'[c] = phase /\ loc'[c] = l /\ req'[c] = req[c] => PhaseOK(c)'
    PROVE  IInv'
<1>1. TypeOK
    BY DEF IInv
<1>2. StoreGrows /\ store' \in [Paths -> Seq(Content \cup {NoContent})]
    BY <1>1, StoreAppend
<1>3. CurrentGrows
    BY <1>1, FilesSame DEF database
<1>4. DataTypes
    BY <1>1, <1>2 DEF DataTypes, TypeOK, database, history
<1>5. /\ TypeOK' /\ \A d \in Clients \ {c} : PhaseOK(d)'
      /\ pc'[c] = phase /\ loc'[c] = l /\ req'[c] = req[c]
    BY <1>2, <1>3, <1>4, GotoFrame
<1>6. VersionsDense' /\ FilesTrackHead' /\ HandlesValid'
    BY <1>2, RowsFrame DEF database
<1> QED BY <1>5, <1>6 DEF IInv

LEMMA NewHandleType ==
    ASSUME TypeOK, NEW p \in Paths
    PROVE  NewHandle(p) \in Nat
<1>1. Len(store[p]) \in Nat
    BY LenProperties DEF TypeOK
<1> QED BY <1>1 DEF NewHandle

LEMMA PutObjectIInv ==
    ASSUME IInv, NEW c \in Clients, PutObject(c) PROVE IInv'
<1> DEFINE p == req[c].path
           l == [loc[c] EXCEPT !.handle = NewHandle(p)]
<1>1. /\ pc[c] = "put" /\ Goto(c, "next", l)
      /\ store' = [store EXCEPT ![p] = Append(@, loc[c].body)]
      /\ UNCHANGED <<database, faults, history>>
    BY DEF PutObject
<1>2. /\ p \in Paths /\ loc[c] \in Locals /\ loc[c].body \in Content /\ loc[c].path = p
      /\ req[c].kind \in {"write", "edit", "append", "revert"}
      /\ req[c].kind = "revert" => Versioning
    BY <1>1, CallerTypes DEF PhaseOK
<1>3. TypeOK
    BY DEF IInv
<1>4. /\ Len(store[p]) \in Nat
      /\ Len(store'[p]) = Len(store[p]) + 1
      /\ store'[p][Len(store[p]) + 1] = loc[c].body
    BY <1>1, <1>2, <1>3, StoreAppend
<1>5. /\ l \in Locals /\ l.body = loc[c].body /\ l.path = p
      /\ l.handle = IF Versioning THEN Len(store[p]) + 1 ELSE 0
    BY <1>2, <1>3, NewHandleType DEF Locals, NewHandle
<1> HIDE DEF l, p
<1>6. loc[c].body # NoContent
    BY <1>2, NoContentAssumption
<1>7. pc'[c] = "next" /\ loc'[c] = l /\ req'[c] = req[c] => PhaseOK(c)'
    BY <1>1, <1>2, <1>4, <1>5, <1>6 DEF PhaseOK, Written, Deleting
<1>8. "next" \in Phases \ {"idle"}
    BY DEF Phases
<1> QED BY <1>1, <1>2, <1>5, <1>7, <1>8, StoreStep

LEMMA CopyObjectIInv ==
    ASSUME IInv, NEW c \in Clients, CopyObject(c) PROVE IInv'
<1> DEFINE p == req[c].dst
           x == Latest(req[c].path)
           l == [loc[c] EXCEPT !.path = p, !.handle = NewHandle(p)]
<1>1. /\ pc[c] = "copy" /\ Goto(c, "inspect", l) /\ x # NoContent
      /\ store' = [store EXCEPT ![p] = Append(@, x)]
      /\ UNCHANGED <<database, faults, history>>
    BY DEF CopyObject
<1>2. /\ p \in Paths /\ loc[c] \in Locals /\ req[c].path \in Paths
      /\ req[c].kind \in {"mv", "cp"}
      /\ req[c].kind = "mv" => req[c].path # p
    BY <1>1, CallerTypes DEF PhaseOK
<1>3. TypeOK /\ x \in Content \cup {NoContent}
    BY <1>2, LatestType DEF IInv
<1> HIDE DEF x
<1>4. /\ Len(store[p]) \in Nat
      /\ Len(store'[p]) = Len(store[p]) + 1
      /\ store'[p][Len(store[p]) + 1] = x
    BY <1>1, <1>2, <1>3, StoreAppend
<1>5. /\ l \in Locals /\ l.path = p
      /\ l.handle = IF Versioning THEN Len(store[p]) + 1 ELSE 0
    BY <1>2, <1>3, NewHandleType DEF Locals, NewHandle
<1> HIDE DEF l
<1>6. pc'[c] = "inspect" /\ loc'[c] = l /\ req'[c] = req[c] => PhaseOK(c)'
    BY <1>1, <1>2, <1>4, <1>5 DEF PhaseOK, Written
<1>7. "inspect" \in Phases \ {"idle"}
    BY DEF Phases
<1> QED BY <1>1, <1>2, <1>3, <1>5, <1>6, <1>7, StoreStep

LEMMA DeleteObjectIInv ==
    ASSUME IInv, NEW c \in Clients, DeleteObject(c) PROVE IInv'
<1> DEFINE p == req[c].path
           l == [loc[c] EXCEPT !.path = p, !.handle = 0]
<1>1. /\ pc[c] = "delete" /\ Goto(c, "next", l)
      /\ store' = [store EXCEPT ![p] = Append(@, NoContent)]
      /\ UNCHANGED <<database, faults, history>>
    BY DEF DeleteObject
<1>2. /\ p \in Paths /\ loc[c] \in Locals
      /\ req[c].kind \in {"rm", "mv"}
      /\ req[c].kind = "mv" => p # req[c].dst
    BY <1>1, CallerTypes DEF PhaseOK
<1>3. l \in Locals /\ l.path = p /\ l.handle = 0
    BY <1>2 DEF Locals
<1> HIDE DEF l
<1>4. pc'[c] = "next" /\ loc'[c] = l /\ req'[c] = req[c] => PhaseOK(c)'
    BY <1>1, <1>2, <1>3 DEF PhaseOK, Deleting
<1>5. "next" \in Phases \ {"idle"}
    BY DEF Phases
<1> QED BY <1>1, <1>2, <1>3, <1>4, <1>5, StoreStep
-----------------------------------------------------------------------------
(* createVersion.  The number an operation computed is at most one above the *)
(* head it is inserted on, and numbers are dense: if it is not taken, it is  *)
(* the next one.                                                             *)
LEMMA FreeVersionIsNext ==
    ASSUME IInv, NEW c \in Clients, pc[c] = "insert", ~VersionTaken(c)
    PROVE  /\ loc[c].version = files[loc[c].path].current + 1
           /\ files[loc[c].path].current \in Nat
           /\ \A r \in rows[loc[c].path] : r.version \in 1 .. files[loc[c].path].current
<1> DEFINE p == loc[c].path
           n == files[p].current
<1>1. p \in Paths /\ loc[c].version \in 1 .. n + 1
    BY CallerTypes DEF PhaseOK
<1>2. n \in Nat
    BY <1>1 DEF IInv, TypeOK
<1>3. \A r \in rows[p] : r.version \in Nat /\ r.version >= 1
    BY <1>1 DEF IInv, TypeOK, Row, VersionsDense
<1>4. CASE rows[p] = {}
    BY <1>1, <1>2, <1>4 DEF IInv, FilesTrackHead
<1>5. CASE rows[p] # {}
    <2>a. PICK h \in rows[p] :
              /\ files[p] = [current |-> h.version, deleted |-> h.op = "delete"]
              /\ \A r \in rows[p] : r.version <= h.version
        BY <1>1, <1>5 DEF IInv, FilesTrackHead
    <2>1. h.version = n /\ \A r \in rows[p] : r.version <= h.version
        BY <2>a
    <2>2. \A k \in 1 .. n : \E r \in rows[p] : r.version = k
        BY <1>1, <2>1 DEF IInv, VersionsDense
    <2>3. loc[c].version \notin 1 .. n
        BY <2>2 DEF VersionTaken
    <2> QED BY <1>1, <1>2, <1>3, <2>1, <2>3
<1> QED BY <1>4, <1>5

LEMMA CreateVersionRows ==
    ASSUME IInv, NEW c \in Clients, pc[c] = "insert", CreateVersion(c)
    PROVE  /\ rows' \in [Paths -> SUBSET Row]
           /\ files' \in [Paths -> [current : Nat, deleted : BOOLEAN]]
           /\ CurrentGrows
           /\ VersionsDense' /\ FilesTrackHead' /\ HandlesValid'
<1> DEFINE p == loc[c].path
           n == files[p].current
           new == NewRow(c)
<1>1. /\ ~VersionTaken(c) /\ store' = store
      /\ rows' = [rows EXCEPT ![p] = @ \cup {new}]
      /\ files' = [files EXCEPT ![p] = [current |-> loc[c].version, deleted |-> Deleting(c)]]
    BY DEF CreateVersion
<1>2. /\ loc[c].version = n + 1 /\ n \in Nat
      /\ \A r \in rows[p] : r.version \in 1 .. n
    BY <1>1, FreeVersionIsNext
<1>3. /\ p \in Paths /\ loc[c].body \in Content \cup {NoContent} /\ loc[c].handle \in Nat
      /\ PhaseOK(c)
    BY CallerTypes
<1>4. /\ rows'[p] = rows[p] \cup {new}
      /\ \A q \in Paths : q # p => rows'[q] = rows[q] /\ files'[q] = files[q]
      /\ files'[p] = [current |-> n + 1, deleted |-> Deleting(c)]
    BY <1>1, <1>2, <1>3 DEF IInv, TypeOK
<1>5. /\ new.version = n + 1 /\ new.handle = loc[c].handle
      /\ new.op = RowOperation(c)
      /\ new.hash = (IF Deleting(c) THEN NoContent ELSE loc[c].body)
      /\ new.copied = (req[c].kind \in {"mv", "cp"} /\ ~Deleting(c))
    BY <1>2 DEF NewRow
<1>6. RowOperation(c) \in Operations /\ (RowOperation(c) = "delete" <=> Deleting(c))
    BY DEF RowOperation, Operations
<1>7. new \in Row
    BY <1>2, <1>3, <1>6 DEF NewRow, Row
<1>8. Deleting(c) \in BOOLEAN
    BY DEF Deleting
<1> HIDE DEF new
<1>9. rows' \in [Paths -> SUBSET Row]
    BY <1>1, <1>3, <1>7 DEF IInv, TypeOK
<1>10. files' \in [Paths -> [current : Nat, deleted : BOOLEAN]]
    <2>1. [current |-> loc[c].version, deleted |-> Deleting(c)]
              \in [current : Nat, deleted : BOOLEAN]
        BY <1>2, <1>8
    <2> QED BY <1>1, <2>1 DEF IInv, TypeOK
<1>11. CurrentGrows
    <2>1. \A q \in Paths : files[q].current \in Nat
        BY DEF IInv, TypeOK
    <2> QED BY <1>2, <1>4, <2>1 DEF CurrentGrows
<1>12. VersionsDense'
    <2> SUFFICES ASSUME NEW q \in Paths
                 PROVE /\ \A r, s \in rows'[q] : r.version = s.version => r = s
                       /\ \A r \in rows'[q] : r.version >= 1 /\
                             \A k \in 1 .. r.version : \E s \in rows'[q] : s.version = k
        BY DEF VersionsDense
    <2>1. CASE q # p
        BY <1>4, <2>1 DEF IInv, VersionsDense
    <2>2. CASE q = p
        <3>1. \A r, s \in rows'[q] : r.version = s.version => r = s
            BY <1>2, <1>3, <1>4, <1>5, <2>2 DEF IInv, VersionsDense
        <3>2. \A k \in 1 .. n : \E s \in rows[p] : s.version = k
            <4>1. CASE rows[p] = {}
                BY <1>3, <4>1 DEF IInv, FilesTrackHead
            <4>2. CASE rows[p] # {}
                <5>1. PICK h \in rows[p] :
                          files[p] = [current |-> h.version, deleted |-> h.op = "delete"]
                    BY <1>3, <4>2 DEF IInv, FilesTrackHead
                <5>2. h.version = n
                    BY <5>1
                <5> QED BY <1>3, <5>2 DEF IInv, VersionsDense
            <4> QED BY <4>1, <4>2
        <3>3. \A k \in 1 .. n + 1 : \E s \in rows'[q] : s.version = k
            BY <1>2, <1>4, <1>5, <2>2, <3>2
        <3>4. \A r \in rows'[q] : r.version \in 1 .. n + 1
            BY <1>2, <1>4, <1>5, <2>2
        <3> QED BY <1>2, <3>1, <3>3, <3>4
    <2> QED BY <2>1, <2>2
<1>13. FilesTrackHead'
    <2> SUFFICES ASSUME NEW q \in Paths
                 PROVE IF rows'[q] = {} THEN files'[q] = [current |-> 0, deleted |-> TRUE]
                       ELSE \E r \in rows'[q] :
                              /\ files'[q] = [current |-> r.version, deleted |-> r.op = "delete"]
                              /\ \A s \in rows'[q] : s.version <= r.version
        BY DEF FilesTrackHead
    <2>1. CASE q # p
        BY <1>4, <2>1 DEF IInv, FilesTrackHead
    <2>2. CASE q = p
        <3>1. (new.op = "delete") = Deleting(c)
            BY <1>5, <1>6, <1>8
        <3>2. files'[p] = [current |-> new.version, deleted |-> new.op = "delete"]
            BY <1>4, <1>5, <3>1
        <3>3. new \in rows'[p] /\ \A s \in rows'[p] : s.version <= new.version
            BY <1>2, <1>4, <1>5
        <3> QED BY <2>2, <3>2, <3>3
    <2> QED BY <2>1, <2>2
<1>14. HandlesValid'
    <2> SUFFICES ASSUME NEW q \in Paths, NEW r \in rows'[q]
                 PROVE /\ r.handle \in 0 .. Len(store[q])
                       /\ Versioning /\ r.op # "delete" =>
                            /\ r.handle \in 1 .. Len(store[q])
                            /\ store[q][r.handle] # NoContent
                            /\ ~r.copied => store[q][r.handle] = r.hash
        BY <1>1 DEF HandlesValid, VersionsRetrievable
    <2>1. CASE r \in rows[q]
        BY <2>1 DEF IInv, HandlesValid, VersionsRetrievable
    <2>2. CASE q = p /\ r = new
        <3>1. Len(store[p]) \in Nat
            BY <1>3, LenProperties DEF IInv, TypeOK
        <3>2. CASE Deleting(c)
            BY <1>3, <1>5, <1>6, <2>2, <3>1, <3>2 DEF PhaseOK
        <3>3. CASE ~Deleting(c)
            <4>1. /\ Written(c)
                  /\ Versioning /\ req[c].kind \notin {"mv", "cp"} =>
                        store[p][loc[c].handle] = loc[c].body
                BY <1>3, <3>3 DEF PhaseOK
            <4>2. r.handle = loc[c].handle /\ r.hash = loc[c].body
                BY <1>5, <2>2, <3>3
            <4>3. ~r.copied => req[c].kind \notin {"mv", "cp"}
                BY <1>5, <2>2, <3>3
            <4>4. CASE Versioning
                BY <2>2, <3>1, <4>1, <4>2, <4>3, <4>4 DEF Written
            <4>5. CASE ~Versioning
                BY <2>2, <3>1, <4>1, <4>2, <4>5 DEF Written
            <4> QED BY <4>4, <4>5
        <3> QED BY <3>2, <3>3
    <2> QED BY <1>4, <2>1, <2>2
<1> QED BY <1>9, <1>10, <1>11, <1>12, <1>13, <1>14

LEMMA CommitGoto ==
    ASSUME IInv, NEW c \in Clients, pc[c] = "insert", CreateVersion(c),
           NEW phase \in Phases \ {"idle"}, NEW l \in Locals, Goto(c, phase, l),
           fts' \in [Paths -> Content \cup {NoContent}],
           UNCHANGED <<store, stars, threads, faults, clean>>,
           pc'[c] = phase /\ loc'[c] = l /\ req'[c] = req[c] => PhaseOK(c)'
    PROVE  IInv'
<1>1. /\ rows' \in [Paths -> SUBSET Row]
      /\ files' \in [Paths -> [current : Nat, deleted : BOOLEAN]]
      /\ CurrentGrows
      /\ VersionsDense' /\ FilesTrackHead' /\ HandlesValid'
    BY CreateVersionRows
<1>2. TypeOK
    BY DEF IInv
<1>3. StoreGrows
    BY <1>2, StoreSame
<1>4. DataTypes
    BY <1>1, <1>2 DEF DataTypes, TypeOK
<1>5. /\ TypeOK' /\ \A d \in Clients \ {c} : PhaseOK(d)'
      /\ pc'[c] = phase /\ loc'[c] = l /\ req'[c] = req[c]
    BY <1>1, <1>3, <1>4, GotoFrame
<1> QED BY <1>1, <1>5 DEF IInv

LEMMA CommitContentIInv ==
    ASSUME IInv, NEW c \in Clients, CommitContent(c) PROVE IInv'
<1> DEFINE l == [loc[c] EXCEPT !.target = loc[c].version]
<1>1. pc[c] = "insert" /\ CreateVersion(c) /\ Goto(c, "index", l)
    BY DEF CommitContent
<1>2. loc[c] \in Locals /\ loc[c].version \in Nat /\ PhaseOK(c)
    BY <1>1, CallerTypes
<1>3. l \in Locals
    BY <1>2 DEF Locals
<1> HIDE DEF l
<1>4. /\ fts' \in [Paths -> Content \cup {NoContent}]
      /\ UNCHANGED <<store, stars, threads, faults, clean>>
    BY DEF CommitContent, CreateVersion, clearSearchData, IInv, TypeOK
<1>5. pc'[c] = "index" /\ loc'[c] = l /\ req'[c] = req[c] => PhaseOK(c)'
    BY <1>1, <1>2 DEF PhaseOK, CommitContent
<1>6. "index" \in Phases \ {"idle"}
    BY DEF Phases
<1> QED BY <1>1, <1>3, <1>4, <1>5, <1>6, CommitGoto

LEMMA CommitMoveTargetIInv ==
    ASSUME IInv, NEW c \in Clients, CommitMoveTarget(c) PROVE IInv'
<1> DEFINE l == [loc[c] EXCEPT !.target = loc[c].version]
<1>1. pc[c] = "insert" /\ CreateVersion(c) /\ Goto(c, "delete", l)
    BY DEF CommitMoveTarget
<1>2. loc[c] \in Locals /\ loc[c].version \in Nat /\ PhaseOK(c)
    BY <1>1, CallerTypes
<1>3. l \in Locals
    BY <1>2 DEF Locals
<1> HIDE DEF l
<1>4. /\ fts' \in [Paths -> Content \cup {NoContent}]
      /\ UNCHANGED <<store, stars, threads, faults, clean>>
    BY DEF CommitMoveTarget, CreateVersion, clearSearchData, IInv, TypeOK
<1>5. pc'[c] = "delete" /\ loc'[c] = l /\ req'[c] = req[c] => PhaseOK(c)'
    BY <1>1, <1>2 DEF PhaseOK, CommitMoveTarget
<1>6. "delete" \in Phases \ {"idle"}
    BY DEF Phases
<1> QED BY <1>1, <1>3, <1>4, <1>5, <1>6, CommitGoto

LEMMA CommitMoveSourceIInv ==
    ASSUME IInv, NEW c \in Clients, CommitMoveSource(c) PROVE IInv'
<1> DEFINE l == loc[c]
<1>1. pc[c] = "insert" /\ CreateVersion(c) /\ Goto(c, "index", l)
    BY DEF CommitMoveSource
<1>2. loc[c] \in Locals /\ loc[c].version \in Nat /\ PhaseOK(c)
    BY <1>1, CallerTypes
<1>3. l \in Locals
    BY <1>2 DEF Locals
<1> HIDE DEF l
<1>4. /\ fts' \in [Paths -> Content \cup {NoContent}]
      /\ UNCHANGED <<store, stars, threads, faults, clean>>
    BY DEF CommitMoveSource, CreateVersion, clearSearchData, IInv, TypeOK
<1>5. pc'[c] = "index" /\ loc'[c] = l /\ req'[c] = req[c] => PhaseOK(c)'
    BY <1>1, <1>2 DEF PhaseOK, CommitMoveSource
<1>6. "index" \in Phases \ {"idle"}
    BY DEF Phases
<1> QED BY <1>1, <1>3, <1>4, <1>5, <1>6, CommitGoto

LEMMA CommitRemovalIInv ==
    ASSUME IInv, NEW c \in Clients, CommitRemoval(c) PROVE IInv'
<1>1. /\ pc[c] = "insert" /\ CreateVersion(c) /\ Leave(c)
      /\ MarkClean(c, loc[c].solo)
      /\ fts' = clearSearchData(req[c].path)
      /\ threads' = threads \ {req[c].path} /\ stars' = stars \ {req[c].path}
      /\ store' = store /\ faults' = faults
    BY DEF CommitRemoval, CreateVersion
<1>2. /\ rows' \in [Paths -> SUBSET Row]
      /\ files' \in [Paths -> [current : Nat, deleted : BOOLEAN]]
      /\ CurrentGrows
      /\ VersionsDense' /\ FilesTrackHead' /\ HandlesValid'
    BY <1>1, CreateVersionRows
<1>3. TypeOK
    BY DEF IInv
<1>4. StoreGrows /\ clean' \in [Paths -> BOOLEAN]
    BY <1>1, <1>3, StoreSame, MarkCleanType
<1>5. fts' \in [Paths -> Content \cup {NoContent}]
    BY <1>1, <1>3 DEF clearSearchData, TypeOK
<1>6. DataTypes
    BY <1>1, <1>2, <1>3, <1>4, <1>5 DEF DataTypes, TypeOK
<1>7. TypeOK' /\ \A d \in Clients : PhaseOK(d)'
    BY <1>1, <1>2, <1>4, <1>6, LeaveFrame
<1> QED BY <1>2, <1>7 DEF IInv
-----------------------------------------------------------------------------
(* The steps that end an operation. *)
LEMMA EndIInv ==
    ASSUME IInv, NEW c \in Clients,
           Deduped(c) \/ Reject(c) \/ CommitConflict(c) \/ IndexText(c) \/ favoriteAdd(c)
             \/ Abort(c)
    PROVE  IInv'
<1>1. TypeOK
    BY DEF IInv
<1>2. CASE Deduped(c)
    BY <1>1, <1>2, QuietEnd DEF Deduped, database, TypeOK
<1>3. CASE Reject(c)
    BY <1>1, <1>3, QuietEnd DEF Reject, database, history, TypeOK
<1>4. CASE CommitConflict(c)
    <2>1. clean' \in [Paths -> BOOLEAN]
        BY <1>4, MarkCleanType DEF CommitConflict
    <2> QED BY <1>1, <1>4, <2>1, QuietEnd DEF CommitConflict, database, TypeOK
<1>5. CASE IndexText(c)
    <2>1. clean' \in [Paths -> BOOLEAN]
        BY <1>5, MarkCleanType DEF IndexText
    <2>2. /\ TextToIndex(c) \in Content \cup {NoContent}
          /\ req[c].path \in Paths /\ req[c].dst \in Paths
        BY <1>5, CallerTypes DEF IndexText, TextToIndex, Locals
    <2>3. fts' \in [Paths -> Content \cup {NoContent}]
        BY <1>1, <1>5, <2>2 DEF IndexText, TypeOK, clearSearchData
    <2>4. stars' \subseteq Paths
        BY <1>1, <1>5, <2>2 DEF IndexText, TypeOK, favoritesAfterMove
    <2> QED BY <1>1, <1>5, <2>1, <2>3, <2>4, QuietEnd DEF IndexText, TypeOK
<1>6. CASE favoriteAdd(c)
    <2>1. clean' \in [Paths -> BOOLEAN]
        BY <1>6, MarkCleanType DEF favoriteAdd
    <2>2. req[c].path \in Paths
        BY <1>6, CallerTypes DEF favoriteAdd
    <2> QED BY <1>1, <1>6, <2>1, <2>2, QuietEnd DEF favoriteAdd, TypeOK
<1>7. CASE Abort(c)
    <2>1. clean' \in [Paths -> BOOLEAN]
        BY <1>7, MarkCleanType DEF Abort
    <2>2. faults' \in Nat
        BY <1>1, <1>7 DEF Abort, TypeOK
    <2> QED BY <1>1, <1>7, <2>1, <2>2, QuietEnd DEF Abort, database, TypeOK
<1> QED BY <1>2, <1>3, <1>4, <1>5, <1>6, <1>7

(* Steps no running operation takes part in. *)
LEMMA OutsideIInv ==
    ASSUME IInv, TypeOK', UNCHANGED <<store, rows, files, req, pc, loc>> PROVE IInv'
<1>1. TypeOK
    BY DEF IInv
<1>2. StoreGrows /\ CurrentGrows
    BY <1>1, StoreSame, FilesSame
<1>3. store' \in [Paths -> Seq(Content \cup {NoContent})]
    BY <1>1 DEF TypeOK
<1>4. VersionsDense' /\ FilesTrackHead' /\ HandlesValid'
    BY <1>2, <1>3, RowsFrame
<1>5. \A d \in Clients : PhaseOK(d)'
    BY <1>2, <1>3, OthersFrame DEF CurrentGrows
<1> QED BY <1>4, <1>5 DEF IInv

LEMMA CommentAddIInv ==
    ASSUME IInv, NEW p \in Paths, commentAdd(p) PROVE IInv'
<1>1. TypeOK'
    BY DEF IInv, TypeOK, commentAdd, history
<1>2. UNCHANGED <<store, rows, files, req, pc, loc>>
    BY DEF commentAdd
<1> QED BY <1>1, <1>2, OutsideIInv

LEMMA StutterIInv == ASSUME IInv, UNCHANGED vars PROVE IInv'
<1>1. TypeOK'
    BY DEF IInv, TypeOK, vars
<1> QED BY <1>1, OutsideIInv DEF vars

LEMMA StepIInv == ASSUME IInv, [Next]_vars PROVE IInv'
<1>1. CASE \E c \in Clients : BeginSome(c)
    BY <1>1, BeginIInv
<1>2. CASE \E p \in Paths : commentAdd(p)
    BY <1>2, CommentAddIInv
<1>3. ASSUME NEW c \in Clients, Step(c) PROVE IInv'
    BY <1>3, EndIInv, NotDedupedIInv, GetObjectIInv, PutObjectIInv, CopyObjectIInv,
       InspectCopyIInv, DeleteObjectIInv, NextVersionIInv, CommitContentIInv,
       CommitRemovalIInv, CommitMoveTargetIInv, CommitMoveSourceIInv, ResolvePathKindIInv
       DEF Step
<1>4. CASE \E c \in Clients : Abort(c)
    BY <1>4, EndIInv
<1>5. CASE UNCHANGED vars
    BY <1>5, StutterIInv
<1> QED BY <1>1, <1>2, <1>3, <1>4, <1>5 DEF Next

(* The strengthened invariant holds in every reachable state. *)
THEOREM InductiveInvariant == Spec => []IInv
<1>1. IInv /\ [Next]_vars => IInv'
    BY StepIInv
<1> QED BY InitIInv, <1>1, PTL DEF Spec

(* The variables keep their types. *)
THEOREM TypeCorrect == Spec => []TypeOK
<1>1. IInv => TypeOK
    BY DEF IInv
<1> QED BY <1>1, InductiveInvariant, PTL

(* createVersion (ops/versioning.ts) numbers the versions of a path 1, 2, 3, *)
(* ... without a gap or a duplicate, whatever interleaves at its await.      *)
THEOREM VersionsAreDense == Spec => []VersionsDense
<1>1. IInv => VersionsDense
    BY DEF IInv
<1> QED BY <1>1, InductiveInvariant, PTL

(* The files row always describes the newest version row. *)
THEOREM FilesRowTracksHead == Spec => []FilesTrackHead
<1>1. IInv => FilesTrackHead
    BY DEF IInv
<1> QED BY <1>1, InductiveInvariant, PTL

(* Every version that is listed can be read back, and what was put comes     *)
(* back as it was put.                                                       *)
THEOREM HistoryIsRetrievable == Spec => []VersionsRetrievable
<1>1. IInv => VersionsRetrievable
    BY DEF IInv, HandlesValid
<1> QED BY <1>1, InductiveInvariant, PTL
=============================================================================
