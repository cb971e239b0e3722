------------------------- MODULE PlannerBoardProofs -------------------------
(***************************************************************************)
(* Proofs about PlannerBoard: that its state is typed, that an overwritten *)
(* version is one that changed while the request ran, that no live task is *)
(* left in a deleted bucket and no two tasks of a bucket share a hint      *)
(* without a race, a restore or an unchecked place, and that a move puts   *)
(* its task where it was dropped.                                          *)
(***************************************************************************)
EXTENDS PlannerBoard, FiniteSetTheorems, TLAPS

-----------------------------------------------------------------------------
(* The invariants.                                                         *)

\* What a request checked still holds, or it knows better: late has the row.
Current(x) ==
    /\ x.expected # Row(x.row).ver => x.row \in x.late
    /\ \A w \in x.todo : w.row # x.row /\ w.from # Row(w.row).ver => w.row \in x.late

\* The bucket a task goes to was live when it was looked at.
Opened(x) ==
    x.op \in {"move", "create"} /\ x.bucket # None
        => bucket[x.bucket].state = "live" \/ x.bucket \in x.late

\* A write that sets bucket and hint.
Puts(w, b) == w.cols = {"bucket", "hint"} /\ w.bucket = b

\* The writes of each handler.  A move writes others only in a rebalance, and they
\* were in the bucket; a bucket is deleted with all it held when it was listed.
Shape(x) ==
    /\ x.op # "none"
    /\ x.op = "update" => x.row \in Tasks /\ \A w \in x.todo : w.row = x.row /\ w.kind = "update"
    /\ x.op \in {"complete", "reopen", "delete", "restore"} =>
          x.row \in Tasks /\ \A w \in x.todo : w.row = x.row /\ w.kind = x.op /\ w.cols = {}
    /\ x.op = "rename" => x.row \in Buckets /\ \A w \in x.todo : w.row = x.row /\ w.kind = "rename"
    /\ x.op = "create" =>
          x.row \in Tasks /\ \A w \in x.todo : w.row = x.row /\ w.kind = "create" /\ Puts(w, x.bucket)
    /\ x.op = "move" =>
          /\ x.row \in Tasks
          /\ \A w \in x.todo :
                /\ w.row \in Tasks /\ w.kind = "move" /\ Puts(w, x.bucket)
                /\ w.row # x.row => w.row \in LiveIn(x.bucket) \/ w.row \in x.late
    /\ x.op = "deleteBucket" =>
          /\ x.row \in Buckets /\ x.bucket = x.row
          /\ \A w \in x.todo : w.row = x.row \/ (w.row \in Tasks /\ w.kind = "delete")
          /\ x.stage = "write" => \A t \in LiveIn(x.row) : t \in Written(x) \/ t \in x.late

Busy(e) == tx[e].stage # "idle"
BoardInv ==
    \A e \in Editors : Busy(e) => Current(tx[e]) /\ Opened(tx[e]) /\ Shape(tx[e])

-----------------------------------------------------------------------------
(* Hints and listings.                                                     *)

Hints == Int \cup {None}

\* A key next to a neighbour, or to none, is a key; between two there may be none.
LEMMA HintBetweenTyped ==
  ASSUME NEW p \in Hints, NEW n \in Hints
  PROVE  HintBetween(p, n) \in Hints /\ (p = None \/ n = None => HintBetween(p, n) \in Int)
  BY NoneIsApart, BoundsArePositive, SMT DEF Hints, HintBetween

\* A listing has the indices of a sequence.
LEMMA ListingTyped ==
  ASSUME NEW S \in SUBSET Tasks, NEW s \in Listings(S)
  PROVE  /\ DOMAIN s \subseteq Int
         /\ Cardinality(DOMAIN s) \in Int
         /\ \A i \in DOMAIN s : s[i] \in S
  <1>1. Cardinality(S) \in Nat
    BY RowsAreApart, FS_Subset, FS_CardinalityType
  <1>2. s \in [1..Cardinality(S) -> S] BY DEF Listings
  <1>3. DOMAIN s = 1..Cardinality(S) BY <1>2
  <1>4. Cardinality(DOMAIN s) \in Nat BY <1>1, <1>3, FS_Interval, FS_CardinalityType
  <1> QED BY <1>1, <1>2, <1>3, <1>4

\* A task is placed at an index, if its neighbour is listed.
LEMMA SlotTyped ==
  ASSUME NEW S \in SUBSET Tasks, NEW s \in Listings(S), NEW p \in Place,
         p.side # "tail" => \E i \in DOMAIN s : s[i] = p.of
  PROVE  Slot(s, p) \in Int
  <1>1. CASE p.side = "tail" BY <1>1, ListingTyped DEF Slot
  <1>2. CASE p.side # "tail"
    <2>1. Position(s, p.of) \in DOMAIN s BY <1>2 DEF Position
    <2>2. Position(s, p.of) \in Int BY <2>1, ListingTyped
    <2> QED BY <1>2, <2>2 DEF Slot
  <1> QED BY <1>1, <1>2

LEMMA HintAtTyped ==
  ASSUME TypeOK, NEW S \in SUBSET Tasks, NEW s \in Listings(S), NEW i \in Int
  PROVE  HintAt(s, i) \in Hints
  <1>1. CASE i \in DOMAIN s
    <2>1. s[i] \in Tasks BY <1>1, ListingTyped
    <2>2. task[s[i]].hint \in Int BY <2>1 DEF TypeOK, TaskRow
    <2> QED BY <1>1, <2>2 DEF HintAt, Hints
  <1>2. CASE i \notin DOMAIN s BY <1>2 DEF HintAt, Hints
  <1> QED BY <1>1, <1>2

\* What a request notes of a write.
LEMMA PlacedTyped ==
  ASSUME NEW t \in Rows, NEW v \in Nat, NEW b \in Columns, NEW h \in Int
  PROVE  Placed(t, v, b, h) \in Write
  BY DEF Placed, Write, Ops

LEMMA SetsTyped ==
  ASSUME NEW op \in Ops, NEW r \in Rows, NEW read \in TaskRow \cup BucketRow
  PROVE  Sets(op, r, read) \in Write
  BY DEF Sets, Write, Columns, TaskRow, BucketRow

\* What a move writes: the task moved and, in a rebalance, the others listed.
LEMMA MoveWritesTyped ==
  ASSUME TypeOK, NEW S \in SUBSET Tasks, NEW s \in Listings(S), NEW x \in Transaction,
         x.row \in Tasks,
         x.place.side # "tail" => \E i \in DOMAIN s : s[i] = x.place.of
  PROVE  /\ MoveWrites(x, s) \subseteq Write
         /\ \A w \in MoveWrites(x, s) :
               /\ w.kind = "move" /\ Puts(w, x.bucket)
               /\ w.row = x.row \/ (w.row \in S /\ w.from = task[w.row].ver)
  <1> DEFINE i == Slot(s, x.place)
             h == HintBetween(HintAt(s, i - 1), HintAt(s, i))
             W(w) == /\ w.kind = "move" /\ Puts(w, x.bucket)
                     /\ w.row = x.row \/ (w.row \in S /\ w.from = task[w.row].ver)
  <1>1. x.place \in Place /\ x.bucket \in Columns /\ x.read \in TaskRow \cup BucketRow
    BY DEF Transaction
  <1>2. x.read.ver \in Nat BY <1>1 DEF TaskRow, BucketRow
  <1>3. i \in Int /\ i - 1 \in Int BY <1>1, SlotTyped
  <1>4. h \in Hints BY <1>3, HintAtTyped, HintBetweenTyped
  <1>5. \A g \in Int : Placed(x.row, x.read.ver, x.bucket, g) \in Write
                        /\ W(Placed(x.row, x.read.ver, x.bucket, g))
    BY <1>1, <1>2, PlacedTyped DEF Placed, Puts, Rows
  <1>6. ASSUME NEW j \in DOMAIN s, NEW g \in Int
        PROVE  Placed(s[j], task[s[j]].ver, x.bucket, g) \in Write
               /\ W(Placed(s[j], task[s[j]].ver, x.bucket, g))
    <2>1. s[j] \in S /\ s[j] \in Tasks BY ListingTyped
    <2>2. task[s[j]].ver \in Nat BY <2>1 DEF TypeOK, TaskRow
    <2> QED BY <1>1, <2>1, <2>2, PlacedTyped DEF Placed, Puts, Rows
  <1>7. \A j \in Int : HintsForN(j) \in Int BY BoundsArePositive DEF HintsForN
  <1>8. CASE h = None
    <2>1. MoveWrites(x, s) = Rebalanced(x, s, i) BY <1>8 DEF MoveWrites
    <2>2. \A j \in DOMAIN s : (IF j < i THEN j ELSE j + 1) \in Int BY ListingTyped
    <2>3. \A w \in Rebalanced(x, s, i) : w \in Write /\ W(w)
      BY <1>3, <1>5, <1>6, <1>7, <2>2 DEF Rebalanced
    <2> QED BY <2>1, <2>3
  <1>9. CASE h # None
    <2>1. h \in Int BY <1>4, <1>9 DEF Hints
    <2>2. MoveWrites(x, s) \subseteq {Placed(x.row, x.read.ver, x.bucket, h)}
      BY <1>9 DEF MoveWrites
    <2> QED BY <2>1, <2>2, <1>5
  <1> QED BY <1>8, <1>9

-----------------------------------------------------------------------------
(* Typing.                                                                 *)

LEMMA GoesTyped ==
  ASSUME NEW x \in Transaction, NEW st \in {"idle", "lock", "list", "write"},
         NEW todo \in SUBSET Write, NEW late \in SUBSET Rows
  PROVE  Goes(x, st, todo, late) \in Transaction
  BY DEF Goes, Transaction

LEMMA RequestTyped ==
  ASSUME NEW op \in Ops, NEW st \in {"idle", "lock", "list", "write"}, NEW r \in Rows,
         NEW read \in TaskRow \cup BucketRow, NEW v \in Nat, NEW b \in Columns,
         NEW p \in Place, NEW todo \in SUBSET Write
  PROVE  Request(op, st, r, read, v, b, p, todo) \in Transaction
  BY DEF Request, Transaction

\* Opening a transaction, or giving it another state, disturbs nothing else.
LEMMA OpenTyped ==
  ASSUME TypeOK, NEW e \in Editors, NEW x \in Transaction, Open(e, x)
  PROVE  TypeOK'
  BY DEF Open, TypeOK

LEMMA TxTyped ==
  ASSUME TypeOK, NEW e \in Editors, NEW x \in Transaction, tx' = [tx EXCEPT ![e] = x],
         UNCHANGED <<task, bucket, unchecked, raced, stale, edits>>
  PROVE  TypeOK'
  BY DEF TypeOK

LEMMA ListsTyped ==
  ASSUME TypeOK, NEW e \in Editors, NEW op \in Ops, NEW todo \in SUBSET Write, Lists(e, op, todo)
  PROVE  TypeOK'
  <1>1. tx[e] \in Transaction BY DEF TypeOK
  <1>2. tx[e].late \cap {tx[e].row, tx[e].bucket} \subseteq Rows BY <1>1 DEF Transaction
  <1>3. Goes(tx[e], "write", todo, tx[e].late \cap {tx[e].row, tx[e].bucket}) \in Transaction
    BY <1>1, <1>2, GoesTyped
  <1> QED BY <1>3, TxTyped DEF Lists

LEMMA RowsTyped ==
  ASSUME TypeOK
  PROVE  /\ \A t \in Tasks : task[t] \in TaskRow /\ task[t].ver \in Nat /\ task[t].hint \in Int
         /\ \A b \in Buckets : bucket[b] \in BucketRow /\ bucket[b].ver \in Nat
         /\ Tail \in Place
  BY DEF TypeOK, TaskRow, BucketRow, Tail, Place

LEMMA IdleTyped == Idle \in Transaction
  <1>1. Absent \in TaskRow BY DEF Absent, TaskRow, Columns
  <1>2. Tail \in Place BY DEF Tail, Place
  <1> QED BY <1>1, <1>2 DEF Idle, Transaction, Columns

\* The rows a commit writes.
LEMMA AppliedTyped ==
  ASSUME NEW w \in Write
  PROVE  /\ \A r \in TaskRow : AppliedToTask(w, r) \in TaskRow
         /\ \A r \in BucketRow : AppliedToBucket(w, r) \in BucketRow
  <1>1. w.from + 1 \in Nat /\ w.bucket \in Columns /\ w.hint \in Int BY DEF Write
  <1>2. ASSUME NEW r \in TaskRow PROVE AppliedToTask(w, r) \in TaskRow
    <2>1. /\ r.state \in {"absent", "live", "deleted"} /\ r.bucket \in Columns
          /\ r.hint \in Int /\ r.progress \in {"open", "done"}
      BY DEF TaskRow
    <2> QED BY <1>1, <2>1 DEF AppliedToTask, TaskRow
  <1>3. ASSUME NEW r \in BucketRow PROVE AppliedToBucket(w, r) \in BucketRow
    <2>1. r.state \in {"live", "deleted"} BY DEF BucketRow
    <2> QED BY <1>1, <2>1 DEF AppliedToBucket, BucketRow
  <1> QED BY <1>2, <1>3

LEMMA WriteOfIsWrite ==
  ASSUME NEW x, NEW r \in Written(x)
  PROVE  WriteOf(x, r) \in x.todo /\ WriteOf(x, r).row = r
  BY DEF WriteOf, Written

LEMMA CommitTyped ==
  ASSUME TypeOK, NEW e \in Editors, Shape(tx[e]), Commit(e)
  PROVE  TypeOK'
  <1> DEFINE x == tx[e]
  <1>1. x \in Transaction BY DEF TypeOK
  <1>2. x.todo \subseteq Write /\ x.row \in Rows \cup {None} /\ x.late \subseteq Rows
    BY <1>1 DEF Transaction
  <1>3. Written(x) \subseteq Rows BY <1>2 DEF Written, Write
  <1>4. \A r \in Written(x) : WriteOf(x, r) \in Write BY <1>2, WriteOfIsWrite
  <1>5. task' \in [Tasks -> TaskRow]
    <2>1. \A t \in Tasks : (IF t \in Written(x) THEN AppliedToTask(WriteOf(x, t), task[t])
                             ELSE task[t]) \in TaskRow
      BY <1>4, AppliedTyped, RowsTyped
    <2> QED BY <2>1 DEF Commit
  <1>6. bucket' \in [Buckets -> BucketRow]
    <2>1. \A b \in Buckets : (IF b \in Written(x) THEN AppliedToBucket(WriteOf(x, b), bucket[b])
                               ELSE bucket[b]) \in BucketRow
      BY <1>4, AppliedTyped, RowsTyped
    <2> QED BY <2>1 DEF Commit
  <1>7. tx' \in [Editors -> Transaction]
    <2>1. ASSUME NEW f \in Editors
          PROVE  Goes(tx[f], tx[f].stage, tx[f].todo, tx[f].late \cup Written(x)) \in Transaction
      <3>1. tx[f] \in Transaction BY DEF TypeOK
      <3>2. /\ tx[f].stage \in {"idle", "lock", "list", "write"} /\ tx[f].todo \subseteq Write
            /\ tx[f].late \cup Written(x) \subseteq Rows
        BY <3>1, <1>3 DEF Transaction
      <3> QED BY <3>1, <3>2, GoesTyped
    <2>2. \A f \in Editors : tx[f] \in Transaction BY DEF TypeOK
    <2> QED BY <2>1, <2>2, IdleTyped DEF Commit
  <1>8. unchecked' \subseteq Tasks
    <2>1. x.op \in {"restore", "update"} => x.row \in Tasks BY DEF Shape
    <2> QED BY <2>1 DEF Commit, TypeOK
  <1>9. Clash(x) \subseteq Rows
    <2>1. x.op \in {"move", "create", "deleteBucket"} => x.row \in Rows BY DEF Shape, Rows
    <2>2. x.late \cap Written(x) \subseteq Rows /\ x.late \cap LiveIn(x.bucket) \subseteq Rows
      BY <1>2
    <2> QED BY <2>1, <2>2 DEF Clash
  <1>10. Outdated(x) \subseteq Rows BY <1>2 DEF Outdated, Write
  <1>11. raced' \subseteq Rows /\ stale' \subseteq Rows BY <1>9, <1>10 DEF Commit, TypeOK
  <1> QED BY <1>5, <1>6, <1>7, <1>8, <1>11 DEF TypeOK, Commit

LEMMA NamedTyped ==
  ASSUME TypeOK, NEW h \in NamedHints
  PROVE  /\ h \in Int
         /\ \/ \E t \in Tasks : h = task[t].hint
            \/ \E p, n \in {task[t].hint : t \in Tasks} \cup {None} : h = HintBetween(p, n)
  <1> DEFINE known == {task[t].hint : t \in Tasks} \cup {None}
  <1>1. \A k \in known : k \in Hints BY RowsTyped DEF Hints
  <1>2. h # None /\ (h \in known \/ \E p, n \in known : h = HintBetween(p, n)) BY DEF NamedHints
  <1> HIDE DEF known
  <1>3. h \in Hints BY <1>1, <1>2, HintBetweenTyped
  <1> QED BY <1>2, <1>3 DEF Hints, known

\* The steps between, one lemma each: what they ask for, list or give up.
LEMMA RequestsTyped ==
  ASSUME TypeOK, NEW e \in Editors, Begins(e)
  PROVE  TypeOK'
  <1>1. ASSUME NEW t \in Tasks, NEW op \in {"complete", "reopen", "delete"},
               NEW v \in 1..task[t].ver, EditTask(e, op, t, v)
        PROVE  TypeOK'
    <2>1. t \in Rows /\ task[t] \in TaskRow /\ v \in Nat /\ Tail \in Place
      BY RowsTyped DEF Rows
    <2>2. op \in Ops /\ None \in Columns BY DEF Ops, Columns
    <2>3. {Sets(op, t, task[t])} \subseteq Write BY <2>1, <2>2, SetsTyped
    <2>4. Request(op, "write", t, task[t], v, None, Tail, {Sets(op, t, task[t])}) \in Transaction
      BY <2>1, <2>2, <2>3, RequestTyped
    <2> QED BY <1>1, <2>4, OpenTyped DEF EditTask
  <1>2. ASSUME NEW t \in Tasks, RestoreTask(e, t)
        PROVE  TypeOK'
    <2>1. t \in Rows /\ task[t] \in TaskRow /\ task[t].ver \in Nat /\ Tail \in Place
      BY RowsTyped DEF Rows
    <2>2. "restore" \in Ops /\ None \in Columns BY DEF Ops, Columns
    <2>3. {Sets("restore", t, task[t])} \subseteq Write BY <2>1, <2>2, SetsTyped
    <2>4. Request("restore", "write", t, task[t], task[t].ver, None, Tail, {Sets("restore", t, task[t])})
            \in Transaction
      BY <2>1, <2>2, <2>3, RequestTyped
    <2> QED BY <1>2, <2>4, OpenTyped DEF RestoreTask
  <1>3. ASSUME NEW t \in Tasks, NEW b \in Columns, NEW p \in Places, NEW v \in 1..task[t].ver,
               MoveTask(e, t, b, p, v)
        PROVE  TypeOK'
    <2>1. t \in Rows /\ task[t] \in TaskRow /\ v \in Nat /\ p \in Place
      BY RowsTyped DEF Rows, Places
    <2>2. "move" \in Ops BY DEF Ops
    <2>3. Request("move", "list", t, task[t], v, b, p, {}) \in Transaction
      BY <2>1, <2>2, RequestTyped
    <2> QED BY <1>3, <2>3, OpenTyped DEF MoveTask
  <1>4. ASSUME NEW t \in Tasks, NEW b \in Columns, CreateTask(e, t, b)
        PROVE  TypeOK'
    <2>1. t \in Rows /\ task[t] \in TaskRow /\ task[t].ver \in Nat /\ Tail \in Place
      BY RowsTyped DEF Rows
    <2>2. "create" \in Ops BY DEF Ops
    <2>3. Request("create", "list", t, task[t], task[t].ver, b, Tail, {}) \in Transaction
      BY <2>1, <2>2, RequestTyped
    <2> QED BY <1>4, <2>3, OpenTyped DEF CreateTask
  <1>5. ASSUME NEW b \in Buckets, NEW v \in 1..bucket[b].ver, UpdateBucket(e, b, v)
        PROVE  TypeOK'
    <2>1. b \in Rows /\ bucket[b] \in BucketRow /\ v \in Nat /\ Tail \in Place
      BY RowsTyped DEF Rows
    <2>2. "rename" \in Ops /\ None \in Columns BY DEF Ops, Columns
    <2>3. {Sets("rename", b, bucket[b])} \subseteq Write BY <2>1, <2>2, SetsTyped
    <2>4. Request("rename", "write", b, bucket[b], v, None, Tail, {Sets("rename", b, bucket[b])})
            \in Transaction
      BY <2>1, <2>2, <2>3, RequestTyped
    <2> QED BY <1>5, <2>4, OpenTyped DEF UpdateBucket
  <1>6. ASSUME NEW b \in Buckets, NEW v \in 1..bucket[b].ver, DeleteBucket(e, b, v)
        PROVE  TypeOK'
    <2>1. b \in Rows /\ bucket[b] \in BucketRow /\ v \in Nat /\ Tail \in Place /\ b \in Columns
      BY RowsTyped DEF Rows, Columns
    <2>2. "deleteBucket" \in Ops BY DEF Ops
    <2>3. Request("deleteBucket", "lock", b, bucket[b], v, b, Tail, {}) \in Transaction
      BY <2>1, <2>2, RequestTyped
    <2> QED BY <1>6, <2>3, OpenTyped DEF DeleteBucket
  <1>7. ASSUME NEW t \in Tasks, NEW b \in Columns, NEW h \in NamedHints, NEW v \in 1..task[t].ver,
               UpdateTask(e, t, b, h, v)
        PROVE  TypeOK'
    <2>1. t \in Rows /\ task[t] \in TaskRow /\ task[t].ver \in Nat /\ v \in Nat /\ Tail \in Place
      BY RowsTyped DEF Rows
    <2>2. "update" \in Ops /\ None \in Columns /\ h \in Int BY NamedTyped DEF Ops, Columns
    <2>3. Changed(task[t], b, h) \subseteq {"bucket", "hint"} BY DEF Changed
    <2>4. Put(t, b, h) \in Write BY <2>1, <2>2, <2>3 DEF Put, Write
    <2>5. Request("update", "write", t, task[t], v, None, Tail, {Put(t, b, h)}) \in Transaction
      BY <2>1, <2>2, <2>4, RequestTyped
    <2> QED BY <1>7, <2>5, OpenTyped DEF UpdateTask, Put
  <1> QED BY <1>1, <1>2, <1>3, <1>4, <1>5, <1>6, <1>7 DEF Begins

LEMMA StepsTyped ==
  ASSUME TypeOK, NEW e \in Editors, Shape(tx[e]),
         LockBucket(e) \/ ListForMove(e) \/ ListForCreate(e) \/ ListForDelete(e) \/ Abort(e)
  PROVE  TypeOK'
  <1> DEFINE x == tx[e]
  <1>1. /\ x \in Transaction /\ x.late \subseteq Rows /\ x.bucket \in Columns
        /\ x.read \in TaskRow \cup BucketRow /\ x.row \in Rows \cup {None}
    BY DEF TypeOK, Transaction
  <1>3. CASE LockBucket(e)
    <2>1. Goes(x, "list", {}, x.late) \in Transaction BY <1>1, GoesTyped
    <2> QED BY <1>3, <2>1, TxTyped DEF LockBucket
  <1>4. CASE ListForMove(e)
    <2>1. PICK s \in Listings(LiveIn(x.bucket) \ {x.row}) :
            /\ x.place.side # "tail" => \E i \in DOMAIN s : s[i] = x.place.of
            /\ Lists(e, "move", MoveWrites(x, s))
      BY <1>4 DEF ListForMove
    <2>2. x.row \in Tasks BY <2>1 DEF Shape, Lists
    <2>3. LiveIn(x.bucket) \ {x.row} \in SUBSET Tasks BY DEF LiveIn
    <2>4. MoveWrites(x, s) \subseteq Write BY <1>1, <2>1, <2>2, <2>3, MoveWritesTyped
    <2> QED BY <2>1, <2>4, ListsTyped DEF Ops
  <1>5. CASE ListForCreate(e)
    <2>1. PICK h \in TailHint(x.bucket) :
            Lists(e, "create", {Created(x, h)})
      BY <1>5 DEF ListForCreate
    <2>2. x.row \in Rows BY <2>1 DEF Shape, Lists, Rows
    <2>3. h \in Int
      <3>1. \A g \in Hints : HintBetween(g, None) \in Int BY HintBetweenTyped DEF Hints
      <3>2. \A t \in LiveIn(x.bucket) : task[t].hint \in Hints BY RowsTyped DEF LiveIn, Hints
      <3>3. None \in Hints BY DEF Hints
      <3> QED BY <3>1, <3>2, <3>3, <2>1 DEF TailHint
    <2>4. Created(x, h) \in Write
      BY <1>1, <2>2, <2>3 DEF Created, Write, Ops
    <2> QED BY <2>1, <2>4, ListsTyped DEF Ops
  <1>6. CASE ListForDelete(e)
    <2>1. Lists(e, "deleteBucket", {Sets("deleteBucket", x.row, x.read)}
                                   \cup {Sets("delete", t, task[t]) : t \in Doomed(x.bucket)})
      BY <1>6 DEF ListForDelete
    <2>2. x.row \in Rows BY <2>1 DEF Shape, Lists, Rows
    <2>3. Sets("deleteBucket", x.row, x.read) \in Write BY <1>1, <2>2, SetsTyped DEF Ops
    <2>4. \A t \in Doomed(x.bucket) : Sets("delete", t, task[t]) \in Write
      BY RowsTyped, SetsTyped DEF Doomed, LiveIn, Rows, Ops
    <2> QED BY <2>1, <2>3, <2>4, ListsTyped DEF Ops
  <1>7. CASE Abort(e) BY <1>7, IdleTyped, TxTyped DEF Abort
  <1> QED BY <1>3, <1>4, <1>5, <1>6, <1>7

-----------------------------------------------------------------------------
(* What is known of the open transactions.                                 *)

Known(x) == Current(x) /\ Opened(x) /\ Shape(x)

\* As long as no row changes, only the transaction that moved is to be looked at.
LEMMA KnownKept ==
  ASSUME TypeOK, BoardInv, NEW e \in Editors, NEW y, tx' = [tx EXCEPT ![e] = y],
         UNCHANGED <<task, bucket>>, y.stage # "idle" => Known(y)
  PROVE  BoardInv'
  <1>1. ASSUME NEW f \in Editors, tx'[f].stage # "idle"
        PROVE  Current(tx[f])' /\ Opened(tx[f])' /\ Shape(tx[f])'
    <2>1. CASE f = e
      <3>1. tx'[f] = y BY <2>1 DEF TypeOK
      <3>2. Known(y) BY <1>1, <3>1
      <3>3. Current(tx[f])' BY <3>1, <3>2 DEF Known, Current, Row
      <3>4. Opened(tx[f])' BY <3>1, <3>2 DEF Known, Opened
      <3>5. Shape(tx[f])' BY <3>1, <3>2 DEF Known, Shape, LiveIn, Written
      <3> QED BY <3>3, <3>4, <3>5
    <2>2. CASE f # e
      <3>1. tx'[f] = tx[f] BY <2>2 DEF TypeOK
      <3>2. Current(tx[f]) /\ Opened(tx[f]) /\ Shape(tx[f]) BY <1>1, <3>1 DEF BoardInv, Busy
      <3>3. Current(tx[f])' BY <3>1, <3>2 DEF Current, Row
      <3>4. Opened(tx[f])' BY <3>1, <3>2 DEF Opened
      <3>5. Shape(tx[f])' BY <3>1, <3>2 DEF Shape, LiveIn, Written
      <3> QED BY <3>3, <3>4, <3>5
    <2> QED BY <2>1, <2>2
  <1> QED BY <1>1 DEF BoardInv, Busy

LEMMA RequestsKnown ==
  ASSUME TypeOK, BoardInv, NEW e \in Editors, Begins(e)
  PROVE  BoardInv'
  <1>0. \A b \in Buckets : b \notin Tasks BY RowsAreApart
  <1>1. ASSUME NEW t \in Tasks, NEW op \in {"complete", "reopen", "delete"},
               NEW v \in 1..task[t].ver, EditTask(e, op, t, v)
        PROVE  BoardInv'
    <2>1. Known(Request(op, "write", t, task[t], v, None, Tail, {Sets(op, t, task[t])}))
      BY <1>1 DEF Known, Current, Opened, Shape, Request, Sets, Row, EditTask, UpToDate
    <2> QED BY <1>1, <2>1, KnownKept DEF EditTask, Open
  <1>2. ASSUME NEW t \in Tasks, RestoreTask(e, t)
        PROVE  BoardInv'
    <2>1. Known(Request("restore", "write", t, task[t], task[t].ver, None, Tail,
                        {Sets("restore", t, task[t])}))
      BY DEF Known, Current, Opened, Shape, Request, Sets, Row
    <2> QED BY <1>2, <2>1, KnownKept DEF RestoreTask, Open
  <1>3. ASSUME NEW t \in Tasks, NEW b \in Columns, NEW p \in Places, NEW v \in 1..task[t].ver,
               MoveTask(e, t, b, p, v)
        PROVE  BoardInv'
    <2>1. Known(Request("move", "list", t, task[t], v, b, p, {}))
      BY <1>3 DEF Known, Current, Opened, Shape, Request, Row, MoveTask, UpToDate, UsableBucket
    <2> QED BY <1>3, <2>1, KnownKept DEF MoveTask, Open
  <1>4. ASSUME NEW t \in Tasks, NEW b \in Columns, CreateTask(e, t, b)
        PROVE  BoardInv'
    <2>1. Known(Request("create", "list", t, task[t], task[t].ver, b, Tail, {}))
      BY <1>4 DEF Known, Current, Opened, Shape, Request, Row, CreateTask, UsableBucket
    <2> QED BY <1>4, <2>1, KnownKept DEF CreateTask, Open
  <1>5. ASSUME NEW b \in Buckets, NEW v \in 1..bucket[b].ver, UpdateBucket(e, b, v)
        PROVE  BoardInv'
    <2>1. Known(Request("rename", "write", b, bucket[b], v, None, Tail, {Sets("rename", b, bucket[b])}))
      BY <1>0, <1>5 DEF Known, Current, Opened, Shape, Request, Sets, Row, UpdateBucket, UpToDate
    <2> QED BY <1>5, <2>1, KnownKept DEF UpdateBucket, Open
  <1>6. ASSUME NEW b \in Buckets, NEW v \in 1..bucket[b].ver, DeleteBucket(e, b, v)
        PROVE  BoardInv'
    <2>1. Known(Request("deleteBucket", "lock", b, bucket[b], v, b, Tail, {}))
      BY <1>0, <1>6 DEF Known, Current, Opened, Shape, Request, Row, DeleteBucket, UpToDate
    <2> QED BY <1>6, <2>1, KnownKept DEF DeleteBucket, Open
  <1>7. ASSUME NEW t \in Tasks, NEW b \in Columns, NEW h \in NamedHints, NEW v \in 1..task[t].ver,
               UpdateTask(e, t, b, h, v)
        PROVE  BoardInv'
    <2>1. Known(Request("update", "write", t, task[t], v, None, Tail, {Put(t, b, h)}))
      BY <1>7 DEF Known, Current, Opened, Shape, Request, Put, Row, UpdateTask, UpToDate
    <2> QED BY <1>7, <2>1, KnownKept DEF UpdateTask, Open, Put
  <1> QED BY <1>1, <1>2, <1>3, <1>4, <1>5, <1>6, <1>7 DEF Begins

\* What is listed is as it is now; of what was read before, late still tells.
LEMMA ListsKnown ==
  ASSUME TypeOK, BoardInv, NEW e \in Editors, NEW op, NEW todo, Lists(e, op, todo),
         Shape(Goes(tx[e], "write", todo, tx[e].late \cap {tx[e].row, tx[e].bucket})),
         \A w \in todo : w.row # tx[e].row => w.from = Row(w.row).ver
  PROVE  BoardInv'
  <1> DEFINE x == tx[e]
             y == Goes(x, "write", todo, x.late \cap {x.row, x.bucket})
  <1>1. Current(x) /\ Opened(x) BY DEF Lists, BoardInv, Busy
  <1>2. Current(y) BY <1>1 DEF Current, Goes
  <1>3. Opened(y) BY <1>1 DEF Opened, Goes
  <1> QED BY <1>2, <1>3, KnownKept DEF Lists, Known

LEMMA StepsKnown ==
  ASSUME TypeOK, BoardInv, NEW e \in Editors,
         LockBucket(e) \/ ListForMove(e) \/ ListForCreate(e) \/ ListForDelete(e) \/ Abort(e)
  PROVE  BoardInv'
  <1> DEFINE x == tx[e]
             late == x.late \cap {x.row, x.bucket}
  <1>1. /\ x \in Transaction /\ x.read \in TaskRow \cup BucketRow
        /\ x.row \in Rows \cup {None}
    BY DEF TypeOK, Transaction
  <1>3. CASE LockBucket(e)
    <2>1. Known(x) BY <1>3 DEF LockBucket, BoardInv, Busy, Known
    <2>2. Known(Goes(x, "list", {}, x.late))
      BY <2>1 DEF Known, Current, Opened, Shape, Goes
    <2> QED BY <1>3, <2>2, KnownKept DEF LockBucket
  <1>4. CASE ListForMove(e)
    <2>1. PICK s \in Listings(LiveIn(x.bucket) \ {x.row}) :
            /\ x.place.side # "tail" => \E i \in DOMAIN s : s[i] = x.place.of
            /\ Lists(e, "move", MoveWrites(x, s))
      BY <1>4 DEF ListForMove
    <2>2. x.op = "move" /\ x.row \in Tasks BY <2>1 DEF Shape, Lists, BoardInv, Busy
    <2>3. LiveIn(x.bucket) \ {x.row} \in SUBSET Tasks BY DEF LiveIn
    <2>4. \A w \in MoveWrites(x, s) :
             /\ w.kind = "move" /\ Puts(w, x.bucket)
             /\ w.row = x.row \/ (w.row \in LiveIn(x.bucket) /\ w.row \in Tasks /\ w.from = task[w.row].ver)
      BY <1>1, <2>1, <2>2, <2>3, MoveWritesTyped
    <2>5. Shape(Goes(x, "write", MoveWrites(x, s), late)) BY <2>2, <2>4 DEF Shape, Goes
    <2> QED BY <2>1, <2>4, <2>5, ListsKnown DEF Row
  <1>5. CASE ListForCreate(e)
    <2>1. PICK h \in TailHint(x.bucket) :
            Lists(e, "create", {Created(x, h)})
      BY <1>5 DEF ListForCreate
    <2> DEFINE todo == {Created(x, h)}
    <2>2. x.op = "create" /\ x.row \in Tasks BY <2>1 DEF Shape, Lists, BoardInv, Busy
    <2>3. \A w \in todo : w.row = x.row /\ w.kind = "create" /\ Puts(w, x.bucket)
      BY DEF Created, Puts
    <2>4. Shape(Goes(x, "write", todo, late))
      <3> HIDE DEF todo
      <3> QED BY <2>2, <2>3 DEF Shape, Goes
    <2> QED
      <3> HIDE DEF todo
      <3>1. Lists(e, "create", todo) BY <2>1 DEF todo
      <3> QED BY <3>1, <2>3, <2>4, ListsKnown
  <1>6. CASE ListForDelete(e)
    <2> DEFINE todo == {Sets("deleteBucket", x.row, x.read)}
                       \cup {Sets("delete", t, task[t]) : t \in Doomed(x.bucket)}
    <2>1. Lists(e, "deleteBucket", todo) BY <1>6 DEF ListForDelete
    <2>2. x.op = "deleteBucket" /\ x.row \in Buckets /\ x.bucket = x.row
      BY <2>1 DEF Shape, Lists, BoardInv, Busy
    <2>3. \A w \in todo : \/ w.row = x.row
                          \/ w.row \in Tasks /\ w.kind = "delete" /\ w.from = task[w.row].ver
      BY DEF Sets, Doomed, LiveIn
    <2>4. ASSUME NEW t \in LiveIn(x.row) PROVE \E w \in todo : w.row = t
      <3>1. Sets("delete", t, task[t]) \in todo BY <2>2 DEF Doomed
      <3>2. Sets("delete", t, task[t]).row = t BY DEF Sets
      <3> HIDE DEF todo
      <3> QED BY <3>1, <3>2
    <2>5. Shape(Goes(x, "write", todo, late))
      <3> HIDE DEF todo
      <3> QED BY <2>2, <2>3, <2>4 DEF Shape, Goes, Written
    <2>6. \A w \in todo : w.row # x.row => w.from = Row(w.row).ver BY <2>3 DEF Row
    <2> QED
      <3> HIDE DEF todo
      <3> QED BY <2>1, <2>5, <2>6, ListsKnown
  <1>7. CASE Abort(e) BY <1>7, KnownKept DEF Abort, Idle
  <1> QED BY <1>3, <1>4, <1>5, <1>6, <1>7

-----------------------------------------------------------------------------
(* A commit.                                                               *)

\* The versions and places of rows it does not write stay; a bucket's state changes
\* only when the bucket is deleted.
LEMMA CommitLeaves ==
  ASSUME TypeOK, NEW e \in Editors, Commit(e)
  PROVE  /\ \A t \in Tasks : t \notin Written(tx[e]) => task'[t] = task[t]
         /\ \A t \in Tasks : t \in Written(tx[e]) => task'[t] = AppliedToTask(WriteOf(tx[e], t), task[t])
         /\ \A b \in Buckets : b \notin Written(tx[e]) => bucket'[b] = bucket[b]
         /\ \A b \in Buckets : b \in Written(tx[e]) => bucket'[b] = AppliedToBucket(WriteOf(tx[e], b), bucket[b])
         /\ \A f \in Editors :
              tx'[f] = IF f = e THEN Idle
                       ELSE IF tx[f].stage = "idle" THEN tx[f]
                       ELSE Goes(tx[f], tx[f].stage, tx[f].todo, tx[f].late \cup Written(tx[e]))
  BY DEF Commit, TypeOK

LEMMA CommitKnown ==
  ASSUME TypeOK, BoardInv, NEW e \in Editors, Commit(e)
  PROVE  BoardInv'
  <1> DEFINE W == Written(tx[e])
  <1>0. /\ \A t \in Tasks : t \notin W => task'[t] = task[t]
        /\ \A b \in Buckets : b \notin W => bucket'[b] = bucket[b]
    BY CommitLeaves
  <1>1. SUFFICES ASSUME NEW f \in Editors, tx'[f].stage # "idle"
                 PROVE  Current(tx[f])' /\ Opened(tx[f])' /\ Shape(tx[f])'
    BY DEF BoardInv, Busy
  <1> DEFINE x == tx[f]
  <1>2. f # e /\ x.stage # "idle"
    <2>1. tx'[e] = Idle BY CommitLeaves
    <2>2. f # e BY <1>1, <2>1 DEF Idle
    <2>3. x.stage = "idle" => tx'[f] = x BY <2>2, CommitLeaves
    <2> QED BY <1>1, <2>2, <2>3
  <1>3. tx'[f] = Goes(x, x.stage, x.todo, x.late \cup W) BY <1>2, CommitLeaves
  <1>4. /\ tx'[f].op = x.op /\ tx'[f].stage = x.stage /\ tx'[f].row = x.row
        /\ tx'[f].expected = x.expected /\ tx'[f].bucket = x.bucket /\ tx'[f].todo = x.todo
        /\ tx'[f].late = x.late \cup W
    BY <1>3 DEF Goes
  <1>5. Current(x) /\ Opened(x) /\ Shape(x) BY <1>2 DEF BoardInv, Busy
  <1>6. x \in Transaction /\ x.todo \subseteq Write /\ x.bucket \in Columns BY DEF TypeOK, Transaction
  <1> HIDE DEF W
  <1>7. \A r \in Rows : r \notin W => Row(r)' = Row(r)
    BY <1>0, RowsAreApart DEF Row, Rows
  <1>8. Current(tx[f])'
    <2>1. x.stage # "idle" => x.row \in Rows
      BY <1>5, <1>6 DEF Shape, Rows, Transaction, Ops
    <2> QED BY <1>2, <1>4, <1>5, <1>6, <1>7, <2>1 DEF Current, Write
  <1>9. Opened(tx[f])'
    BY <1>0, <1>4, <1>5, <1>6 DEF Opened, Columns
  <1>10. \A t \in LiveIn(x.bucket) : t \in LiveIn(tx[f].bucket)' \/ t \in W
    BY <1>0, <1>4 DEF LiveIn
  <1>11. \A t \in LiveIn(tx[f].row)' : t \in LiveIn(x.row) \/ t \in W
    BY <1>0, <1>4 DEF LiveIn
  <1>12. Written(tx[f])' = Written(x) BY <1>4 DEF Written
  <1>13. Shape(tx[f])'
    BY <1>4, <1>5, <1>10, <1>11, <1>12 DEF Shape
  <1> QED BY <1>8, <1>9, <1>13

\* Rows of other versions than the ones read were committed by others meanwhile.
LEMMA CommitStale ==
  ASSUME BoardInv, StaleOnlyIfRaced, NEW e \in Editors, Commit(e)
  PROVE  StaleOnlyIfRaced'
  <1> DEFINE x == tx[e]
  <1>1. Current(x) BY DEF BoardInv, Busy, Commit
  <1>2. Outdated(x) \subseteq x.late \cap Written(x) BY <1>1 DEF Outdated, Written, Current
  <1>3. x.late \cap Written(x) \subseteq Clash(x) BY DEF Clash
  <1> QED BY <1>2, <1>3 DEF Commit, StaleOnlyIfRaced

\* Only the deletion of a bucket changes the state of one.
LEMMA OnlyDeletionDeletes ==
  ASSUME TypeOK, NEW e \in Editors, Shape(tx[e]), Commit(e), NEW b \in Buckets,
         bucket'[b].state # bucket[b].state
  PROVE  tx[e].op = "deleteBucket" /\ tx[e].row = b /\ b \in Written(tx[e])
  <1> DEFINE x == tx[e]
             w == WriteOf(x, b)
  <1>1. b \in Written(x) /\ bucket'[b] = AppliedToBucket(w, bucket[b]) BY CommitLeaves
  <1>2. w \in x.todo /\ w.row = b BY <1>1, WriteOfIsWrite
  <1>3. w.kind = "deleteBucket" BY <1>1 DEF AppliedToBucket
  <1>4. b \notin Tasks BY RowsAreApart
  <1>5. x.op \in Ops \cup {"none"} BY DEF TypeOK, Transaction
  <1> HIDE DEF w
  <1> QED BY <1>1, <1>2, <1>3, <1>4, <1>5 DEF Shape, Ops

\* A task that is live after a commit lies in a live bucket, or was in a race, or has
\* just been restored or placed unchecked.
LEMMA CommitLive ==
  ASSUME TypeOK, TypeOK', BoardInv, LiveTaskInLiveBucket, NEW e \in Editors, Commit(e)
  PROVE  LiveTaskInLiveBucket'
  <1> DEFINE x == tx[e]
  <1>1. Opened(x) /\ Shape(x) /\ x.stage = "write" BY DEF BoardInv, Busy, Commit
  <1>2. SUFFICES ASSUME NEW t \in Tasks, t \notin raced', t \notin unchecked',
                        task'[t].state = "live", task'[t].bucket # None
                 PROVE  bucket'[task'[t].bucket].state = "live"
    BY DEF LiveTaskInLiveBucket, Quiet
  <1> DEFINE c == task'[t].bucket
             w == WriteOf(x, t)
  <1>3. c \in Buckets BY <1>2 DEF TypeOK, TaskRow, Columns
  <1>4. t \notin raced /\ t \notin Clash(x) BY <1>2 DEF Commit
  <1>5. /\ t \in unchecked => x.op = "move" /\ t \in Written(x) /\ t = x.row
        /\ x.op = "restore" => t # x.row
        /\ x.op = "update" /\ t = x.row => \A v \in x.todo : v.cols = {}
    BY <1>2 DEF Commit
  <1>6. t \notin unchecked /\ task[t].state = "live" /\ task[t].bucket = c
          => bucket[c].state = "live"
    BY <1>2, <1>4 DEF LiveTaskInLiveBucket, Quiet
  <1>7. bucket[c].state \in {"live", "deleted"} BY <1>3 DEF TypeOK, BucketRow
  <1>8. x.op \in Ops BY <1>1 DEF TypeOK, Transaction, Shape
  <1>9. CASE t \notin Written(x)
    <2>1. task'[t] = task[t] BY <1>9, CommitLeaves
    <2>2. bucket[c].state = "live" BY <1>2, <1>5, <1>6, <1>9, <2>1
    <2>3. SUFFICES ASSUME bucket'[c].state # "live" PROVE FALSE OBVIOUS
    <2>4. x.op = "deleteBucket" /\ x.row = c /\ c \in Written(x)
      BY <1>1, <1>3, <2>2, <2>3, OnlyDeletionDeletes
    <2>5. t \in LiveIn(x.row) BY <1>2, <2>1, <2>4 DEF LiveIn
    <2>6. t \in x.late /\ x.bucket = x.row BY <1>1, <1>9, <2>4, <2>5 DEF Shape
    <2>7. x.todo # {} BY <2>4 DEF Written
    <2>8. t \in Clash(x) BY <2>4, <2>5, <2>6, <2>7 DEF Clash
    <2> QED BY <1>4, <2>8
  <1>10. CASE t \in Written(x)
    <2>1. task'[t] = AppliedToTask(w, task[t]) BY <1>10, CommitLeaves
    <2>2. w \in x.todo /\ w.row = t BY <1>10, WriteOfIsWrite
    <2>3. t \notin Buckets BY RowsAreApart
    <2> HIDE DEF w
    <2>4. w.kind # "delete" BY <1>2, <2>1 DEF AppliedToTask
    <2>5. x.op \notin {"delete", "restore", "rename", "deleteBucket"}
      BY <1>1, <1>5, <2>2, <2>3, <2>4 DEF Shape
    <2>6. bucket[c].state = "live" => bucket'[c].state = "live"
      BY <1>1, <1>3, <2>5, OnlyDeletionDeletes
    <2>7. CASE x.op \in {"update", "complete", "reopen"}
      <3>1. w.kind = x.op /\ w.cols = {} BY <1>1, <1>5, <2>2, <2>7 DEF Shape
      <3>2. task[t].state = "live" /\ task[t].bucket = c
        BY <1>2, <2>1, <2>7, <3>1 DEF AppliedToTask
      <3> QED BY <1>5, <1>6, <2>6, <2>7, <3>2
    <2>8. CASE x.op \in {"create", "move"}
      <3>1. w.kind = x.op /\ Puts(w, x.bucket) BY <1>1, <2>2, <2>8 DEF Shape
      <3>2. c = x.bucket BY <2>1, <2>8, <3>1 DEF AppliedToTask, Puts
      <3>3. CASE t = x.row
        <4>1. ~(x.bucket \in x.late /\ bucket[x.bucket].state = "deleted")
          BY <1>4, <2>2, <2>8, <3>3 DEF Clash
        <4>2. bucket[c].state = "live" \/ c \in x.late BY <1>1, <1>2, <2>8, <3>2 DEF Opened
        <4> QED BY <1>7, <2>6, <3>2, <4>1, <4>2
      <3>4. CASE t # x.row
        <4>1. t \in LiveIn(c) \/ t \in x.late BY <1>1, <2>2, <2>8, <3>2, <3>4 DEF Shape
        <4>2. t \notin x.late BY <1>4, <1>10 DEF Clash
        <4>3. task[t].state = "live" /\ task[t].bucket = c BY <4>1, <4>2 DEF LiveIn
        <4> QED BY <1>5, <1>6, <2>6, <3>4, <4>3
      <3> QED BY <3>3, <3>4
    <2> QED BY <1>8, <2>5, <2>7, <2>8 DEF Ops
  <1> QED BY <1>9, <1>10

-----------------------------------------------------------------------------
(* The theorems.                                                           *)

IInv == TypeOK /\ BoardInv /\ StaleOnlyIfRaced /\ LiveTaskInLiveBucket

LEMMA InitInv == Init => IInv
  <1> SUFFICES ASSUME Init PROVE IInv OBVIOUS
  <1>1. TypeOK
    <2>1. \A t \in Tasks :
             (IF t \in DOMAIN Home
              THEN [state |-> "live", ver |-> 1, bucket |-> Home[t],
                    hint |-> Rank[t] * Gap, progress |-> "open"]
              ELSE Absent) \in TaskRow
      <3>1. Absent \in TaskRow BY DEF Absent, TaskRow, Columns
      <3>2. ASSUME NEW t \in DOMAIN Home
            PROVE  [state |-> "live", ver |-> 1, bucket |-> Home[t],
                    hint |-> Rank[t] * Gap, progress |-> "open"] \in TaskRow
        <4>1. Home[t] \in Columns BY HomesExist DEF Columns
        <4>2. Rank[t] \in Int /\ Gap \in Int BY HomesExist, BoundsArePositive
        <4>3. Rank[t] * Gap \in Int BY <4>2
        <4> QED BY <4>1, <4>3 DEF TaskRow
      <3> QED BY <3>1, <3>2
    <2>2. task \in [Tasks -> TaskRow] BY <2>1 DEF Init
    <2>3. bucket \in [Buckets -> BucketRow] BY DEF Init, BucketRow
    <2>4. tx \in [Editors -> Transaction] BY IdleTyped DEF Init
    <2> QED BY <2>2, <2>3, <2>4 DEF Init, TypeOK
  <1>2. BoardInv BY DEF Init, BoardInv, Busy, Idle
  <1>3. StaleOnlyIfRaced BY DEF Init, StaleOnlyIfRaced
  <1>4. LiveTaskInLiveBucket
    <2>1. \A b \in Buckets : bucket[b].state = "live" BY DEF Init
    <2>2. \A t \in Tasks : task[t].bucket # None => task[t].bucket \in Buckets
      BY <1>1 DEF TypeOK, TaskRow, Columns
    <2> QED BY <2>1, <2>2 DEF LiveTaskInLiveBucket, Quiet
  <1> QED BY <1>1, <1>2, <1>3, <1>4 DEF IInv

\* What only opens, advances or gives up a transaction changes no row.
Untouched == UNCHANGED <<task, bucket, unchecked, raced, stale>>

LEMMA UntouchedKeeps ==
  ASSUME StaleOnlyIfRaced, LiveTaskInLiveBucket, Untouched
  PROVE  StaleOnlyIfRaced' /\ LiveTaskInLiveBucket'
  BY DEF Untouched, StaleOnlyIfRaced, LiveTaskInLiveBucket, Quiet

LEMMA NextInv == IInv /\ [Next]_vars => IInv'
  <1> SUFFICES ASSUME IInv, [Next]_vars PROVE IInv' OBVIOUS
  <1>0. TypeOK /\ BoardInv /\ StaleOnlyIfRaced /\ LiveTaskInLiveBucket BY DEF IInv
  <1>1. ASSUME NEW e \in Editors, Begins(e)
        PROVE  IInv'
    <2>1. TypeOK' BY <1>0, <1>1, RequestsTyped
    <2>2. BoardInv' BY <1>0, <1>1, RequestsKnown
    <2>3. Untouched
      BY <1>1 DEF Untouched, Begins, UpdateTask, EditTask, RestoreTask, MoveTask, CreateTask,
                  UpdateBucket, DeleteBucket, Open
    <2> QED BY <1>0, <2>1, <2>2, <2>3, UntouchedKeeps DEF IInv
  <1>2. ASSUME NEW e \in Editors,
               LockBucket(e) \/ ListForMove(e) \/ ListForCreate(e) \/ ListForDelete(e) \/ Abort(e)
        PROVE  IInv'
    <2>1. Busy(e)
      BY <1>2 DEF Busy, LockBucket, ListForMove, ListForCreate, ListForDelete, Lists, Abort
    <2>2. Shape(tx[e]) BY <1>0, <2>1 DEF BoardInv
    <2>3. TypeOK' BY <1>0, <1>2, <2>2, StepsTyped
    <2>4. BoardInv' BY <1>0, <1>2, StepsKnown
    <2>5. Untouched
      BY <1>2 DEF Untouched, LockBucket, ListForMove, ListForCreate, ListForDelete, Lists, Abort
    <2> QED BY <1>0, <2>3, <2>4, <2>5, UntouchedKeeps DEF IInv
  <1>3. ASSUME NEW e \in Editors, Commit(e) PROVE IInv'
    <2>1. Shape(tx[e]) BY <1>0, <1>3 DEF BoardInv, Busy, Commit
    <2>2. TypeOK' BY <1>0, <1>3, <2>1, CommitTyped
    <2>3. BoardInv' BY <1>0, <1>3, CommitKnown
    <2>4. StaleOnlyIfRaced' BY <1>0, <1>3, CommitStale
    <2>5. LiveTaskInLiveBucket' BY <1>0, <1>3, <2>2, CommitLive
    <2> QED BY <2>2, <2>3, <2>4, <2>5 DEF IInv
  <1>4. CASE UNCHANGED vars
    <2>1. Untouched /\ UNCHANGED <<tx, edits>> BY <1>4 DEF vars, Untouched
    <2>2. TypeOK' BY <1>0, <2>1 DEF TypeOK, Untouched
    <2>3. BoardInv'
      BY <1>0, <2>1 DEF Untouched, BoardInv, Busy, Current, Opened, Shape, Row, LiveIn, Written
    <2> QED BY <1>0, <2>1, <2>2, <2>3, UntouchedKeeps DEF IInv
  <1> QED BY <1>1, <1>2, <1>3, <1>4 DEF Next

LEMMA SpecInv == Spec => []IInv
  BY InitInv, NextInv, PTL DEF Spec

\* The rows, the transactions and the observers keep their shape, for any number of
\* editors, tasks and buckets: every hint handed out is a number, whatever was moved
\* where.
THEOREM TypeCorrect == Spec => []TypeOK
  <1>1. IInv => TypeOK BY DEF IInv
  <1> QED BY <1>1, SpecInv, PTL

\* No handler overwrites what a client saw before its request began: a row whose
\* version had moved on was changed between the handler's read and its commit.
THEOREM StaleOnlyRaced == Spec => []StaleOnlyIfRaced
  <1>1. IInv => StaleOnlyIfRaced BY DEF IInv
  <1> QED BY <1>1, SpecInv, PTL

\* deleteBucket leaves no live task behind and nothing is put into a deleted bucket,
\* except by a race, by restoreTask, or by an updateTask that names the bucket.
THEOREM NoTaskOrphaned == Spec => []LiveTaskInLiveBucket
  <1>1. IInv => LiveTaskInLiveBucket BY DEF IInv
  <1> QED BY <1>1, SpecInv, PTL

-----------------------------------------------------------------------------
(* There is room for a hint between any two.                               *)

Multiple(h, g) == \E k \in Int : h = k * g

LEMMA MultipleOfDouble ==
  ASSUME NEW f \in Nat \ {0}, NEW h \in Int, Multiple(h, 2 * f)
  PROVE  Multiple(h, f)
  <1>1. PICK k \in Int : h = k * (2 * f) BY DEF Multiple
  <1>2. h = (2 * k) * f /\ 2 * k \in Int BY <1>1
  <1> QED BY <1>2 DEF Multiple

LEMMA MultiplesAdd ==
  ASSUME NEW f \in Nat \ {0}, NEW a \in Int, NEW b \in Int, Multiple(a, f), Multiple(b, f)
  PROVE  Multiple(a + b, f) /\ Multiple(a - b, f)
  <1>1. PICK k \in Int : a = k * f BY DEF Multiple
  <1>2. PICK m \in Int : b = m * f BY DEF Multiple
  <1>3. a + b = (k + m) * f /\ a - b = (k - m) * f BY <1>1, <1>2
  <1>4. k + m \in Int /\ k - m \in Int OBVIOUS
  <1> QED BY <1>3, <1>4 DEF Multiple

\* Half way between two multiples of twice a grain is a multiple of the grain, and
\* between them.
LEMMA HalfWay ==
  ASSUME NEW f \in Nat \ {0}, NEW a \in Int, NEW b \in Int,
         Multiple(a, 2 * f), Multiple(b, 2 * f), a < b
  PROVE  LET h == (a + b) \div 2 IN h \in Int /\ a < h /\ h < b /\ Multiple(h, f)
  <1>1. PICK k \in Int : a = k * (2 * f) BY DEF Multiple
  <1>2. PICK m \in Int : b = m * (2 * f) BY DEF Multiple
  <1>3. PICK c \in Int : c = (k + m) * f OBVIOUS
  <1>4. a + b = 2 * c BY <1>1, <1>2, <1>3
  <1>5. (a + b) \div 2 = c BY <1>4
  <1>6. a < c /\ c < b BY <1>4
  <1>7. Multiple(c, f) BY <1>3 DEF Multiple
  <1> QED BY <1>5, <1>6, <1>7

\* A key lies between its neighbours.
LEMMA KeyBetween ==
  ASSUME NEW f \in Nat \ {0}, Multiple(Gap, 2 * f), NEW p \in Hints, NEW n \in Hints,
         p # None => Multiple(p, 2 * f), n # None => Multiple(n, 2 * f),
         HintBetween(p, n) # None
  PROVE  /\ HintBetween(p, n) \in Int /\ Multiple(HintBetween(p, n), f)
         /\ p # None => p < HintBetween(p, n)
         /\ n # None => HintBetween(p, n) < n
  <1>0. Gap \in Int /\ Gap > 0 /\ Multiple(Gap, f) BY BoundsArePositive, MultipleOfDouble
  <1>1. CASE p = None /\ n = None
    <2>1. HintBetween(p, n) = 0 BY <1>1 DEF HintBetween
    <2>2. 0 = 0 * f /\ 0 \in Int OBVIOUS
    <2> QED BY <1>1, <2>1, <2>2 DEF Multiple
  <1>2. CASE p = None /\ n # None
    <2>1. HintBetween(p, n) = n - Gap /\ n \in Int BY <1>2 DEF HintBetween, Hints
    <2>2. Multiple(n, f) BY <1>2, <2>1, MultipleOfDouble
    <2>3. Multiple(n - Gap, f) BY <1>0, <2>1, <2>2, MultiplesAdd
    <2> QED BY <1>0, <1>2, <2>1, <2>3
  <1>3. CASE p # None /\ n = None
    <2>1. HintBetween(p, n) = p + Gap /\ p \in Int BY <1>3 DEF HintBetween, Hints
    <2>2. Multiple(p, f) BY <1>3, <2>1, MultipleOfDouble
    <2>3. Multiple(p + Gap, f) BY <1>0, <2>1, <2>2, MultiplesAdd
    <2> QED BY <1>0, <1>3, <2>1, <2>3
  <1>4. CASE p # None /\ n # None
    <2>1. p \in Int /\ n \in Int BY <1>4 DEF Hints
    <2>2. p < n /\ HintBetween(p, n) = (p + n) \div 2 BY <1>4 DEF HintBetween
    <2> QED BY <1>4, <2>1, <2>2, HalfWay
  <1> QED BY <1>1, <1>2, <1>3, <1>4

\* Fresh hints follow the order of the slots.
LEMMA FreshHints ==
  ASSUME NEW i \in Int, NEW j \in Int
  PROVE  /\ HintsForN(i) \in Int
         /\ i < j => HintsForN(i) < HintsForN(j)
         /\ i # j => HintsForN(i) # HintsForN(j)
  <1>0. Gap \in Int /\ Gap > 0 BY BoundsArePositive
  <1>1. \A k, m \in Int : k < m => (k - 1) * Gap < (m - 1) * Gap BY <1>0
  <1>2. HintsForN(i) = (i - 1) * Gap /\ HintsForN(j) = (j - 1) * Gap BY DEF HintsForN
  <1>3. (i - 1) * Gap \in Int /\ (j - 1) * Gap \in Int BY <1>0
  <1>4. i < j => HintsForN(i) < HintsForN(j) BY <1>1, <1>2
  <1>5. j < i => HintsForN(j) < HintsForN(i) BY <1>1, <1>2
  <1> QED BY <1>2, <1>3, <1>4, <1>5

LEMMA FreshMultiple ==
  ASSUME NEW f \in Nat \ {0}, Multiple(Gap, f), NEW i \in Int
  PROVE  Multiple(HintsForN(i), f)
  <1>1. PICK k \in Int : Gap = k * f BY DEF Multiple
  <1>2. (i - 1) * Gap = ((i - 1) * k) * f /\ (i - 1) * k \in Int BY <1>1
  <1> QED BY <1>2 DEF Multiple, HintsForN

-----------------------------------------------------------------------------
(* What a move writes, and where it puts its task.                         *)

\* A listing names each task once, in the order of the hints.
LEMMA ListingOrder ==
  ASSUME TypeOK, NEW S \in SUBSET Tasks, NEW s \in Listings(S)
  PROVE  /\ Cardinality(DOMAIN s) \in Nat /\ DOMAIN s = 1..Cardinality(DOMAIN s)
         /\ \A t \in S : \E j \in DOMAIN s : s[j] = t
         /\ \A i, j \in DOMAIN s : i # j => s[i] # s[j]
         /\ \A i, j \in DOMAIN s : i <= j => task[s[i]].hint <= task[s[j]].hint
         /\ \A i \in DOMAIN s : s[i] \in S /\ task[s[i]].hint \in Int
  <1> DEFINE n == Cardinality(S)
  <1>1. IsFiniteSet(S) /\ n \in Nat BY RowsAreApart, FS_Subset, FS_CardinalityType
  <1>2. s \in [1..n -> S] BY DEF Listings
  <1>3. Cardinality(1..n) = n BY <1>1, FS_Interval
  <1>4. DOMAIN s = 1..n BY <1>2
  <1> HIDE DEF n
  <1>5. \A i, j \in DOMAIN s : i < j => s[i] # s[j] /\ task[s[i]].hint <= task[s[j]].hint
    BY DEF Listings
  <1>6. \A i, j \in DOMAIN s : i # j => s[i] # s[j] BY <1>1, <1>4, <1>5
  <1>7. s \in Injection(1..n, S) BY <1>2, <1>4, <1>6 DEF Injection, IsInjective
  <1>8. s \in Surjection(1..n, S) BY <1>1, <1>3, <1>7, FS_Injection DEF n
  <1>9. \A t \in S : \E j \in DOMAIN s : s[j] = t BY <1>4, <1>8 DEF Surjection
  <1>10. \A i \in DOMAIN s : s[i] \in S /\ task[s[i]].hint \in Int BY <1>2, <1>4, RowsTyped
  <1>11. \A i, j \in DOMAIN s : i <= j => task[s[i]].hint <= task[s[j]].hint
    BY <1>1, <1>4, <1>5, <1>10
  <1> QED BY <1>1, <1>3, <1>4, <1>6, <1>9, <1>10, <1>11

\* The slot is one of the listing, or the one behind it; it is next to the neighbour.
LEMMA SlotOfNeighbour ==
  ASSUME TypeOK, NEW S \in SUBSET Tasks, NEW s \in Listings(S), NEW p \in Place,
         p.side # "tail" => \E i \in DOMAIN s : s[i] = p.of
  PROVE  /\ Slot(s, p) \in 1..(Cardinality(DOMAIN s) + 1)
         /\ p.side = "tail" => Slot(s, p) = Cardinality(DOMAIN s) + 1
         /\ p.side = "before" => Slot(s, p) \in DOMAIN s /\ s[Slot(s, p)] = p.of
         /\ p.side = "after" => Slot(s, p) - 1 \in DOMAIN s /\ s[Slot(s, p) - 1] = p.of
  <1>1. Cardinality(DOMAIN s) \in Nat /\ DOMAIN s = 1..Cardinality(DOMAIN s) BY ListingOrder
  <1>2. CASE p.side = "tail" BY <1>1, <1>2 DEF Slot
  <1>3. CASE p.side # "tail"
    <2>1. PICK i \in DOMAIN s : i = Position(s, p.of) /\ s[i] = p.of BY <1>3 DEF Position
    <2>2. p.side \in {"before", "after"} BY <1>3 DEF Place
    <2>3. p.side = "before" => Slot(s, p) = i BY <1>3, <2>1 DEF Slot
    <2>4. p.side = "after" => Slot(s, p) = i + 1 BY <1>3, <2>1 DEF Slot
    <2> QED BY <1>1, <1>3, <2>1, <2>2, <2>3, <2>4
  <1> QED BY <1>2, <1>3

\* The hint of a slot lies between all that stand before it and all behind.
LEMMA KeyOfSlot ==
  ASSUME TypeOK, NEW f \in Nat \ {0}, Multiple(Gap, 2 * f),
         \A t \in Tasks : Multiple(task[t].hint, 2 * f),
         NEW S \in SUBSET Tasks, NEW s \in Listings(S),
         NEW i \in 1..(Cardinality(DOMAIN s) + 1),
         HintBetween(HintAt(s, i - 1), HintAt(s, i)) # None
  PROVE  LET h == HintBetween(HintAt(s, i - 1), HintAt(s, i))
         IN /\ h \in Int /\ Multiple(h, f)
            /\ \A j \in DOMAIN s : j < i => task[s[j]].hint < h
            /\ \A j \in DOMAIN s : j >= i => h < task[s[j]].hint
  <1> DEFINE p == HintAt(s, i - 1)
             n == HintAt(s, i)
             h == HintBetween(p, n)
  <1>1. /\ Cardinality(DOMAIN s) \in Nat /\ DOMAIN s = 1..Cardinality(DOMAIN s)
        /\ \A k, j \in DOMAIN s : k <= j => task[s[k]].hint <= task[s[j]].hint
        /\ \A k \in DOMAIN s : s[k] \in Tasks /\ task[s[k]].hint \in Int
    BY ListingOrder
  <1>2. i \in Int /\ i - 1 \in Int BY <1>1
  <1>3. p \in Hints /\ n \in Hints BY <1>2, HintAtTyped
  <1>4. \A k \in DOMAIN s : task[s[k]].hint # None BY <1>1, NoneIsApart
  <1>5. /\ i - 1 \in DOMAIN s => p = task[s[i - 1]].hint /\ p # None
        /\ i - 1 \notin DOMAIN s => p = None
        /\ i \in DOMAIN s => n = task[s[i]].hint /\ n # None
        /\ i \notin DOMAIN s => n = None
    BY <1>4 DEF HintAt
  <1>6. (p # None => Multiple(p, 2 * f)) /\ (n # None => Multiple(n, 2 * f)) BY <1>1, <1>5
  <1> HIDE DEF p, n
  <1>7. /\ h \in Int /\ Multiple(h, f)
        /\ p # None => p < h
        /\ n # None => h < n
    BY <1>3, <1>6, KeyBetween DEF p, n
  <1> HIDE DEF h
  <1>8. ASSUME NEW j \in DOMAIN s, j < i PROVE task[s[j]].hint < h
    <2>1. i - 1 \in DOMAIN s /\ j <= i - 1 BY <1>1, <1>8
    <2> QED BY <1>1, <1>5, <1>7, <2>1
  <1>9. ASSUME NEW j \in DOMAIN s, j >= i PROVE h < task[s[j]].hint
    <2>1. i \in DOMAIN s /\ i <= j BY <1>1, <1>9
    <2> QED BY <1>1, <1>5, <1>7, <2>1
  <1> QED BY <1>7, <1>8, <1>9 DEF h, p, n

\* What a move writes: nothing, its task's new hint, or a hint for each task of the
\* bucket.  j < i stands before the task, j >= i behind it.
Skip(i, j) == IF j < i THEN j ELSE j + 1
LEMMA MoveCases ==
  ASSUME TypeOK, NEW S \in SUBSET Tasks, NEW s \in Listings(S), NEW x \in Transaction,
         x.place.side # "tail" => \E i \in DOMAIN s : s[i] = x.place.of
  PROVE  LET i == Slot(s, x.place)
             h == HintBetween(HintAt(s, i - 1), HintAt(s, i))
         IN \/ /\ h # None /\ MoveWrites(x, s) = {}
               /\ x.bucket = x.read.bucket /\ h = x.read.hint
            \/ h # None /\ MoveWrites(x, s) = {Placed(x.row, x.read.ver, x.bucket, h)}
            \/ h = None /\ MoveWrites(x, s) = Rebalanced(x, s, i)
  BY DEF MoveWrites

LEMMA MoveParted ==
  ASSUME TypeOK, NEW f \in Nat \ {0}, Multiple(Gap, 2 * f),
         \A t \in Tasks : Multiple(task[t].hint, 2 * f),
         NEW S \in SUBSET Tasks, NEW s \in Listings(S), NEW x \in Transaction, x.row \in Tasks \ S,
         x.place.side # "tail" => \E i \in DOMAIN s : s[i] = x.place.of
  PROVE  /\ \A w \in MoveWrites(x, s) : Multiple(w.hint, f)
         /\ MoveWrites(x, s) # {} => \E w \in MoveWrites(x, s) : w.row = x.row
         /\ \A v, w \in MoveWrites(x, s) : v # w => v.row # w.row /\ v.hint # w.hint
         /\ \A t \in S : \/ \E w \in MoveWrites(x, s) : w.row = t
                         \/ \A w \in MoveWrites(x, s) : w.hint # task[t].hint
  <1> DEFINE i == Slot(s, x.place)
             h == HintBetween(HintAt(s, i - 1), HintAt(s, i))
             n == Cardinality(DOMAIN s)
  <1>1. x.place \in Place BY DEF Transaction
  <1>2. i \in 1..(n + 1) BY <1>1, SlotOfNeighbour
  <1>3. /\ n \in Nat /\ DOMAIN s = 1..n
        /\ \A t \in S : \E j \in DOMAIN s : s[j] = t
        /\ \A j, k \in DOMAIN s : j # k => s[j] # s[k]
        /\ \A j \in DOMAIN s : s[j] \in S /\ task[s[j]].hint \in Int
    BY ListingOrder
  <1>4. Multiple(Gap, f) BY BoundsArePositive, MultipleOfDouble
  <1>5. CASE MoveWrites(x, s) = {} BY <1>3, <1>5
  <1>6. CASE h # None /\ MoveWrites(x, s) = {Placed(x.row, x.read.ver, x.bucket, h)}
    <2>1. /\ h \in Int /\ Multiple(h, f)
          /\ \A j \in DOMAIN s : j < i => task[s[j]].hint < h
          /\ \A j \in DOMAIN s : j >= i => h < task[s[j]].hint
      BY <1>2, <1>6, KeyOfSlot
    <2> HIDE DEF h
    <2>2. \A j \in DOMAIN s : task[s[j]].hint # h BY <1>2, <1>3, <2>1
    <2>3. \A t \in S : task[t].hint # h BY <1>3, <2>2
    <2>4. Placed(x.row, x.read.ver, x.bucket, h).row = x.row
          /\ Placed(x.row, x.read.ver, x.bucket, h).hint = h BY DEF Placed
    <2> QED BY <1>6, <2>1, <2>3, <2>4
  <1>7. CASE MoveWrites(x, s) = Rebalanced(x, s, i)
    <2> DEFINE own == Placed(x.row, x.read.ver, x.bucket, HintsForN(i))
               other(j) == Placed(s[j], task[s[j]].ver, x.bucket, HintsForN(Skip(i, j)))
    <2>1. Rebalanced(x, s, i) = {other(j) : j \in DOMAIN s} \cup {own} BY DEF Rebalanced, Skip
    <2>2. i \in Int /\ \A j \in DOMAIN s : Skip(i, j) \in Int /\ Skip(i, j) # i
      BY <1>2, <1>3 DEF Skip
    <2>3. \A j, k \in DOMAIN s : j # k => Skip(i, j) # Skip(i, k)
      BY <1>2, <1>3 DEF Skip
    <2> HIDE DEF i
    <2>4. own.row = x.row /\ own.hint = HintsForN(i)
          /\ \A j \in DOMAIN s : other(j).row = s[j] /\ other(j).hint = HintsForN(Skip(i, j))
      BY DEF Placed
    <2> HIDE DEF own, other
    <2>12. \A k, m \in Int : k # m => HintsForN(k) # HintsForN(m) BY FreshHints
    <2>13. \A j \in DOMAIN s : s[j] # x.row BY <1>3
    <2>5. \A j \in DOMAIN s : own.row # other(j).row /\ own.hint # other(j).hint
      BY <2>13, <2>2, <2>4, <2>12
    <2>6. \A j, k \in DOMAIN s : j # k => other(k).row # other(j).row /\ other(k).hint # other(j).hint
      BY <1>3, <2>2, <2>3, <2>4, <2>12
    <2>7. Multiple(own.hint, f) /\ \A j \in DOMAIN s : Multiple(other(j).hint, f)
      BY <1>4, <2>2, <2>4, FreshMultiple
    <2>8. \A w \in MoveWrites(x, s) : w = own \/ \E j \in DOMAIN s : w = other(j) BY <1>7, <2>1
    <2>9. own \in MoveWrites(x, s) /\ \A j \in DOMAIN s : other(j) \in MoveWrites(x, s)
      BY <1>7, <2>1
    <2>10. \A v, w \in MoveWrites(x, s) : v # w => v.row # w.row /\ v.hint # w.hint
      BY <2>5, <2>6, <2>8
    <2>11. \A t \in S : \E w \in MoveWrites(x, s) : w.row = t BY <1>3, <2>4, <2>9
    <2> QED BY <2>4, <2>7, <2>8, <2>9, <2>10, <2>11
  <1> QED BY <1>1, <1>5, <1>6, <1>7, MoveCases

-----------------------------------------------------------------------------
(* The invariants of the order.                                            *)

Half == CHOOSE half \in [0..MaxEdits -> 1..Gap] :
          half[0] = Gap /\ \A i \in 1..MaxEdits : half[i - 1] = 2 * half[i]

\* Edits that have yet to list: the others have put one hint half way, at most.
Pending == {e \in Editors : tx[e].stage \in {"lock", "list"}}
Halvings == edits - Cardinality(Pending)

\* Every hint, and every hint to be written, leaves room for those to come.
Grained(g) ==
    /\ Multiple(Gap, g)
    /\ \A t \in Tasks : Multiple(task[t].hint, g)
    /\ \A e \in Editors : \A w \in tx[e].todo : Multiple(w.hint, g)
Room ==
    /\ IsFiniteSet(Pending) /\ edits <= MaxEdits /\ Halvings \in 0..MaxEdits
    /\ Grained(Half[Halvings])

\* The hints a move or a creation is to write differ from each other and from those of
\* the bucket, but for the tasks that came since it was listed.
Parted(x) ==
    x.stage = "write" /\ x.op \in {"move", "create"} /\ x.todo # {} =>
        /\ x.row \in Written(x)
        /\ \A v, w \in x.todo : v # w => v.row # w.row /\ v.hint # w.hint
        /\ \A t \in LiveIn(x.bucket) :
              t \in x.late \/ t \in Written(x) \/ \A w \in x.todo : w.hint # task[t].hint

\* The hint for a slot, if there is one, goes between what stands before it and behind.
Fits(s, i, h) ==
    h # None => \A j \in DOMAIN s : /\ j < i => task[s[j]].hint < h
                                    /\ j >= i => h < task[s[j]].hint
KeyFits(s, place) ==
    LET i == Slot(s, place) IN Fits(s, i, HintBetween(HintAt(s, i - 1), HintAt(s, i)))

\* As long as nobody else committed, what a move is to write is what it would write now.
Intended(x) ==
    x.op = "move" =>
        /\ x.row \notin x.late => task[x.row] = x.read
        /\ x.stage = "write" /\ x.late = {} =>
              \E s \in Listings(LiveIn(x.bucket) \ {x.row}) :
                 /\ x.place.side # "tail" => \E i \in DOMAIN s : s[i] = x.place.of
                 /\ x.todo = MoveWrites(x, s)
                 /\ KeyFits(s, x.place)

OrderInv == \A e \in Editors : Busy(e) => Parted(tx[e]) /\ Intended(tx[e])

LEMMA HalfTyped ==
  /\ Half \in [0..MaxEdits -> 1..Gap] /\ Half[0] = Gap
  /\ \A i \in 1..MaxEdits : Half[i - 1] = 2 * Half[i]
  BY GapCanBeHalved DEF Half

LEMMA HalfOf ==
  ASSUME NEW k \in 0..MaxEdits
  PROVE  Half[k] \in Nat \ {0} /\ (k + 1 \in 0..MaxEdits => Half[k] = 2 * Half[k + 1])
  <1>1. Half[k] \in 1..Gap BY HalfTyped
  <1>2. Half[k] \in Nat \ {0} BY <1>1, BoundsArePositive
  <1>3. ASSUME k + 1 \in 0..MaxEdits PROVE Half[k] = 2 * Half[k + 1]
    <2>1. k + 1 \in 1..MaxEdits /\ (k + 1) - 1 = k BY <1>3, BoundsArePositive
    <2> QED BY <2>1, HalfTyped
  <1> QED BY <1>2, <1>3

-----------------------------------------------------------------------------
(* The room that is left.                                                  *)

Waits(x) == x.stage \in {"lock", "list"}

\* An edit that begins is counted with the ones to list, and leaves them when it lists.
LEMMA HalvingsStep ==
  ASSUME TypeOK, Room, NEW e \in Editors, NEW y, tx' = [tx EXCEPT ![e] = y],
         \/ edits' = edits /\ (Waits(y) => Waits(tx[e]))
         \/ edits' = edits + 1 /\ edits < MaxEdits /\ tx[e].stage = "idle"
  PROVE  /\ IsFiniteSet(Pending)' /\ edits' <= MaxEdits /\ Halvings' \in 0..MaxEdits
         /\ Halvings' \in {Halvings, Halvings + 1}
         /\ (Waits(tx[e]) \/ edits' = edits + 1) /\ ~Waits(y) => Halvings' = Halvings + 1
  <1> DEFINE P == Pending
  <1>1. \A f \in Editors : tx'[f] = IF f = e THEN y ELSE tx[f] BY DEF TypeOK
  <1>2. P = {f \in Editors : Waits(tx[f])} BY DEF Pending, Waits
  <1>3. Pending' = {f \in Editors : Waits(tx'[f])} BY DEF Pending, Waits
  <1>4. Pending' = IF Waits(y) THEN P \cup {e} ELSE P \ {e} BY <1>1, <1>2, <1>3
  <1>5. e \in P <=> Waits(tx[e]) BY <1>2
  <1>6. IsFiniteSet(P) /\ Cardinality(P) \in Nat /\ edits \in Nat /\ MaxEdits \in Nat
    BY FS_CardinalityType, BoundsArePositive DEF Room, TypeOK
  <1>7. IsFiniteSet(Pending') /\ Cardinality(Pending') =
          IF Waits(y) THEN IF Waits(tx[e]) THEN Cardinality(P) ELSE Cardinality(P) + 1
          ELSE IF Waits(tx[e]) THEN Cardinality(P) - 1 ELSE Cardinality(P)
    BY <1>4, <1>5, <1>6, FS_AddElement, FS_RemoveElement
  <1>8. Cardinality(Pending') \in Nat BY <1>7, FS_CardinalityType
  <1>9. Halvings = edits - Cardinality(P) /\ Halvings' = edits' - Cardinality(Pending')
    BY DEF Halvings
  <1>10. Halvings \in 0..MaxEdits /\ edits <= MaxEdits BY DEF Room
  <1>11. tx[e].stage = "idle" => ~Waits(tx[e]) BY DEF Waits
  <1>12. IsFiniteSet(Pending)' BY <1>7
  <1> HIDE DEF P
  <1>13. CASE Waits(y)
    <2>1. Cardinality(Pending') = IF Waits(tx[e]) THEN Cardinality(P) ELSE Cardinality(P) + 1
      BY <1>7, <1>13
    <2> QED BY <1>6, <1>8, <1>9, <1>10, <1>11, <1>12, <1>13, <2>1
  <1>14. CASE ~Waits(y)
    <2>1. Cardinality(Pending') = IF Waits(tx[e]) THEN Cardinality(P) - 1 ELSE Cardinality(P)
      BY <1>7, <1>14
    <2> QED BY <1>6, <1>8, <1>9, <1>10, <1>11, <1>12, <1>14, <2>1
  <1> QED BY <1>13, <1>14

\* What is fine enough stays so.
LEMMA GrainedFiner ==
  ASSUME TypeOK, Room, NEW k \in 0..MaxEdits, k \in {Halvings, Halvings + 1}
  PROVE  /\ Half[k] \in Nat \ {0} /\ Grained(Half[k])
         /\ k = Halvings + 1 => Half[Halvings] = 2 * Half[k]
  <1>1. Halvings \in 0..MaxEdits /\ Grained(Half[Halvings]) BY DEF Room
  <1>2. Half[k] \in Nat \ {0} BY HalfOf
  <1>3. k = Halvings + 1 => Half[Halvings] = 2 * Half[k] BY <1>1, HalfOf
  <1>4. CASE k = Halvings + 1
    <2> DEFINE f == Half[k]
    <2>1. Grained(2 * f) /\ f \in Nat \ {0} BY <1>1, <1>2, <1>3, <1>4
    <2> HIDE DEF f
    <2>2. Multiple(Gap, f) BY <2>1, MultipleOfDouble, BoundsArePositive DEF Grained
    <2>3. \A t \in Tasks : Multiple(task[t].hint, f)
      BY <2>1, RowsTyped, MultipleOfDouble DEF Grained
    <2>4. \A e \in Editors : \A w \in tx[e].todo : w.hint \in Int
      BY DEF TypeOK, Transaction, Write
    <2>5. \A e \in Editors : \A w \in tx[e].todo : Multiple(w.hint, f)
      BY <2>1, <2>4, MultipleOfDouble DEF Grained
    <2> QED BY <1>2, <1>3, <2>2, <2>3, <2>5 DEF Grained, f
  <1> QED BY <1>1, <1>2, <1>3, <1>4

LEMMA RoomAfter ==
  ASSUME TypeOK, Room, NEW e \in Editors, NEW y, tx' = [tx EXCEPT ![e] = y], UNCHANGED task,
         \/ edits' = edits /\ (Waits(y) => Waits(tx[e]))
         \/ edits' = edits + 1 /\ edits < MaxEdits /\ tx[e].stage = "idle",
         \A w \in y.todo : Multiple(w.hint, Half[Halvings'])
  PROVE  Room'
  <1>1. PICK k : k = Halvings' OBVIOUS
  <1>2. /\ IsFiniteSet(Pending)' /\ edits' <= MaxEdits /\ k \in 0..MaxEdits
        /\ k \in {Halvings, Halvings + 1}
    BY <1>1, HalvingsStep
  <1>3. Grained(Half[k]) BY <1>2, GrainedFiner
  <1>4. \A f \in Editors : tx'[f] = IF f = e THEN y ELSE tx[f] BY DEF TypeOK
  <1>5. Grained(Half[k])' BY <1>1, <1>3, <1>4 DEF Grained
  <1> QED BY <1>1, <1>2, <1>5 DEF Room

LEMMA ZeroMultiple == \A f \in Nat : Multiple(0, f)
  <1>1. \A f \in Nat : 0 = 0 * f /\ 0 \in Int OBVIOUS
  <1> QED BY <1>1 DEF Multiple

LEMMA HalvingsAre ==
  ASSUME TypeOK, Room, NEW e \in Editors, NEW y, tx' = [tx EXCEPT ![e] = y],
         \/ edits' = edits /\ (Waits(y) => Waits(tx[e]))
         \/ edits' = edits + 1 /\ edits < MaxEdits /\ tx[e].stage = "idle"
  PROVE  Half[Halvings'] \in Nat \ {0}
  BY HalvingsStep, HalfOf

-----------------------------------------------------------------------------
(* What is to be written, step by step.                                    *)

LEMMA SameListings ==
  ASSUME UNCHANGED task
  PROVE  /\ \A S : Listings(S)' = Listings(S)
         /\ \A x, s : MoveWrites(x, s)' = MoveWrites(x, s)
         /\ \A b : LiveIn(b)' = LiveIn(b)
         /\ \A s, p : KeyFits(s, p)' = KeyFits(s, p)
  <1>1. \A S : Listings(S)' = Listings(S) BY DEF Listings
  <1>2. \A s, i : HintAt(s, i)' = HintAt(s, i) BY DEF HintAt
  <1>3. \A x, s, i : Rebalanced(x, s, i)' = Rebalanced(x, s, i) BY DEF Rebalanced
  <1>4. \A x, s : MoveWrites(x, s)' = MoveWrites(x, s) BY <1>2, <1>3 DEF MoveWrites
  <1>5. \A b : LiveIn(b)' = LiveIn(b) BY DEF LiveIn
  <1>6. \A s, i, h : Fits(s, i, h)' = Fits(s, i, h) BY DEF Fits
  <1>7. \A s, p : KeyFits(s, p)' = KeyFits(s, p) BY <1>2, <1>6, Zenon DEF KeyFits, Slot
  <1> QED BY <1>1, <1>4, <1>5, <1>7

LEMMA OrderKept ==
  ASSUME TypeOK, OrderInv, NEW e \in Editors, NEW y, tx' = [tx EXCEPT ![e] = y], UNCHANGED task,
         y.stage # "idle" => Parted(y) /\ Intended(y)
  PROVE  OrderInv'
  <1>1. \A f \in Editors : tx'[f] = IF f = e THEN y ELSE tx[f] BY DEF TypeOK
  <1>2. ASSUME NEW f \in Editors, tx'[f].stage # "idle"
        PROVE  Parted(tx[f])' /\ Intended(tx[f])'
    <2>1. PICK z : z = tx'[f] OBVIOUS
    <2>2. Parted(z) /\ Intended(z) BY <1>1, <1>2, <2>1 DEF OrderInv, Busy
    <2>3. Parted(z)' BY <2>2, SameListings DEF Parted, Written
    <2>4. Intended(z)' BY <2>2, SameListings DEF Intended
    <2>5. Parted(tx[f])' BY <2>1, <2>3 DEF Parted, Written
    <2>6. Intended(tx[f])' BY <2>1, <2>4 DEF Intended
    <2> QED BY <2>5, <2>6
  <1> QED BY <1>2 DEF OrderInv, Busy

\* A hint that updateTask is given takes one halving, as one that moveTask computes.
LEMMA NamedGrain ==
  ASSUME TypeOK, NEW f \in Nat \ {0}, Grained(2 * f), NEW h \in NamedHints
  PROVE  Multiple(h, f)
  <1>1. Multiple(Gap, 2 * f) /\ \A t \in Tasks : Multiple(task[t].hint, 2 * f) BY DEF Grained
  <1>2. CASE \E t \in Tasks : h = task[t].hint BY <1>1, <1>2, RowsTyped, MultipleOfDouble
  <1>3. ASSUME NEW p \in {task[t].hint : t \in Tasks} \cup {None},
               NEW n \in {task[t].hint : t \in Tasks} \cup {None}, h = HintBetween(p, n)
        PROVE  Multiple(h, f)
    <2>1. p \in Hints /\ n \in Hints BY RowsTyped DEF Hints
    <2>2. (p # None => Multiple(p, 2 * f)) /\ (n # None => Multiple(n, 2 * f)) BY <1>1
    <2>3. HintBetween(p, n) # None BY <1>3 DEF NamedHints
    <2> QED BY <1>1, <1>3, <2>1, <2>2, <2>3, KeyBetween
  <1> QED BY <1>2, <1>3, NamedTyped

LEMMA UpdateOrdered ==
  ASSUME TypeOK, Room, OrderInv, NEW e \in Editors, NEW t \in Tasks, NEW b \in Columns,
         NEW h \in NamedHints, NEW v \in Nat, UpdateTask(e, t, b, h, v)
  PROVE  Room' /\ OrderInv'
  <1> DEFINE y == Request("update", "write", t, task[t], v, None, Tail, {Put(t, b, h)})
  <1>1. /\ tx' = [tx EXCEPT ![e] = y] /\ UNCHANGED task
        /\ edits' = edits + 1 /\ edits < MaxEdits /\ tx[e].stage = "idle"
    BY DEF UpdateTask, Put, Open
  <1>2. y.op = "update" /\ y.stage = "write" /\ y.todo = {Put(t, b, h)} /\ Put(t, b, h).hint = h
    BY DEF Request, Put
  <1> HIDE DEF y
  <1>3. ~Waits(y) BY <1>2 DEF Waits
  <1>4. PICK k : k = Halvings' OBVIOUS
  <1>5. k \in 0..MaxEdits /\ k = Halvings + 1 BY <1>1, <1>3, <1>4, HalvingsStep
  <1>6. PICK f : f = Half[k] OBVIOUS
  <1>7. f \in Nat \ {0} /\ Half[Halvings] = 2 * f BY <1>5, <1>6, GrainedFiner
  <1>8. Grained(2 * f) BY <1>7 DEF Room
  <1>9. \A w \in y.todo : Multiple(w.hint, f) BY <1>2, <1>7, <1>8, NamedGrain
  <1>10. Parted(y) /\ Intended(y) BY <1>2 DEF Parted, Intended
  <1>11. Room' BY <1>1, <1>4, <1>6, <1>9, RoomAfter
  <1> QED BY <1>1, <1>10, <1>11, OrderKept

\* Another request that begins knows its row, and has hints to write only later.
LEMMA RequestsOrdered ==
  ASSUME TypeOK, Room, OrderInv, NEW e \in Editors, Begins(e)
  PROVE  Room' /\ OrderInv'
  <1>0. CASE \E t \in Tasks, b \in Columns, h \in NamedHints :
                \E v \in 1..task[t].ver : UpdateTask(e, t, b, h, v)
    BY <1>0, UpdateOrdered
  <1>5. SUFFICES ASSUME ~\E t \in Tasks, b \in Columns, h \in NamedHints :
                          \E v \in 1..task[t].ver : UpdateTask(e, t, b, h, v)
                 PROVE  Room' /\ OrderInv'
    BY <1>0
  <1>1. PICK y : /\ Open(e, y)
                 /\ \A w \in y.todo : w.hint = 0
                 /\ Parted(y) /\ Intended(y)
    <2>1. \A op, r, read : Sets(op, r, read).hint = 0 BY DEF Sets
    <2>2. ASSUME NEW t \in Tasks, NEW op \in {"complete", "reopen", "delete"},
                 NEW v \in 1..task[t].ver, EditTask(e, op, t, v)
          PROVE  \E y : Open(e, y) /\ (\A w \in y.todo : w.hint = 0) /\ Parted(y) /\ Intended(y)
      <3> DEFINE y == Request(op, "write", t, task[t], v, None, Tail, {Sets(op, t, task[t])})
      <3>1. Open(e, y) BY <2>2 DEF EditTask
      <3>2. y.op = op /\ y.todo = {Sets(op, t, task[t])} BY DEF Request
      <3> HIDE DEF y
      <3> QED BY <2>1, <3>1, <3>2 DEF Parted, Intended
    <2>3. ASSUME NEW t \in Tasks, RestoreTask(e, t)
          PROVE  \E y : Open(e, y) /\ (\A w \in y.todo : w.hint = 0) /\ Parted(y) /\ Intended(y)
      <3> DEFINE y == Request("restore", "write", t, task[t], task[t].ver, None, Tail,
                              {Sets("restore", t, task[t])})
      <3>1. Open(e, y) BY <2>3 DEF RestoreTask
      <3>2. y.op = "restore" /\ y.todo = {Sets("restore", t, task[t])} BY DEF Request
      <3> HIDE DEF y
      <3> QED BY <2>1, <3>1, <3>2 DEF Parted, Intended
    <2>4. ASSUME NEW t \in Tasks, NEW b \in Columns, NEW p \in Places, NEW v \in 1..task[t].ver,
                 MoveTask(e, t, b, p, v)
          PROVE  \E y : Open(e, y) /\ (\A w \in y.todo : w.hint = 0) /\ Parted(y) /\ Intended(y)
      <3> DEFINE y == Request("move", "list", t, task[t], v, b, p, {})
      <3>1. Open(e, y) BY <2>4 DEF MoveTask
      <3>2. y.todo = {} /\ y.stage = "list" /\ y.row = t /\ y.read = task[t] BY DEF Request
      <3> HIDE DEF y
      <3> QED BY <3>1, <3>2 DEF Parted, Intended
    <2>5. ASSUME NEW t \in Tasks, NEW b \in Columns, CreateTask(e, t, b)
          PROVE  \E y : Open(e, y) /\ (\A w \in y.todo : w.hint = 0) /\ Parted(y) /\ Intended(y)
      <3> DEFINE y == Request("create", "list", t, task[t], task[t].ver, b, Tail, {})
      <3>1. Open(e, y) BY <2>5 DEF CreateTask
      <3>2. y.todo = {} /\ y.stage = "list" /\ y.op = "create" BY DEF Request
      <3> HIDE DEF y
      <3> QED BY <3>1, <3>2 DEF Parted, Intended
    <2>6. ASSUME NEW b \in Buckets, NEW v \in 1..bucket[b].ver, UpdateBucket(e, b, v)
          PROVE  \E y : Open(e, y) /\ (\A w \in y.todo : w.hint = 0) /\ Parted(y) /\ Intended(y)
      <3> DEFINE y == Request("rename", "write", b, bucket[b], v, None, Tail,
                              {Sets("rename", b, bucket[b])})
      <3>1. Open(e, y) BY <2>6 DEF UpdateBucket
      <3>2. y.op = "rename" /\ y.todo = {Sets("rename", b, bucket[b])} BY DEF Request
      <3> HIDE DEF y
      <3> QED BY <2>1, <3>1, <3>2 DEF Parted, Intended
    <2>7. ASSUME NEW b \in Buckets, NEW v \in 1..bucket[b].ver, DeleteBucket(e, b, v)
          PROVE  \E y : Open(e, y) /\ (\A w \in y.todo : w.hint = 0) /\ Parted(y) /\ Intended(y)
      <3> DEFINE y == Request("deleteBucket", "lock", b, bucket[b], v, b, Tail, {})
      <3>1. Open(e, y) BY <2>7 DEF DeleteBucket
      <3>2. y.todo = {} /\ y.op = "deleteBucket" BY DEF Request
      <3> HIDE DEF y
      <3> QED BY <3>1, <3>2 DEF Parted, Intended
    <2> QED BY <1>5, <2>2, <2>3, <2>4, <2>5, <2>6, <2>7 DEF Begins
  <1>2. /\ tx' = [tx EXCEPT ![e] = y] /\ UNCHANGED task
        /\ edits' = edits + 1 /\ edits < MaxEdits /\ tx[e].stage = "idle"
    BY <1>1 DEF Open
  <1>3. \A w \in y.todo : Multiple(w.hint, Half[Halvings'])
    BY <1>1, <1>2, HalvingsAre, ZeroMultiple
  <1> QED BY <1>1, <1>2, <1>3, RoomAfter, OrderKept

LEMMA MoveListed ==
  ASSUME TypeOK, BoardInv, Room, OrderInv, NEW e \in Editors, ListForMove(e)
  PROVE  Room' /\ OrderInv'
  <1> DEFINE x == tx[e]
             late == x.late \cap {x.row, x.bucket}
             S == LiveIn(x.bucket) \ {x.row}
  <1>1. PICK s \in Listings(S) :
          /\ x.place.side # "tail" => \E i \in DOMAIN s : s[i] = x.place.of
          /\ Lists(e, "move", MoveWrites(x, s))
    BY DEF ListForMove
  <1> DEFINE todo == MoveWrites(x, s)
             y == Goes(x, "write", todo, late)
  <1>2. /\ x.op = "move" /\ x.stage = "list" /\ tx' = [tx EXCEPT ![e] = y]
        /\ UNCHANGED task /\ edits' = edits
    BY <1>1 DEF Lists
  <1>3. x.row \in Tasks /\ x \in Transaction /\ S \in SUBSET Tasks
    BY <1>2 DEF BoardInv, Busy, Shape, TypeOK, LiveIn
  <1>4. Waits(x) /\ ~Waits(y) /\ y.todo = todo BY <1>2 DEF Waits, Goes
  <1>5. PICK k : k = Halvings' OBVIOUS
  <1>6. k \in 0..MaxEdits /\ k = Halvings + 1 BY <1>2, <1>4, <1>5, HalvingsStep
  <1>7. PICK f : f = Half[k] OBVIOUS
  <1>8. f \in Nat \ {0} /\ Half[Halvings] = 2 * f BY <1>6, <1>7, GrainedFiner
  <1>9. Grained(2 * f) BY <1>8 DEF Room
  <1>10. Multiple(Gap, 2 * f) /\ \A t \in Tasks : Multiple(task[t].hint, 2 * f)
    BY <1>9 DEF Grained
  <1>11. /\ \A w \in todo : Multiple(w.hint, f)
         /\ todo # {} => \E w \in todo : w.row = x.row
         /\ \A v, w \in todo : v # w => v.row # w.row /\ v.hint # w.hint
         /\ \A t \in S : \/ \E w \in todo : w.row = t
                         \/ \A w \in todo : w.hint # task[t].hint
    BY <1>1, <1>3, <1>8, <1>10, MoveParted
  <1>12. Intended(x) BY <1>2 DEF OrderInv, Busy
  <1> HIDE DEF todo, S
  <1>13. /\ y.row = x.row /\ y.bucket = x.bucket /\ y.todo = todo /\ y.op = "move"
         /\ y.late = late /\ y.read = x.read /\ y.place = x.place
    BY <1>2 DEF Goes
  <1>14. \A t \in LiveIn(x.bucket) : t \in S \/ t = x.row BY DEF S
  <1>15. Parted(y)
    BY <1>11, <1>13, <1>14 DEF Parted, Written
  <1>16. MoveWrites(y, s) = todo
    <2> HIDE DEF y
    <2>1. \A i : Rebalanced(y, s, i) = Rebalanced(x, s, i) BY <1>13, Zenon DEF Rebalanced
    <2> QED BY <1>13, <2>1, Zenon DEF MoveWrites, todo
  <1>17. KeyFits(s, x.place)
    <2> DEFINE i == Slot(s, x.place)
               h == HintBetween(HintAt(s, i - 1), HintAt(s, i))
    <2>1. i \in 1..(Cardinality(DOMAIN s) + 1)
      BY <1>1, <1>3, SlotOfNeighbour DEF Transaction
    <2>2. h # None => /\ \A j \in DOMAIN s : j < i => task[s[j]].hint < h
                      /\ \A j \in DOMAIN s : j >= i => h < task[s[j]].hint
      BY <1>1, <1>3, <1>8, <1>10, <2>1, KeyOfSlot
    <2> QED BY <2>2 DEF KeyFits, Fits
  <1>19. Intended(y)
    BY <1>1, <1>2, <1>12, <1>13, <1>16, <1>17 DEF Intended, S
  <1>18. Room'
    BY <1>2, <1>4, <1>5, <1>7, <1>11, RoomAfter
  <1> QED BY <1>2, <1>15, <1>18, <1>19, OrderKept

LEMMA CreateListed ==
  ASSUME TypeOK, BoardInv, Room, OrderInv, NEW e \in Editors, ListForCreate(e)
  PROVE  Room' /\ OrderInv'
  <1> DEFINE x == tx[e]
             late == x.late \cap {x.row, x.bucket}
             B == LiveIn(x.bucket)
  <1>1. PICK h \in TailHint(x.bucket) :
          Lists(e, "create", {Created(x, h)})
    BY DEF ListForCreate
  <1> DEFINE w == Created(x, h)
             y == Goes(x, "write", {w}, late)
  <1>2. /\ x.op = "create" /\ x.stage = "list" /\ tx' = [tx EXCEPT ![e] = y]
        /\ UNCHANGED task /\ edits' = edits
    BY <1>1 DEF Lists
  <1>3. Waits(x) /\ ~Waits(y) BY <1>2 DEF Waits, Goes
  <1>4. PICK k : k = Halvings' OBVIOUS
  <1>5. k \in 0..MaxEdits /\ k = Halvings + 1 BY <1>2, <1>3, <1>4, HalvingsStep
  <1>6. PICK f : f = Half[k] OBVIOUS
  <1>7. f \in Nat \ {0} /\ Grained(f) BY <1>5, <1>6, GrainedFiner
  <1>8. Multiple(Gap, f) /\ \A t \in Tasks : Multiple(task[t].hint, f)
    BY <1>7 DEF Grained
  <1>9. Multiple(h, f) /\ \A t \in B : task[t].hint # h
    <2>1. CASE B = {}
      <3>1. h = 0 BY <1>1, <2>1 DEF TailHint, HintBetween
      <3> QED BY <1>7, <2>1, <3>1, ZeroMultiple
    <2>2. CASE B # {}
      <3>1. PICK t \in B : /\ h = HintBetween(task[t].hint, None)
                           /\ \A u \in B : task[u].hint <= task[t].hint
        BY <1>1, <2>2 DEF TailHint
      <3>2. \A u \in B : u \in Tasks /\ task[u].hint \in Int BY RowsTyped DEF LiveIn
      <3>3. task[t].hint # None BY <3>2, NoneIsApart
      <3>4. h = task[t].hint + Gap BY <3>1, <3>3 DEF HintBetween
      <3>5. task[t].hint \in Int /\ Multiple(task[t].hint, f) /\ Gap \in Int
        BY <1>8, <3>2, BoundsArePositive
      <3>8. Multiple(h, f) BY <1>7, <1>8, <3>4, <3>5, MultiplesAdd
      <3>6. \A u \in B : task[u].hint < h BY <3>1, <3>2, <3>4, BoundsArePositive
      <3> HIDE DEF B
      <3>7. \A u \in B : task[u].hint # h BY <3>2, <3>6
      <3> QED BY <3>7, <3>8
    <2> QED BY <2>1, <2>2
  <1>10. w.row = x.row /\ w.hint = h BY DEF Created
  <1> HIDE DEF w
  <1>11. y.row = x.row /\ y.bucket = x.bucket /\ y.todo = {w} /\ y.op = "create"
    BY <1>2 DEF Goes
  <1>12. Parted(y) BY <1>9, <1>10, <1>11 DEF Parted, Written
  <1>13. Intended(y) BY <1>11 DEF Intended
  <1>14. Room'
    BY <1>2, <1>3, <1>4, <1>6, <1>9, <1>10, <1>11, RoomAfter
  <1> QED BY <1>2, <1>12, <1>13, <1>14, OrderKept

LEMMA StepsOrdered ==
  ASSUME TypeOK, BoardInv, Room, OrderInv, NEW e \in Editors,
         LockBucket(e) \/ ListForMove(e) \/ ListForCreate(e) \/ ListForDelete(e) \/ Abort(e)
  PROVE  Room' /\ OrderInv'
  <1> DEFINE x == tx[e]
             late == x.late \cap {x.row, x.bucket}
  <1>1. CASE LockBucket(e)
    <2> DEFINE y == Goes(x, "list", {}, x.late)
    <2>1. x.stage = "lock" /\ tx' = [tx EXCEPT ![e] = y] /\ UNCHANGED task /\ edits' = edits
      BY <1>1 DEF LockBucket
    <2>2. /\ y.stage = "list" /\ y.todo = {} /\ y.op = x.op /\ y.row = x.row /\ y.late = x.late
          /\ y.read = x.read
      BY DEF Goes
    <2>3. Intended(x) BY <2>1 DEF OrderInv, Busy
    <2> HIDE DEF y
    <2>4. Parted(y) /\ Intended(y) BY <2>2, <2>3 DEF Parted, Intended
    <2>5. Waits(x) BY <2>1 DEF Waits
    <2> QED BY <2>1, <2>2, <2>4, <2>5, RoomAfter, OrderKept
  <1>2. CASE ListForMove(e) BY <1>2, MoveListed
  <1>3. CASE ListForCreate(e) BY <1>3, CreateListed
  <1>4. CASE ListForDelete(e)
    <2> DEFINE todo == {Sets("deleteBucket", x.row, x.read)}
                       \cup {Sets("delete", t, task[t]) : t \in Doomed(x.bucket)}
               y == Goes(x, "write", todo, late)
    <2>1. /\ x.op = "deleteBucket" /\ x.stage = "list" /\ tx' = [tx EXCEPT ![e] = y]
          /\ UNCHANGED task /\ edits' = edits
      BY <1>4 DEF ListForDelete, Lists
    <2>2. \A w \in todo : w.hint = 0 BY DEF Sets
    <2>3. y.op = "deleteBucket" /\ y.todo = todo /\ y.stage = "write" BY <2>1 DEF Goes
    <2> HIDE DEF todo, y
    <2>4. ~Waits(y) BY <2>3 DEF Waits
    <2>5. \A w \in y.todo : Multiple(w.hint, Half[Halvings'])
      BY <2>1, <2>2, <2>3, <2>4, HalvingsAre, ZeroMultiple
    <2>6. Parted(y) /\ Intended(y) BY <2>3 DEF Parted, Intended
    <2> QED BY <2>1, <2>4, <2>5, <2>6, RoomAfter, OrderKept
  <1>5. CASE Abort(e)
    <2>1. tx' = [tx EXCEPT ![e] = Idle] /\ UNCHANGED task /\ edits' = edits
      BY <1>5 DEF Abort
    <2>2. Idle.stage = "idle" /\ Idle.todo = {} /\ ~Waits(Idle) BY DEF Idle, Waits
    <2> QED BY <2>1, <2>2, RoomAfter, OrderKept
  <1> QED BY <1>1, <1>2, <1>3, <1>4, <1>5

-----------------------------------------------------------------------------
(* A commit, and the order it leaves.                                      *)

LEMMA CommitRoom ==
  ASSUME TypeOK, Room, NEW e \in Editors, Commit(e)
  PROVE  Room'
  <1> DEFINE x == tx[e]
  <1>1. PICK g : g = Half[Halvings] OBVIOUS
  <1>2. Grained(g) BY <1>1 DEF Room
  <1>3. /\ \A f \in Editors : f # e => tx'[f].stage = tx[f].stage /\ tx'[f].todo = tx[f].todo
        /\ tx'[e].stage = "idle" /\ tx'[e].todo = {} /\ tx[e].stage = "write" /\ edits' = edits
    BY CommitLeaves DEF Commit, Goes, Idle
  <1>4. Pending' = Pending BY <1>3 DEF Pending
  <1>5. Halvings' = Halvings BY <1>3, <1>4 DEF Halvings
  <1>6. ASSUME NEW t \in Tasks PROVE Multiple(task'[t].hint, g)
    <2>1. CASE t \in Written(x)
      <3>1. WriteOf(x, t) \in x.todo BY <2>1, WriteOfIsWrite
      <3>2. task'[t] = AppliedToTask(WriteOf(x, t), task[t]) BY <2>1, CommitLeaves
      <3>3. task'[t].hint \in {WriteOf(x, t).hint, task[t].hint} BY <3>2 DEF AppliedToTask
      <3> QED BY <1>2, <3>1, <3>3 DEF Grained
    <2>2. CASE t \notin Written(x) BY <1>2, <2>2, CommitLeaves DEF Grained
    <2> QED BY <2>1, <2>2
  <1>7. \A f \in Editors : \A w \in tx'[f].todo : Multiple(w.hint, g)
    BY <1>2, <1>3 DEF Grained
  <1>8. Grained(g)' BY <1>2, <1>6, <1>7 DEF Grained
  <1> QED BY <1>1, <1>3, <1>4, <1>5, <1>8 DEF Room

LEMMA CommitOrder ==
  ASSUME TypeOK, BoardInv, OrderInv, NEW e \in Editors, Commit(e)
  PROVE  OrderInv'
  <1> DEFINE W == Written(tx[e])
  <1>1. SUFFICES ASSUME NEW f \in Editors, tx'[f].stage # "idle"
                 PROVE  Parted(tx[f])' /\ Intended(tx[f])'
    BY DEF OrderInv, Busy
  <1> DEFINE x == tx[f]
  <1>2. x.stage # "idle" /\ tx'[f] = Goes(x, x.stage, x.todo, x.late \cup W)
    <2>1. tx'[e] = Idle BY CommitLeaves
    <2>2. f # e BY <1>1, <2>1 DEF Idle
    <2> QED BY <1>1, <2>2, CommitLeaves
  <1>3. PICK z : z = tx'[f] OBVIOUS
  <1>4. /\ z.op = x.op /\ z.stage = x.stage /\ z.row = x.row /\ z.read = x.read
        /\ z.bucket = x.bucket /\ z.place = x.place /\ z.todo = x.todo
        /\ z.late = x.late \cup W
    BY <1>2, <1>3 DEF Goes
  <1>5. Parted(x) /\ Intended(x) BY <1>2 DEF OrderInv, Busy
  <1> HIDE DEF W
  <1>6. \A t \in Tasks : t \notin W => task'[t] = task[t] BY CommitLeaves DEF W
  <1>7. Written(z) = Written(x) BY <1>4 DEF Written
  <1>8. Parted(z)'
    <2>1. \A t \in LiveIn(z.bucket)' : t \in z.late \/ (t \in LiveIn(x.bucket) /\ task'[t] = task[t])
      BY <1>4, <1>6 DEF LiveIn
    <2>2. Written(z)' = Written(z) BY DEF Written
    <2> QED BY <1>4, <1>5, <1>7, <2>1, <2>2 DEF Parted
  <1>9. Intended(z)'
    <2>1. SUFFICES ASSUME z.op = "move" PROVE Intended(z)' BY DEF Intended
    <2>2. x.row \in Tasks BY <1>2, <1>4, <2>1 DEF BoardInv, Busy, Shape
    <2>3. z.row \notin z.late => task'[z.row] = z.read
      BY <1>4, <1>5, <1>6, <2>1, <2>2 DEF Intended
    <2>4. ASSUME z.stage = "write", z.late = {}
          PROVE  \E s \in Listings(LiveIn(z.bucket) \ {z.row})' :
                   /\ z.place.side # "tail" => \E i \in DOMAIN s : s[i] = z.place.of
                   /\ z.todo = MoveWrites(z, s)'
                   /\ KeyFits(s, z.place)'
      <3>1. x.late = {} /\ W = {} BY <1>4, <2>4
      <3>2. UNCHANGED task
        <4>1. task' = [t \in Tasks |-> task'[t]] BY DEF Commit
        <4>2. task = [t \in Tasks |-> task[t]] BY DEF TypeOK
        <4> QED BY <1>6, <3>1, <4>1, <4>2
      <3>3. PICK s \in Listings(LiveIn(x.bucket) \ {x.row}) :
              /\ x.place.side # "tail" => \E i \in DOMAIN s : s[i] = x.place.of
              /\ x.todo = MoveWrites(x, s)
              /\ KeyFits(s, x.place)
        BY <1>4, <1>5, <2>1, <2>4, <3>1 DEF Intended
      <3>4. \A i : Rebalanced(z, s, i) = Rebalanced(x, s, i) BY <1>4, Zenon DEF Rebalanced
      <3>5. MoveWrites(z, s) = MoveWrites(x, s) BY <1>4, <3>4, Zenon DEF MoveWrites
      <3> QED BY <1>4, <3>2, <3>3, <3>5, SameListings
    <2> QED BY <2>3, <2>4 DEF Intended
  <1>10. Parted(tx[f])' BY <1>3, <1>8 DEF Parted, Written
  <1>11. Intended(tx[f])' BY <1>3, <1>9 DEF Intended
  <1> QED BY <1>10, <1>11

\* Where a commit puts what it writes: a move or a creation gives a hint or a bucket,
\* an update only to a task that is then unchecked, and rows it fought for are marked.
LEMMA CommitDistinct ==
  ASSUME TypeOK, BoardInv, OrderInv, HintsDistinct, NEW e \in Editors, Commit(e)
  PROVE  HintsDistinct'
  <1> DEFINE x == tx[e]
             W == Written(x)
  <1>1. Shape(x) /\ Parted(x) /\ x.stage = "write" /\ x.op \in Ops
    BY DEF BoardInv, OrderInv, Busy, Commit, TypeOK, Transaction, Shape
  <1>2. SUFFICES ASSUME NEW t \in Tasks, NEW u \in Tasks, t # u,
                        t \notin raced', t \notin unchecked', u \notin raced', u \notin unchecked',
                        task'[t].state = "live", task'[u].state = "live",
                        task'[t].bucket = task'[u].bucket
                 PROVE  task'[t].hint # task'[u].hint
    BY DEF HintsDistinct, Quiet
  <1>3. /\ t \notin raced /\ t \notin Clash(x) /\ u \notin raced /\ u \notin Clash(x)
    BY <1>2 DEF Commit
  <1>4. \A v \in {t, u} :
           /\ v \in unchecked => x.op = "move" /\ v \in W /\ v = x.row
           /\ x.op = "restore" => v # x.row
           /\ x.op = "update" /\ v = x.row => \A w \in x.todo : w.cols = {}
    BY <1>2 DEF Commit
  <1>5. \A v \in Tasks : /\ v \notin W => task'[v] = task[v]
                         /\ v \in W => task'[v] = AppliedToTask(WriteOf(x, v), task[v])
    BY CommitLeaves
  <1>6. \A v \in Tasks : v \in W => WriteOf(x, v) \in x.todo /\ WriteOf(x, v).row = v
    BY WriteOfIsWrite
  <1>7. t \notin unchecked /\ u \notin unchecked /\ task[t].state = "live" /\ task[u].state = "live"
           /\ task[t].bucket = task[u].bucket
        => task[t].hint # task[u].hint
    BY <1>2, <1>3 DEF HintsDistinct, Quiet
  <1>8. CASE x.op \notin {"move", "create"} \/ x.todo = {}
    <2>1. ASSUME NEW v \in {t, u}
          PROVE  /\ task'[v].bucket = task[v].bucket /\ task'[v].hint = task[v].hint
                 /\ task[v].state = "live" /\ v \notin unchecked
      <3>1. v \in Tasks /\ task'[v].state = "live" BY <1>2
      <3>2. CASE v \notin W BY <1>4, <1>5, <3>1, <3>2
      <3>3. CASE v \in W
        <4>1. x.todo # {} BY <3>3 DEF Written
        <4>2. PICK w : w = WriteOf(x, v) OBVIOUS
        <4>3. w \in x.todo /\ w.row = v /\ task'[v] = AppliedToTask(w, task[v])
          BY <1>5, <1>6, <3>1, <3>3, <4>2
        <4>4. v \notin Buckets BY <3>1, RowsAreApart
        <4>5. w.kind \notin {"restore", "create", "move"} /\ (w.kind # "delete" => w.cols = {})
          <5>1. x.op = "restore" => w.row = x.row BY <1>1, <4>3 DEF Shape
          <5>2. x.op # "restore" BY <1>4, <4>3, <5>1
          <5>3. x.op \in {"complete", "reopen", "delete"} => w.kind = x.op /\ w.cols = {}
            BY <1>1, <4>3 DEF Shape
          <5>6. x.op = "update" => w.kind = x.op /\ w.cols = {}
            BY <1>1, <1>4, <4>3 DEF Shape
          <5>5. x.op = "deleteBucket" => w.kind = "delete"
            BY <1>1, <4>3, <4>4 DEF Shape
          <5>7. x.op # "rename" BY <1>1, <4>3, <4>4 DEF Shape
          <5> QED BY <1>1, <1>8, <4>1, <5>2, <5>3, <5>5, <5>6, <5>7 DEF Ops
        <4> QED BY <1>4, <1>8, <3>1, <4>1, <4>3, <4>5 DEF AppliedToTask
      <3> QED BY <3>2, <3>3
    <2> QED BY <1>2, <1>7, <2>1
  <1>9. CASE x.op \in {"move", "create"} /\ x.todo # {}
    <2>1. /\ x.row \in W
          /\ \A v, w \in x.todo : v # w => v.row # w.row /\ v.hint # w.hint
          /\ \A v \in LiveIn(x.bucket) :
                v \in x.late \/ v \in W \/ \A w \in x.todo : w.hint # task[v].hint
      BY <1>1, <1>9 DEF Parted
    <2>2. \A w \in x.todo : w.kind = x.op /\ Puts(w, x.bucket) BY <1>1, <1>9 DEF Shape
    <2>3. ASSUME NEW v \in Tasks, v \in W
          PROVE  task'[v].bucket = x.bucket /\ task'[v].hint = WriteOf(x, v).hint
      <3>1. PICK w : w = WriteOf(x, v) OBVIOUS
      <3>2. w \in x.todo /\ task'[v] = AppliedToTask(w, task[v]) BY <1>5, <1>6, <2>3, <3>1
      <3> QED BY <1>9, <2>2, <3>1, <3>2 DEF AppliedToTask, Puts
    <2>4. \A v \in {t, u} : v \in LiveIn(x.bucket) => v \notin x.late
      BY <1>3, <1>9 DEF Clash
    <2> HIDE DEF W
    <2>5. ASSUME NEW p \in {t, u}, NEW q \in {t, u}, p \in W, q \notin W
          PROVE  task'[p].hint # task'[q].hint
      <3>1. p \in Tasks /\ q \in Tasks /\ task'[q] = task[q] BY <1>5, <2>5
      <3>2. task[q].state = "live" /\ task[q].bucket = x.bucket BY <1>2, <2>3, <2>5, <3>1
      <3>3. q \in LiveIn(x.bucket) BY <3>1, <3>2 DEF LiveIn
      <3>4. WriteOf(x, p).hint # task[q].hint BY <1>6, <2>1, <2>4, <2>5, <3>1, <3>3
      <3> QED BY <2>3, <2>5, <3>1, <3>4
    <2>6. CASE t \in W /\ u \in W
      <3>1. WriteOf(x, t) # WriteOf(x, u) BY <1>2, <1>6, <2>6
      <3> QED BY <1>6, <2>1, <2>3, <2>6, <3>1
    <2>7. CASE t \notin W /\ u \notin W BY <1>2, <1>4, <1>5, <1>7, <2>7
    <2> QED BY <2>5, <2>6, <2>7
  <1> QED BY <1>8, <1>9

\* A move that nobody overtook: the others stand as they stood, before and behind it.
LEMMA MoveOrder ==
  ASSUME TypeOK, NEW e \in Editors, Commit(e), NEW x, x = tx[e], x.op = "move", x.row \in Tasks,
         task[x.row] = x.read, NEW s \in Listings(LiveIn(x.bucket) \ {x.row}),
         x.place.side # "tail" => \E i \in DOMAIN s : s[i] = x.place.of,
         x.todo = MoveWrites(x, s), KeyFits(s, x.place)
  PROVE  LET i == Slot(s, x.place)
             H == task'[x.row].hint
         IN /\ task'[x.row].bucket = x.bucket /\ H \in Int
            /\ \A j \in DOMAIN s : /\ task'[s[j]].hint \in Int
                                   /\ j < i => task'[s[j]].hint < H
                                   /\ j >= i => H < task'[s[j]].hint
            /\ \A j, k \in DOMAIN s : j <= k => task'[s[j]].hint <= task'[s[k]].hint
            /\ \A t \in Tasks \ {x.row} :
                  task'[t].state = "live" /\ task'[t].bucket = x.bucket => \E j \in DOMAIN s : s[j] = t
  <1> DEFINE i == Slot(s, x.place)
             h == HintBetween(HintAt(s, i - 1), HintAt(s, i))
             n == Cardinality(DOMAIN s)
             S == LiveIn(x.bucket) \ {x.row}
             H == task'[x.row].hint
  <1>1. x \in Transaction /\ x.place \in Place /\ S \in SUBSET Tasks BY DEF TypeOK, Transaction, LiveIn
  <1> HIDE DEF S
  <1>2. i \in 1..(n + 1) BY <1>1, SlotOfNeighbour DEF S
  <1>3. /\ n \in Nat /\ DOMAIN s = 1..n
        /\ \A t \in S : \E j \in DOMAIN s : s[j] = t
        /\ \A j, k \in DOMAIN s : j # k => s[j] # s[k]
        /\ \A j, k \in DOMAIN s : j <= k => task[s[j]].hint <= task[s[k]].hint
        /\ \A j \in DOMAIN s : s[j] \in S /\ s[j] \in Tasks /\ task[s[j]].hint \in Int
    <2>1. s \in Listings(S) BY DEF S
    <2>2. \A j \in DOMAIN s : s[j] \in S /\ task[s[j]].hint \in Int BY <1>1, <2>1, ListingOrder
    <2>3. /\ n \in Nat /\ DOMAIN s = 1..n
          /\ \A t \in S : \E j \in DOMAIN s : s[j] = t
          /\ \A j, k \in DOMAIN s : j # k => s[j] # s[k]
          /\ \A j, k \in DOMAIN s : j <= k => task[s[j]].hint <= task[s[k]].hint
      BY <1>1, <2>1, ListingOrder
    <2> QED BY <1>1, <2>2, <2>3
  <1>4. \A j \in DOMAIN s : s[j] # x.row /\ task[s[j]].bucket = x.bucket
    BY <1>3 DEF S, LiveIn
  <1>5. /\ \A t \in Tasks : t \notin Written(x) => task'[t] = task[t]
        /\ \A t \in Tasks : t \in Written(x) => task'[t] = AppliedToTask(WriteOf(x, t), task[t])
    BY CommitLeaves
  <1>6. \A t \in Tasks : t \in Written(x) => WriteOf(x, t) \in x.todo /\ WriteOf(x, t).row = t
    BY WriteOfIsWrite
  <1>7. Fits(s, i, h) BY DEF KeyFits
  <1>8. \/ h # None /\ x.todo = {} /\ x.bucket = x.read.bucket /\ h = x.read.hint
        \/ h # None /\ x.todo = {Placed(x.row, x.read.ver, x.bucket, h)}
        \/ h = None /\ x.todo = Rebalanced(x, s, i)
    BY <1>1, MoveCases DEF S
  <1>9. CASE h # None /\ x.todo = {} /\ x.bucket = x.read.bucket /\ h = x.read.hint
    <2>1. \A t \in Tasks : task'[t] = task[t] BY <1>5, <1>9 DEF Written
    <2>2. H = h /\ task'[x.row].bucket = x.bucket BY <1>9, <2>1
    <2>3. H \in Int BY <2>1, RowsTyped
    <2> HIDE DEF h, i, H, n
    <2>4. \A t \in Tasks \ {x.row} :
             task'[t].state = "live" /\ task'[t].bucket = x.bucket => \E j \in DOMAIN s : s[j] = t
      BY <1>3, <2>1 DEF S, LiveIn
    <2> QED BY <1>3, <1>7, <1>9, <2>1, <2>2, <2>3, <2>4 DEF Fits, i, H
  <1>10. CASE h # None /\ x.todo = {Placed(x.row, x.read.ver, x.bucket, h)}
    <2> DEFINE own == Placed(x.row, x.read.ver, x.bucket, h)
    <2>1. own.row = x.row /\ own.kind = "move" /\ own.hint = h /\ Puts(own, x.bucket)
      BY DEF Placed, Puts
    <2>2. own \in Write BY <1>1, <1>10 DEF Transaction
    <2>3. h \in Int BY <2>1, <2>2 DEF Write
    <2> HIDE DEF own
    <2>4. Written(x) = {x.row} BY <1>10, <2>1 DEF Written, own
    <2>5. WriteOf(x, x.row) = own BY <1>6, <1>10, <2>4 DEF own
    <2>6. task'[x.row] = AppliedToTask(own, task[x.row]) BY <1>5, <2>4, <2>5
    <2>7. H = h /\ task'[x.row].bucket = x.bucket BY <2>1, <2>6 DEF AppliedToTask, Puts
    <2>8. \A t \in Tasks \ {x.row} : task'[t] = task[t] BY <1>5, <2>4
    <2> HIDE DEF h, i, H, n
    <2>9. \A t \in Tasks \ {x.row} :
             task'[t].state = "live" /\ task'[t].bucket = x.bucket => \E j \in DOMAIN s : s[j] = t
      BY <1>3, <2>8 DEF S, LiveIn
    <2> QED BY <1>3, <1>4, <1>7, <1>10, <2>3, <2>7, <2>8, <2>9 DEF Fits, i, H
  <1>11. CASE h = None /\ x.todo = Rebalanced(x, s, i)
    <2> DEFINE own == Placed(x.row, x.read.ver, x.bucket, HintsForN(i))
               other(j) == Placed(s[j], task[s[j]].ver, x.bucket, HintsForN(Skip(i, j)))
    <2>1. x.todo = {other(j) : j \in DOMAIN s} \cup {own} BY <1>11 DEF Rebalanced, Skip
    <2>2. /\ own.row = x.row /\ own.kind = "move" /\ Puts(own, x.bucket) /\ own.hint = HintsForN(i)
          /\ \A j \in DOMAIN s : /\ other(j).row = s[j] /\ other(j).kind = "move"
                                 /\ Puts(other(j), x.bucket) /\ other(j).hint = HintsForN(Skip(i, j))
      BY DEF Placed, Puts
    <2> HIDE DEF own, other, h, i, n
    <2>3. x.row \in Written(x) /\ \A j \in DOMAIN s : s[j] \in Written(x)
      BY <2>1, <2>2 DEF Written
    <2>4. \A w \in x.todo : w = own \/ \E j \in DOMAIN s : w = other(j) BY <2>1
    <2>5. WriteOf(x, x.row) = own BY <1>4, <1>6, <2>2, <2>3, <2>4
    <2>6. ASSUME NEW j \in DOMAIN s PROVE WriteOf(x, s[j]) = other(j)
      <3>1. s[j] \in Tasks /\ s[j] # x.row BY <1>3, <1>4
      <3>2. WriteOf(x, s[j]) \in x.todo /\ WriteOf(x, s[j]).row = s[j] BY <1>6, <2>3, <3>1
      <3> QED BY <1>3, <2>2, <2>4, <3>1, <3>2
    <2>7. H = HintsForN(i) /\ task'[x.row].bucket = x.bucket
      <3>1. task'[x.row] = AppliedToTask(own, task[x.row]) BY <1>5, <2>3, <2>5
      <3> QED BY <2>2, <3>1 DEF AppliedToTask, Puts
    <2>8. ASSUME NEW j \in DOMAIN s PROVE task'[s[j]].hint = HintsForN(Skip(i, j))
      <3>1. task'[s[j]] = AppliedToTask(other(j), task[s[j]]) BY <1>3, <1>5, <2>3, <2>6
      <3> QED BY <2>2, <3>1 DEF AppliedToTask, Puts
    <2>9. i \in Int /\ \A j \in DOMAIN s : /\ Skip(i, j) \in Int
                                           /\ j < i => Skip(i, j) < i
                                           /\ j >= i => i < Skip(i, j)
      BY <1>2, <1>3 DEF Skip
    <2>10. \A j, k \in DOMAIN s : j <= k => Skip(i, j) < Skip(i, k) \/ j = k
      BY <1>2, <1>3 DEF Skip
    <2>11. \A k, m \in Int : HintsForN(k) \in Int /\ (k < m => HintsForN(k) < HintsForN(m))
      BY FreshHints
    <2>12. ASSUME NEW j \in DOMAIN s
           PROVE  /\ task'[s[j]].hint \in Int
                  /\ j < i => task'[s[j]].hint < H
                  /\ j >= i => H < task'[s[j]].hint
      BY <2>7, <2>8, <2>9, <2>11
    <2>13. ASSUME NEW j \in DOMAIN s, NEW k \in DOMAIN s, j <= k
           PROVE  task'[s[j]].hint <= task'[s[k]].hint
      <3>1. CASE j = k BY <2>12, <3>1
      <3>2. CASE j # k
        <4>1. HintsForN(Skip(i, j)) < HintsForN(Skip(i, k)) BY <2>9, <2>10, <2>11, <2>13, <3>2
        <4> QED BY <2>8, <2>12, <4>1
      <3> QED BY <3>1, <3>2
    <2>14. ASSUME NEW t \in Tasks \ {x.row}, task'[t].state = "live", task'[t].bucket = x.bucket
           PROVE  \E j \in DOMAIN s : s[j] = t
      <3>1. CASE t \in Written(x)
        <4>1. WriteOf(x, t) \in x.todo /\ WriteOf(x, t).row = t BY <1>6, <3>1
        <4> QED BY <2>2, <2>4, <4>1
      <3>2. CASE t \notin Written(x)
        <4>1. task'[t] = task[t] BY <1>5, <3>2
        <4>2. t \in S BY <2>14, <4>1 DEF S, LiveIn
        <4> QED BY <1>3, <4>2
      <3> QED BY <3>1, <3>2
    <2>15. H \in Int BY <2>7, <2>9, <2>11
    <2> HIDE DEF H
    <2> QED BY <2>7, <2>12, <2>13, <2>14, <2>15 DEF i, H
  <1> QED BY <1>8, <1>9, <1>10, <1>11

LEMMA CommitLands ==
  ASSUME TypeOK, BoardInv, OrderInv, NEW e \in Editors, Commit(e),
         tx[e].op = "move", tx[e].late = {}
  PROVE  Lands(tx[e])
  <1>1. PICK x : x = tx[e] OBVIOUS
  <1>2. x.row \in Tasks /\ x.stage = "write" /\ x.op = "move" /\ x.late = {} /\ Intended(x)
    BY <1>1 DEF Commit, BoardInv, OrderInv, Busy, Shape
  <1>3. PICK s \in Listings(LiveIn(x.bucket) \ {x.row}) :
          /\ x.place.side # "tail" => \E i \in DOMAIN s : s[i] = x.place.of
          /\ x.todo = MoveWrites(x, s)
          /\ KeyFits(s, x.place)
    BY <1>2 DEF Intended
  <1>4. task[x.row] = x.read BY <1>2 DEF Intended
  <1>5. PICK i : i = Slot(s, x.place) OBVIOUS
  <1>6. PICK H : H = task'[x.row].hint OBVIOUS
  <1>7. /\ task'[x.row].bucket = x.bucket /\ H \in Int
        /\ \A j \in DOMAIN s : /\ task'[s[j]].hint \in Int
                               /\ j < i => task'[s[j]].hint < H
                               /\ j >= i => H < task'[s[j]].hint
        /\ \A j, k \in DOMAIN s : j <= k => task'[s[j]].hint <= task'[s[k]].hint
        /\ \A t \in Tasks \ {x.row} :
              task'[t].state = "live" /\ task'[t].bucket = x.bucket => \E j \in DOMAIN s : s[j] = t
    BY <1>1, <1>2, <1>3, <1>4, <1>5, <1>6, MoveOrder
  <1>8. LiveIn(x.bucket) \ {x.row} \in SUBSET Tasks /\ x.place \in Place
    BY <1>1 DEF LiveIn, TypeOK, Transaction
  <1>9. /\ i \in 1..(Cardinality(DOMAIN s) + 1)
        /\ x.place.side = "tail" => i = Cardinality(DOMAIN s) + 1
        /\ x.place.side = "before" => i \in DOMAIN s /\ s[i] = x.place.of
        /\ x.place.side = "after" => i - 1 \in DOMAIN s /\ s[i - 1] = x.place.of
    BY <1>3, <1>5, <1>8, SlotOfNeighbour
  <1>10. Cardinality(DOMAIN s) \in Nat /\ DOMAIN s = 1..Cardinality(DOMAIN s)
    BY <1>8, ListingOrder
  <1> DEFINE others == {t \in Tasks \ {x.row} : task'[t].state = "live" /\ task'[t].bucket = x.bucket}
  <1>11. \A t \in others : \E j \in DOMAIN s : s[j] = t BY <1>7
  <1> HIDE DEF others
  <1>12. CASE x.place.side = "tail"
    <2>1. \A j \in DOMAIN s : j < i BY <1>9, <1>10, <1>12
    <2>2. \A t \in others : task'[t].hint < H BY <1>7, <1>11, <2>1
    <2> QED BY <1>1, <1>6, <1>7, <1>12, <2>2 DEF Lands, others
  <1>13. CASE x.place.side = "before"
    <2>1. i \in DOMAIN s /\ s[i] = x.place.of /\ i \in Int BY <1>9, <1>10, <1>13
    <2>2. H < task'[x.place.of].hint BY <1>7, <2>1
    <2>3. ASSUME NEW t \in others
          PROVE  task'[t].hint < H \/ task'[t].hint >= task'[x.place.of].hint
      <3>1. PICK j \in DOMAIN s : s[j] = t BY <1>11
      <3>2. CASE j < i BY <1>7, <3>1, <3>2
      <3>3. CASE j >= i
        <4>1. task'[s[i]].hint <= task'[s[j]].hint BY <1>7, <1>10, <2>1, <3>3
        <4> QED BY <1>7, <2>1, <3>1, <4>1
      <3> QED BY <1>10, <2>1, <3>2, <3>3
    <2> QED BY <1>1, <1>6, <1>7, <1>13, <2>2, <2>3 DEF Lands, others
  <1>14. CASE x.place.side = "after"
    <2>1. i - 1 \in DOMAIN s /\ s[i - 1] = x.place.of /\ i \in Int BY <1>9, <1>10, <1>14
    <2>2. task'[x.place.of].hint < H BY <1>7, <2>1
    <2>3. ASSUME NEW t \in others
          PROVE  task'[t].hint > H \/ task'[t].hint <= task'[x.place.of].hint
      <3>1. PICK j \in DOMAIN s : s[j] = t BY <1>11
      <3>2. CASE j >= i BY <1>7, <3>1, <3>2
      <3>3. CASE j < i
        <4>1. j <= i - 1 BY <1>10, <2>1, <3>3
        <4>2. task'[s[j]].hint <= task'[s[i - 1]].hint BY <1>7, <2>1, <4>1
        <4> QED BY <2>1, <3>1, <4>2
      <3> QED BY <1>10, <2>1, <3>2, <3>3
    <2>4. H > task'[x.place.of].hint BY <1>7, <2>1, <2>2
    <2> QED BY <1>1, <1>6, <1>7, <1>14, <2>3, <2>4 DEF Lands, others
  <1> QED BY <1>8, <1>12, <1>13, <1>14 DEF Place

-----------------------------------------------------------------------------
(* The theorems about the order.                                           *)

OInv == IInv /\ Room /\ OrderInv /\ HintsDistinct

LEMMA InitOrder == Init => OInv
  <1> SUFFICES ASSUME Init PROVE OInv OBVIOUS
  <1>1. IInv BY InitInv
  <1>2. \A e \in Editors : tx[e] = Idle BY DEF Init
  <1>3. ASSUME NEW t \in Tasks
        PROVE  /\ t \in DOMAIN Home => task[t].bucket = Home[t] /\ task[t].hint = Rank[t] * Gap
               /\ t \notin DOMAIN Home => task[t].state = "absent" /\ task[t].hint = 0
    <2>1. CASE t \in DOMAIN Home
      <3>1. task[t] = [state |-> "live", ver |-> 1, bucket |-> Home[t],
                       hint |-> Rank[t] * Gap, progress |-> "open"]
        BY <2>1 DEF Init
      <3> QED BY <2>1, <3>1
    <2>2. CASE t \notin DOMAIN Home
      <3>1. task[t] = Absent BY <2>2 DEF Init
      <3> QED BY <2>2, <3>1 DEF Absent
    <2> QED BY <2>1, <2>2
  <1>4. Room
    <2>1. Pending = {} BY <1>2 DEF Pending, Idle
    <2>2. IsFiniteSet(Pending) /\ Cardinality(Pending) = 0 BY <2>1, FS_EmptySet
    <2>3. Halvings = 0 /\ edits <= MaxEdits /\ 0 \in 0..MaxEdits
      BY <2>2, BoundsArePositive DEF Halvings, Init
    <2>4. Half[Halvings] = Gap BY <2>3, HalfTyped
    <2>5. Multiple(Gap, Gap)
      <3>1. Gap = 1 * Gap /\ 1 \in Int BY BoundsArePositive
      <3> QED BY <3>1 DEF Multiple
    <2>6. ASSUME NEW t \in Tasks PROVE Multiple(task[t].hint, Gap)
      <3>1. CASE t \in DOMAIN Home
        <4>1. task[t].hint = Rank[t] * Gap /\ Rank[t] \in Int BY <1>3, <3>1, HomesExist
        <4> QED BY <4>1 DEF Multiple
      <3>2. CASE t \notin DOMAIN Home
        <4>1. task[t].hint = 0 BY <1>3, <3>2
        <4> QED BY <4>1, ZeroMultiple, BoundsArePositive
      <3> QED BY <3>1, <3>2
    <2>7. \A e \in Editors : tx[e].todo = {} BY <1>2 DEF Idle
    <2> QED BY <2>2, <2>3, <2>4, <2>5, <2>6, <2>7 DEF Room, Grained
  <1>5. OrderInv BY <1>2 DEF OrderInv, Busy, Idle
  <1>6. HintsDistinct
    <2>1. SUFFICES ASSUME NEW t \in Tasks, NEW u \in Tasks, t # u, task[t].state = "live",
                          task[u].state = "live", task[t].bucket = task[u].bucket
                   PROVE  task[t].hint # task[u].hint
      BY DEF HintsDistinct, Quiet
    <2>2. t \in DOMAIN Home /\ u \in DOMAIN Home BY <1>3, <2>1
    <2>3. /\ task[t].bucket = Home[t] /\ task[t].hint = Rank[t] * Gap
          /\ task[u].bucket = Home[u] /\ task[u].hint = Rank[u] * Gap
      BY <1>3, <2>2
    <2>4. Rank[t] # Rank[u] /\ Rank[t] \in Int /\ Rank[u] \in Int
      BY <2>1, <2>2, <2>3, OrderAtFirst, HomesExist
    <2>5. PICK a \in Int, b \in Int : a = Rank[t] /\ b = Rank[u] BY <2>4
    <2>6. a # b => a * Gap # b * Gap
      <3>1. Gap \in Int /\ Gap > 0 BY BoundsArePositive
      <3>2. a < b => a * Gap < b * Gap BY <3>1
      <3>3. b < a => b * Gap < a * Gap BY <3>1
      <3>4. a * Gap \in Int /\ b * Gap \in Int BY <3>1
      <3> QED BY <3>2, <3>3, <3>4
    <2> QED BY <2>3, <2>4, <2>5, <2>6
  <1> QED BY <1>1, <1>4, <1>5, <1>6 DEF OInv

LEMMA UntouchedDistinct ==
  ASSUME HintsDistinct, Untouched
  PROVE  HintsDistinct'
  BY DEF Untouched, HintsDistinct, Quiet

LEMMA NextOrder == OInv /\ [Next]_vars => OInv'
  <1> SUFFICES ASSUME OInv, [Next]_vars PROVE OInv' OBVIOUS
  <1>0. IInv' /\ TypeOK /\ BoardInv /\ Room /\ OrderInv /\ HintsDistinct
    BY NextInv DEF OInv, IInv
  <1>1. ASSUME NEW e \in Editors, Begins(e)
        PROVE  OInv'
    <2>1. Room' /\ OrderInv' BY <1>0, <1>1, RequestsOrdered
    <2>2. Untouched
      BY <1>1 DEF Untouched, Begins, UpdateTask, EditTask, RestoreTask, MoveTask, CreateTask,
                  UpdateBucket, DeleteBucket, Open
    <2> QED BY <1>0, <2>1, <2>2, UntouchedDistinct DEF OInv
  <1>2. ASSUME NEW e \in Editors,
               LockBucket(e) \/ ListForMove(e) \/ ListForCreate(e) \/ ListForDelete(e) \/ Abort(e)
        PROVE  OInv'
    <2>1. Room' /\ OrderInv' BY <1>0, <1>2, StepsOrdered
    <2>2. Untouched
      BY <1>2 DEF Untouched, LockBucket, ListForMove, ListForCreate, ListForDelete, Lists, Abort
    <2> QED BY <1>0, <2>1, <2>2, UntouchedDistinct DEF OInv
  <1>3. ASSUME NEW e \in Editors, Commit(e) PROVE OInv'
    <2>1. Room' BY <1>0, <1>3, CommitRoom
    <2>2. OrderInv' BY <1>0, <1>3, CommitOrder
    <2>3. HintsDistinct' BY <1>0, <1>3, CommitDistinct
    <2> QED BY <1>0, <2>1, <2>2, <2>3 DEF OInv
  <1>4. CASE UNCHANGED vars
    <2>1. Untouched /\ UNCHANGED <<task, tx, edits>> BY <1>4 DEF vars, Untouched
    <2>2. Room'
      BY <1>0, <2>1 DEF Room, Pending, Halvings, Grained
    <2>3. OrderInv'
      <3>1. ASSUME NEW f \in Editors, tx'[f].stage # "idle"
            PROVE  Parted(tx[f])' /\ Intended(tx[f])'
        <4>1. PICK z : z = tx'[f] OBVIOUS
        <4>2. Parted(z) /\ Intended(z) BY <1>0, <2>1, <3>1, <4>1 DEF OrderInv, Busy
        <4>3. Parted(z)' BY <2>1, <4>2, SameListings DEF Parted, Written
        <4>4. Intended(z)' BY <2>1, <4>2, SameListings DEF Intended
        <4>5. Parted(tx[f])' BY <4>1, <4>3 DEF Parted, Written
        <4>6. Intended(tx[f])' BY <4>1, <4>4 DEF Intended
        <4> QED BY <4>5, <4>6
      <3> QED BY <3>1 DEF OrderInv, Busy
    <2> QED BY <1>0, <2>1, <2>2, <2>3, UntouchedDistinct DEF OInv
  <1> QED BY <1>1, <1>2, <1>3, <1>4 DEF Next

LEMMA SpecOrder == Spec => []OInv
  BY InitOrder, NextOrder, PTL DEF Spec

\* Two live tasks of a bucket never share a hint, whatever requests moved, created,
\* deleted or completed them and in whatever order they listed and committed, unless
\* they fought for the place, or one of them was restored or given its place by
\* updateTask and not moved since: hintBetween always finds room, and a rebalance hands out as many hints as the bucket has tasks.
THEOREM OrderIsOne == Spec => []HintsDistinct
  <1>1. OInv => HintsDistinct BY DEF OInv
  <1> QED BY <1>1, SpecOrder, PTL

\* moveTask puts its task next to the neighbour it was given, or at the tail, whatever
\* else is in the bucket, with one hint or with a rebalance, if no other request
\* committed a row since it listed the bucket.
THEOREM MovesLand == Spec => MoveLands
  <1>1. OInv /\ [Next]_vars =>
          [\A e \in Editors : Commit(e) /\ tx[e].op = "move" /\ tx[e].late = {} => Lands(tx[e])]_vars
    BY CommitLands DEF OInv, IInv
  <1> QED BY <1>1, SpecOrder, PTL DEF Spec, MoveLands
=============================================================================
