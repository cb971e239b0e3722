---------------------------- MODULE PlannerBoard ----------------------------
(***************************************************************************)
(* The board of one plan: its buckets and tasks, and the transactions that *)
(* edit them (packages/planner/src/backend/domain).                        *)
(*                                                                         *)
(* Every handler is one READ COMMITTED transaction.  It reads rows without *)
(* locking them, compares the version it read with the one the client      *)
(* sent, and updates rows by id; an UPDATE waits for the row lock, then    *)
(* overwrites the columns it sets, the version with "the one I read, plus  *)
(* one".  What a transaction wrote is visible from its commit on.  Once it *)
(* has read everything, its writes and its commit are one step: the row    *)
(* locks only decide which of two transactions goes first.  Only           *)
(* deleteBucket reads after a write, so only its lock is a state.          *)
(*                                                                         *)
(* A task's place is its bucket and its order hint.  Hints are integers:   *)
(* what matters is their order, and that the hint between two neighbours   *)
(* is a function of the two.  The other columns are left out, except that  *)
(* a task is done or not.                                                  *)
(*                                                                         *)
(* updateTask writes any column its caller names, bucket and hint included *)
(* (PATCH over HTTP strips these two; other callers of the package may     *)
(* give them).  Left out are a hint of null, and buckets of other plans.   *)
(***************************************************************************)
EXTENDS Integers, FiniteSets

CONSTANTS
    Editors,   \* requests that may be under way at once
    Tasks, Buckets,
    None,      \* no bucket, no neighbour, no row
    Home,      \* the tasks there are at first, and their buckets
    Rank,      \* their order
    Gap,       \* distance of the hints that are handed out fresh
    MaxEdits   \* bound: transactions that get past their checks

ASSUME NoneIsApart == None \notin Tasks \cup Buckets \cup Int
ASSUME RowsAreApart == Tasks \cap Buckets = {} /\ IsFiniteSet(Tasks) /\ IsFiniteSet(Editors)
ASSUME HomesExist == /\ DOMAIN Home \subseteq Tasks
                     /\ Home \in [DOMAIN Home -> Buckets \cup {None}]
                     /\ Rank \in [DOMAIN Home -> Int]
ASSUME OrderAtFirst == \A t, u \in DOMAIN Home : t # u /\ Home[t] = Home[u] => Rank[t] # Rank[u]
ASSUME BoundsArePositive == Gap \in Nat \ {0} /\ MaxEdits \in Nat
\* There is always a key between two keys.  Integers need room for that: each edit
\* puts at most one hint half way between two others.
ASSUME GapCanBeHalved ==
    \E half \in [0..MaxEdits -> 1..Gap] :
        half[0] = Gap /\ \A i \in 1..MaxEdits : half[i - 1] = 2 * half[i]

VARIABLES
    task,     \* committed rows of planner.tasks
    bucket,   \* committed rows of planner.buckets
    tx,       \* the transaction of each request
    unchecked,\* observer: tasks restored, or placed by updateTask, and not moved since
    raced,    \* observer: rows two overlapping transactions fought for
    stale,    \* observer: rows overwritten though their version had moved on
    edits     \* (bound)

vars == <<task, bucket, tx, unchecked, raced, stale, edits>>

Rows == Tasks \cup Buckets
Columns == Buckets \cup {None}
Ops == {"update", "complete", "reopen", "delete", "restore", "move", "create",
        "rename", "deleteBucket"}
TaskRow == [state: {"absent", "live", "deleted"}, ver: Nat, bucket: Columns, hint: Int,
            progress: {"open", "done"}]
BucketRow == [state: {"live", "deleted"}, ver: Nat]
Place == [side: {"before", "after", "tail"}, of: Tasks \cup {None}]
\* One UPDATE or INSERT: its row, the version it adds one to, what it sets of the place.
Write == [row: Rows, kind: Ops, from: Nat, cols: SUBSET {"bucket", "hint"}, bucket: Columns, hint: Int]
\* expected is the version the client sent; late are rows committed by others
\* since this transaction read them, or read that they were not there.
Transaction == [op: Ops \cup {"none"}, stage: {"idle", "lock", "list", "write"},
                row: Rows \cup {None}, read: TaskRow \cup BucketRow, expected: Nat,
                bucket: Columns, place: Place, todo: SUBSET Write, late: SUBSET Rows]

TypeOK ==
    /\ task \in [Tasks -> TaskRow]
    /\ bucket \in [Buckets -> BucketRow]
    /\ tx \in [Editors -> Transaction]
    /\ unchecked \subseteq Tasks
    /\ raced \subseteq Rows
    /\ stale \subseteq Rows
    /\ edits \in Nat

Absent == [state |-> "absent", ver |-> 0, bucket |-> None, hint |-> 0, progress |-> "open"]
Tail == [side |-> "tail", of |-> None]
Idle == [op |-> "none", stage |-> "idle", row |-> None, read |-> Absent, expected |-> 0,
         bucket |-> None, place |-> Tail, todo |-> {}, late |-> {}]

Init ==
    /\ task = [t \in Tasks |->
                 IF t \in DOMAIN Home
                 THEN [state |-> "live", ver |-> 1, bucket |-> Home[t],
                       hint |-> Rank[t] * Gap, progress |-> "open"]
                 ELSE Absent]
    /\ bucket = [b \in Buckets |-> [state |-> "live", ver |-> 1]]
    /\ tx = [e \in Editors |-> Idle]
    /\ unchecked = {} /\ raced = {} /\ stale = {}
    /\ edits = 0

-----------------------------------------------------------------------------
(* Order hints                                                             *)

\* hintBetween; None where generateKeyBetween throws.
HintBetween(prev, next) ==
    IF prev = None THEN IF next = None THEN 0 ELSE next - Gap
    ELSE IF next = None THEN prev + Gap
    ELSE IF prev < next THEN (prev + next) \div 2 ELSE None

\* hintsForN
HintsForN(i) == (i - 1) * Gap

LiveIn(b) == {t \in Tasks : task[t].state = "live" /\ task[t].bucket = b}

\* ORDER BY order_hint: ties come in any order.
Listings(S) ==
    {s \in [1..Cardinality(S) -> S] :
        \A i, j \in DOMAIN s : i < j => s[i] # s[j] /\ task[s[i]].hint <= task[s[j]].hint}

Position(s, t) == CHOOSE i \in DOMAIN s : s[i] = t
\* The position the moved task takes among the others.
Slot(s, place) ==
    IF place.side = "tail" THEN Cardinality(DOMAIN s) + 1
    ELSE IF place.side = "before" THEN Position(s, place.of)
    ELSE Position(s, place.of) + 1

HintAt(s, i) == IF i \in DOMAIN s THEN task[s[i]].hint ELSE None

-----------------------------------------------------------------------------
(* A request reads the row it edits and checks the client's version.       *)

Open(e, x) ==
    /\ tx[e].stage = "idle" /\ edits < MaxEdits
    /\ tx' = [tx EXCEPT ![e] = x]
    /\ edits' = edits + 1
    /\ UNCHANGED <<task, bucket, unchecked, raced, stale>>

Request(op, stage, r, read, expected, b, place, todo) ==
    [op |-> op, stage |-> stage, row |-> r, read |-> read, expected |-> expected,
     bucket |-> b, place |-> place, todo |-> todo, late |-> {}]

Sets(op, r, read) ==
    [row |-> r, kind |-> op, from |-> read.ver, cols |-> {}, bucket |-> None, hint |-> 0]

UpToDateAlways(expected, read) == TRUE \* mutant
\* CONFLICT unless the version the client sent is the one of the row.
UpToDate(expected, read) == expected = read.ver

\* The hints a caller may name: one there is, or one beside or between those.
NamedHints ==
    LET known == {task[t].hint : t \in Tasks} \cup {None}
    IN (known \cup {HintBetween(p, n) : p, n \in known}) \ {None}

\* Of the place, the columns that differ are set.
Changed(r, b, h) ==
    {c \in {"bucket", "hint"} : (c = "bucket" /\ b # r.bucket) \/ (c = "hint" /\ h # r.hint)}

Put(t, b, h) ==
    [row |-> t, kind |-> "update", from |-> task[t].ver, cols |-> Changed(task[t], b, h),
     bucket |-> b, hint |-> h]

\* updateTask sets the columns that its patch changes: bucket and hint as they are
\* named, and others.  No bucket is looked at, and no other task.  A patch of the
\* progress does what complete or reopen do; one that changes nothing, nothing.
UpdateTask(e, t, b, h, expected) ==
    /\ task[t].state = "live" /\ UpToDate(expected, task[t])
    /\ Open(e, Request("update", "write", t, task[t], expected, None, Tail,
                       {Put(t, b, h)}))

\* completeTask, reopenTask, deleteTask
EditTask(e, op, t, expected) ==
    /\ task[t].state = "live" /\ UpToDate(expected, task[t])
    /\ op = "complete" => task[t].progress = "open"
    /\ op = "reopen" => task[t].progress = "done"
    /\ Open(e, Request(op, "write", t, task[t], expected, None, Tail, {Sets(op, t, task[t])}))

\* restoreTask takes no version and looks at no bucket.
RestoreTask(e, t) ==
    /\ task[t].state = "deleted"
    /\ Open(e, Request("restore", "write", t, task[t], task[t].ver, None, Tail,
                       {Sets("restore", t, task[t])}))

\* updateBucket
UpdateBucket(e, b, expected) ==
    /\ bucket[b].state = "live" /\ UpToDate(expected, bucket[b])
    /\ Open(e, Request("rename", "write", b, bucket[b], expected, None, Tail,
                       {Sets("rename", b, bucket[b])}))

DeleteBucket(e, b, expected) ==
    /\ bucket[b].state = "live" /\ UpToDate(expected, bucket[b])
    /\ Open(e, Request("deleteBucket", "lock", b, bucket[b], expected, b, Tail, {}))

AnyBucket(b) == TRUE \* mutant
\* The target bucket is not deleted.  It is read after the task: as no bucket is
\* ever restored, one that is live then was live when the task was read.
UsableBucket(b) == b # None => bucket[b].state = "live"

MoveTask(e, t, b, place, expected) ==
    /\ task[t].state = "live" /\ UpToDate(expected, task[t]) /\ UsableBucket(b)
    /\ Open(e, Request("move", "list", t, task[t], expected, b, place, {}))

\* The id of a new task is fresh.
CreateTask(e, t, b) ==
    /\ task[t].state = "absent" /\ \A f \in Editors : tx[f].row # t
    /\ UsableBucket(b)
    /\ Open(e, Request("create", "list", t, task[t], task[t].ver, b, Tail, {}))

-----------------------------------------------------------------------------
(* moveTask, createTask and deleteBucket list the tasks of the bucket.     *)

Locked(b) == \E e \in Editors : /\ tx[e].op = "deleteBucket" /\ tx[e].row = b
                               /\ tx[e].stage \in {"list", "write"}

Goes(x, stage, todo, late) ==
    [op |-> x.op, stage |-> stage, row |-> x.row, read |-> x.read, expected |-> x.expected,
     bucket |-> x.bucket, place |-> x.place, todo |-> todo, late |-> late]

\* deleteBucket writes the bucket first, and keeps its row locked.
LockBucket(e) ==
    /\ tx[e].stage = "lock" /\ ~Locked(tx[e].row)
    /\ tx' = [tx EXCEPT ![e] = Goes(tx[e], "list", {}, tx[e].late)]
    /\ UNCHANGED <<task, bucket, unchecked, raced, stale, edits>>

\* The rows listed are as of now; the first row, and the bucket, were read before.
Lists(e, op, todo) ==
    /\ tx[e].op = op /\ tx[e].stage = "list"
    /\ tx' = [tx EXCEPT ![e] = Goes(tx[e], "write", todo, tx[e].late \cap {tx[e].row, tx[e].bucket})]
    /\ UNCHANGED <<task, bucket, unchecked, raced, stale, edits>>

Placed(t, from, b, h) ==
    [row |-> t, kind |-> "move", from |-> from, cols |-> {"bucket", "hint"}, bucket |-> b, hint |-> h]

RebalancedAtTail(x, s, i) == \* mutant
    {Placed(s[j], task[s[j]].ver, x.bucket, HintsForN(j)) : j \in DOMAIN s}
    \cup {Placed(x.row, x.read.ver, x.bucket, HintsForN(Cardinality(DOMAIN s) + 1))}
\* The hints of the whole bucket are handed out afresh, the moved task in slot i.
Rebalanced(x, s, i) ==
    {Placed(s[j], task[s[j]].ver, x.bucket, HintsForN(IF j < i THEN j ELSE j + 1)) : j \in DOMAIN s}
    \cup {Placed(x.row, x.read.ver, x.bucket, HintsForN(i))}

NeverRebalanced(x, s) == \* mutant
    LET i == Slot(s, x.place)
        h == HintBetween(HintAt(s, i - 1), HintAt(s, i))
    IN {Placed(x.row, x.read.ver, x.bucket, h)}
\* Nothing is written when the task is there already.
MoveWrites(x, s) ==
    LET i == Slot(s, x.place)
        h == HintBetween(HintAt(s, i - 1), HintAt(s, i))
    IN IF h = None THEN Rebalanced(x, s, i)
       ELSE IF x.bucket = x.read.bucket /\ h = x.read.hint THEN {}
       ELSE {Placed(x.row, x.read.ver, x.bucket, h)}

\* A neighbour that is not in the bucket fails the request (Abort).
ListForMove(e) ==
    \E s \in Listings(LiveIn(tx[e].bucket) \ {tx[e].row}) :
        /\ tx[e].place.side # "tail" => \E i \in DOMAIN s : s[i] = tx[e].place.of
        /\ Lists(e, "move", MoveWrites(tx[e], s))

TailByCount(b) == {Cardinality(LiveIn(b)) * Gap} \* mutant
\* A new task goes to the tail of its bucket, after the greatest hint in it.
TailHint(b) ==
    IF LiveIn(b) = {} THEN {HintBetween(None, None)}
    ELSE {HintBetween(task[t].hint, None) :
            t \in {t \in LiveIn(b) : \A u \in LiveIn(b) : task[u].hint <= task[t].hint}}

Created(x, h) ==
    [row |-> x.row, kind |-> "create", from |-> 0, cols |-> {"bucket", "hint"},
     bucket |-> x.bucket, hint |-> h]

ListForCreate(e) ==
    \E h \in TailHint(tx[e].bucket) : Lists(e, "create", {Created(tx[e], h)})

\* Every live task of a deleted bucket is deleted with it.
Doomed(b) == LiveIn(b)

ListForDelete(e) ==
    Lists(e, "deleteBucket", {Sets("deleteBucket", tx[e].row, tx[e].read)}
                             \cup {Sets("delete", t, task[t]) : t \in Doomed(tx[e].bucket)})

-----------------------------------------------------------------------------
(* The writes and the commit                                               *)

AppliedToTask(w, r) ==
    [state |-> IF w.kind = "delete" THEN "deleted"
               ELSE IF w.kind \in {"restore", "create"} THEN "live" ELSE r.state,
     ver |-> w.from + 1,
     bucket |-> IF "bucket" \in w.cols THEN w.bucket ELSE r.bucket,
     hint |-> IF "hint" \in w.cols THEN w.hint ELSE r.hint,
     progress |-> IF w.kind = "complete" THEN "done"
                  ELSE IF w.kind = "reopen" THEN "open" ELSE r.progress]

AppliedToBucket(w, r) ==
    [state |-> IF w.kind = "deleteBucket" THEN "deleted" ELSE r.state, ver |-> w.from + 1]

Written(x) == {w.row : w \in x.todo}
WriteOf(x, r) == CHOOSE w \in x.todo : w.row = r

Row(r) == IF r \in Tasks THEN task[r] ELSE bucket[r]
Outdated(x) ==
    {w.row : w \in {w \in x.todo :
                      (IF w.row = x.row THEN x.expected ELSE w.from) # Row(w.row).ver}}

\* Rows another transaction changed after this one read them, and the tasks that
\* came to this one's bucket, or whose bucket went, behind its back.
Clash(x) ==
    LET strangers == x.late \cap LiveIn(x.bucket)
        gone == x.bucket \in x.late /\ bucket[x.bucket].state = "deleted"
    IN (x.late \cap Written(x))
       \cup (IF x.op \in {"move", "create", "deleteBucket"} /\ x.todo # {}
             THEN strangers \cup {r \in {x.row} : strangers # {} \/ gone}
             ELSE {})

Commit(e) ==
    LET x == tx[e]
    IN /\ x.stage = "write"
       /\ x.op # "deleteBucket" => \A r \in Written(x) \cap Buckets : ~Locked(r)
       /\ task' = [t \in Tasks |-> IF t \in Written(x) THEN AppliedToTask(WriteOf(x, t), task[t])
                                  ELSE task[t]]
       /\ bucket' = [b \in Buckets |-> IF b \in Written(x) THEN AppliedToBucket(WriteOf(x, b), bucket[b])
                                      ELSE bucket[b]]
       /\ tx' = [f \in Editors |->
                   IF f = e THEN Idle
                   ELSE IF tx[f].stage = "idle" THEN tx[f]
                   ELSE Goes(tx[f], tx[f].stage, tx[f].todo, tx[f].late \cup Written(x))]
       /\ unchecked' = (unchecked \ (IF x.op = "move" THEN Written(x) \cap {x.row} ELSE {}))
                      \cup (IF x.op = "restore" \/ (x.op = "update" /\ \E w \in x.todo : w.cols # {})
                            THEN {x.row} ELSE {})
       /\ raced' = raced \cup Clash(x)
       /\ stale' = stale \cup Outdated(x)
       /\ UNCHANGED edits

\* A check or a statement fails, the connection is lost, or Postgres picks this
\* transaction to break a deadlock: withEmit rolls it back.
Abort(e) ==
    /\ tx[e].stage # "idle"
    /\ tx' = [tx EXCEPT ![e] = Idle]
    /\ UNCHANGED <<task, bucket, unchecked, raced, stale, edits>>

Places == {p \in Place : p.side = "tail" <=> p.of = None}

\* What a request may begin with.  That it may begin is asked first: TLC then leaves
\* the rest alone in states where it may not.
Begins(e) ==
    /\ tx[e].stage = "idle" /\ edits < MaxEdits
    /\ \/ \E t \in Tasks :
           \/ \E b \in Columns, h \in NamedHints, v \in 1..task[t].ver : UpdateTask(e, t, b, h, v)
           \/ \E op \in {"complete", "reopen", "delete"}, v \in 1..task[t].ver : EditTask(e, op, t, v)
           \/ RestoreTask(e, t)
           \/ \E b \in Columns, p \in Places, v \in 1..task[t].ver : MoveTask(e, t, b, p, v)
           \/ \E b \in Columns : CreateTask(e, t, b)
       \/ \E b \in Buckets : \E v \in 1..bucket[b].ver :
           UpdateBucket(e, b, v) \/ DeleteBucket(e, b, v)

Next ==
    \E e \in Editors :
        \/ Begins(e)
        \/ LockBucket(e) \/ ListForMove(e) \/ ListForCreate(e) \/ ListForDelete(e)
        \/ Commit(e) \/ Abort(e)

Spec == Init /\ [][Next]_vars

-----------------------------------------------------------------------------
(* What holds                                                              *)

\* A row is overwritten with its version moved on only when another transaction
\* changed it between this one's read and its commit: what a client saw before the
\* request began cannot be lost.
StaleOnlyIfRaced == stale \subseteq raced

Quiet == Tasks \ (raced \cup unchecked)

\* No live task is left in a deleted bucket, however moves, creations and deletions
\* follow each other, unless two of them overlapped, or the task was restored or given
\* its bucket by updateTask.
LiveTaskInLiveBucket ==
    \A t \in Quiet : task[t].state = "live" /\ task[t].bucket # None => bucket[task[t].bucket].state = "live"

\* Two live tasks of a bucket have different hints, so that the order users see is
\* one order, under the same exceptions.
HintsDistinct ==
    \A t, u \in Quiet :
        /\ t # u
        /\ task[t].state = "live" /\ task[u].state = "live" /\ task[t].bucket = task[u].bucket
        => task[t].hint # task[u].hint

Lands(x) ==
    LET h(t) == task'[t].hint
        others == {t \in Tasks \ {x.row} : task'[t].state = "live" /\ task'[t].bucket = x.bucket}
    IN /\ task'[x.row].bucket = x.bucket
       /\ CASE x.place.side = "tail" -> \A t \in others : h(t) < h(x.row)
            [] x.place.side = "before" ->
                 /\ h(x.row) < h(x.place.of)
                 /\ \A t \in others : h(t) < h(x.row) \/ h(t) >= h(x.place.of)
            [] x.place.side = "after" ->
                 /\ h(x.row) > h(x.place.of)
                 /\ \A t \in others : h(t) > h(x.row) \/ h(t) <= h(x.place.of)

\* A move that no other commit overtook puts its task exactly where the user dropped
\* it, next to the neighbour named, even among tasks whose hints tie after a race
\* (the rebalance).
MoveLands ==
    [][\A e \in Editors : Commit(e) /\ tx[e].op = "move" /\ tx[e].late = {} => Lands(tx[e])]_vars
=============================================================================
