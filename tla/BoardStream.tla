---------------------------- MODULE BoardStream ----------------------------
(***************************************************************************)
(* One browser that shows a board: the list of tasks in its query cache,   *)
(* and the three ways in which the list changes.                           *)
(*                                                                         *)
(* A transaction that edits a task emits an event.  A tap polls the events *)
(* past a watermark and hands them to a hub, which writes them to the      *)
(* server-sent stream of each browser, which patches the list.  The user's *)
(* own edits are shown before they are sent, and merged or rolled back     *)
(* when they are answered.  And the whole list is fetched: at first, when  *)
(* the window gets the focus, and when an event says so.                   *)
(*                                                                         *)
(* The tap and the hub are in one process (startBoth).  The races of two   *)
(* transactions are PlannerBoard's: here a transaction takes its instant   *)
(* when it begins, and reads and writes in one step.  A task is its        *)
(* version and, for each field, the version that wrote it.                 *)
(*                                                                         *)
(* Some fields never reach the list by an event: the fold has no branch    *)
(* for assignee_priority, description_text and the external ids, but takes *)
(* the version of an event that writes them.  A user's own edit names none *)
(* of these; the server may write them along (description_text).           *)
(*                                                                         *)
(* The query client (TanStack Query) and the browser are libraries.        *)
(***************************************************************************)
EXTENDS Naturals, FiniteSets, Sequences

CONSTANTS
    Tasks, Fields,
    Folded,     \* the fields that mergeTaskPatch has a branch for
    Others,     \* edits by other users, a transaction each
    Mutations,  \* edits by the user of this browser
    Existing,   \* the tasks there are at first
    MaxEdits,   \* bound: edits that are made
    MaxExtras   \* bound: times the window gets the focus, lost requests and answers,
                \* broken streams and restarts

ASSUME EditsAreApart == Others \cap Mutations = {} /\ Mutations \cap Nat = {}
ASSUME ExistingAreTasks == Existing \subseteq Tasks
ASSUME SomeTask == Tasks # {} /\ Folded # {} /\ Folded \subseteq Fields
ASSUME BoundsAreNatural == MaxEdits \in Nat /\ MaxExtras \in Nat

VARIABLES
    row,     \* planner.tasks
    events,  \* core.events, of these tasks
    clock,   \* instants drawn so far
    began,   \* when the open transaction of an edit began; 0: it has none
    over,    \* edits of others that are over
    mark,    \* the tap's watermark
    stream,  \* whether the hub knows a connection of the browser
    wire,    \* events written to the stream and not received
    loaded,  \* whether the list was ever fetched
    list,    \* what it shows
    fetch,   \* the request for the list, and its answer
    mut,     \* the user's edits
    cause,   \* (history) mishaps since the list was last fetched in peace
    calm,    \* (history) the answer under way was taken in peace
    upset,   \* (history) edits in flight whose ledger is out of date
    patched, \* (history) tasks given a version after a conflict, since then
    skipped, \* (history) fields that an event wrote and the fold left alone, since then
    spent    \* (bound)

server == <<row, events, clock, began, over>>
client == <<loaded, list, fetch, mut, upset, patched, skipped>>
vars == <<row, events, clock, began, over, mark, stream, wire, loaded, list, fetch, mut,
          cause, calm, upset, patched, skipped, spent>>

Edits == Others \cup Mutations
Row == [state: {"absent", "live", "deleted"}, ver: Nat, by: [Fields -> Nat]]
Event == [at: Nat, task: Tasks, kind: {"edit", "delete", "restore", "create"}, ver: Nat,
          fields: SUBSET Fields]
\* What is shown of a task; a field may show what one of the user's edits would write.
Shown == [state: {"hidden", "shown"}, ver: Nat, by: [Fields -> Nat \cup Mutations]]
Mishaps == {"late", "inverted", "offline", "overtaken", "rollback"}
\* under: the edits in flight when it was made; doubt, missed: (history) a mishap by
\* then, and the fields of its task that were skipped.
Mutation == [pc: {"idle", "sent", "ok", "conflict", "lost", "done", "failed"},
             task: Tasks, kind: {"edit", "delete"}, fields: SUBSET Folded, expected: Nat,
             ledger: [Tasks -> Shown], under: SUBSET Mutations, doubt: {"none", "mishap", "patched"},
             missed: SUBSET Fields, answer: Row]
Flying == {"sent", "ok", "conflict", "lost"}

TypeOK ==
    /\ row \in [Tasks -> Row]
    /\ events \subseteq Event
    /\ clock \in Nat /\ mark \in Nat
    /\ began \in [Edits -> Nat]
    /\ over \subseteq Others
    /\ stream \in {"open", "closed"}
    /\ wire \in Seq(Event)
    /\ loaded \in {"no", "yes"}
    /\ list \in [Tasks -> Shown]
    /\ fetch \in [pc: {"idle", "asked", "answered"}, got: [Tasks -> Row]]
    /\ mut \in [Mutations -> Mutation]
    /\ cause \subseteq Mishaps
    /\ calm \in BOOLEAN
    /\ upset \subseteq Mutations
    /\ patched \subseteq Tasks
    /\ skipped \subseteq Tasks \X Fields
    /\ spent \in [{"edit", "extra"} -> Nat]

Absent == [state |-> "absent", ver |-> 0, by |-> [f \in Fields |-> 0]]
First == [state |-> "live", ver |-> 1, by |-> [f \in Fields |-> 1]]
Hidden == [state |-> "hidden", ver |-> 0, by |-> [f \in Fields |-> 0]]
\* listTasks leaves out what is deleted.
Listed(r) == IF r.state = "live" THEN [state |-> "shown", ver |-> r.ver, by |-> r.by] ELSE Hidden

InFlight == {m \in Mutations : mut[m].pc \in Flying}
AnyTask == CHOOSE t \in Tasks : TRUE
Empty == [t \in Tasks |-> Hidden]
\* An edit of the user's that has no more to do.
Spare(pc, under, answer) ==
    [pc |-> pc, task |-> AnyTask, kind |-> "edit", fields |-> {}, expected |-> 0,
     ledger |-> Empty, under |-> under, doubt |-> "none", missed |-> {}, answer |-> answer]
Turned(m, pc, answer) ==
    [pc |-> pc, task |-> mut[m].task, kind |-> mut[m].kind, fields |-> mut[m].fields,
     expected |-> mut[m].expected, ledger |-> mut[m].ledger, under |-> mut[m].under,
     doubt |-> mut[m].doubt, missed |-> mut[m].missed, answer |-> answer]
NotGot == [t \in Tasks |-> Absent]

\* The board is opened: its list is asked for, and its stream is not connected yet.
Init ==
    /\ row = [t \in Tasks |-> IF t \in Existing THEN First ELSE Absent]
    /\ events = {} /\ clock = 0 /\ mark = 0
    /\ began = [x \in Edits |-> 0]
    /\ over = {}
    /\ stream = "closed" /\ wire = << >>
    /\ loaded = "no" /\ list = Empty
    /\ fetch = [pc |-> "asked", got |-> NotGot]
    /\ mut = [m \in Mutations |-> Spare("idle", {}, Absent)]
    /\ cause = {} /\ calm = FALSE /\ upset = {} /\ patched = {} /\ skipped = {}
    /\ spent = [w \in {"edit", "extra"} |-> 0]

Notes(c) == cause' = cause \cup c /\ calm' = (calm /\ c = {})
NoMishap == Notes({})
Spend(what, bound) == spent[what] < bound /\ spent' = [spent EXCEPT ![what] = @ + 1]
Extra == Spend("extra", MaxExtras)

-----------------------------------------------------------------------------
(* Transactions: packages/planner/src/backend/domain.                      *)

Begin(x) ==
    /\ began[x] = 0
    /\ \/ x \in Others \ over /\ Spend("edit", MaxEdits)
       \/ x \in Mutations /\ mut[x].pc = "sent" /\ UNCHANGED spent
    /\ clock' = clock + 1
    /\ began' = [began EXCEPT ![x] = clock + 1]
    /\ NoMishap
    /\ UNCHANGED <<row, events, over, mark, stream, wire, client>>

Possible(t, kind) ==
    \/ kind \in {"edit", "delete"} /\ row[t].state = "live"
    \/ kind = "restore" /\ row[t].state = "deleted"
    \/ kind = "create" /\ row[t].state = "absent"

Edited(r, kind, fs) ==
    IF kind = "create" THEN First
    ELSE [state |-> IF kind = "delete" THEN "deleted" ELSE "live",
          ver |-> r.ver + 1,
          by |-> [f \in Fields |-> IF f \in fs THEN r.ver + 1 ELSE r.by[f]]]

\* An event is late when the tap is past its instant, and inverted when the tap will
\* meet it before one of an earlier version of its task.
Publishes(x, t, kind, fs) ==
    /\ began[x] # 0 /\ Possible(t, kind) /\ (kind = "edit" <=> fs # {})
    /\ row' = [row EXCEPT ![t] = Edited(row[t], kind, fs)]
    /\ events' = events \cup
         {[at |-> began[x], task |-> t, kind |-> kind, ver |-> row'[t].ver, fields |-> fs]}
    /\ Notes((IF began[x] <= mark THEN {"late"} ELSE {})
             \cup (IF \E e \in events : e.task = t /\ e.at > began[x] THEN {"inverted"} ELSE {}))
    /\ began' = [began EXCEPT ![x] = 0]
    /\ UNCHANGED <<clock, mark, stream, wire, loaded, list, fetch, upset, patched, skipped, spent>>

\* Another user's edit, that is not refused.
CommitOther(x, t, kind, fs) ==
    /\ Publishes(x, t, kind, fs)
    /\ over' = over \cup {x}
    /\ UNCHANGED mut

\* Variant of UpToDate: no check.
UpToDateAlways(r, expected) == TRUE

\* updateTask, deleteTask: the version the browser sent is compared.
UpToDate(r, expected) == r.ver = expected

\* The browser may have given up.
Answered(m, pc, r) ==
    mut' = IF mut[m].pc = "sent" THEN [mut EXCEPT ![m] = Turned(m, pc, r)] ELSE mut

\* The answer carries the row that was written.
CommitMine(m) ==
    LET t == mut[m].task IN
    /\ UpToDate(row[t], mut[m].expected)
    /\ \E along \in SUBSET (Fields \ Folded) :
          Publishes(m, t, mut[m].kind, mut[m].fields \cup along)
    /\ Answered(m, "ok", row'[t])
    /\ UNCHANGED over

\* CONFLICT carries the version of the row; NOT_FOUND, of a deleted row, carries none.
RefuseMine(m) ==
    LET r == row[mut[m].task] IN
    /\ began[m] # 0
    /\ \/ r.state = "live" /\ ~UpToDate(r, mut[m].expected) /\ Answered(m, "conflict", r)
       \/ r.state # "live" /\ Answered(m, "lost", r)
    /\ began' = [began EXCEPT ![m] = 0]
    /\ NoMishap
    /\ UNCHANGED <<row, events, clock, over, mark, stream, wire, loaded, list, fetch, upset, patched,
                   skipped, spent>>

\* The request, or its answer, is lost: the browser sees an error without a version.
LoseMine(m) ==
    /\ mut[m].pc \in {"sent", "ok", "conflict"}
    /\ Extra
    /\ mut' = [mut EXCEPT ![m] = Turned(m, "lost", Absent)]
    /\ NoMishap
    /\ UNCHANGED <<server, mark, stream, wire, loaded, list, fetch, upset, patched, skipped>>

-----------------------------------------------------------------------------
(* core/src/runtime/dispatcher/index.ts, event-tap.ts, and the hub.        *)

Untapped == {e \in events : e.at > mark}
\* A tick is one such step for each event it reads.
Tap ==
    /\ \E e \in Untapped :
         /\ \A g \in Untapped : e.at <= g.at
         /\ mark' = e.at
         /\ wire' = IF stream = "open" THEN Append(wire, e) ELSE wire
    /\ Notes(IF stream = "open" THEN {} ELSE {"offline"})
    /\ UNCHANGED <<server, stream, client, spent>>

Connect ==
    /\ stream = "closed"
    /\ stream' = "open"
    /\ NoMishap
    /\ UNCHANGED <<server, mark, wire, client, spent>>

Disconnect ==
    /\ stream = "open" /\ Extra
    /\ stream' = "closed" /\ wire' = << >>
    /\ Notes(IF wire = << >> THEN {} ELSE {"offline"})
    /\ UNCHANGED <<server, mark, client>>

\* The process restarts: transactions are rolled back, and the watermark is the last
\* event there is.
Restart ==
    /\ Extra
    /\ began' = [x \in Edits |-> 0]
    /\ over' = over \cup {x \in Others : began[x] # 0}
    /\ mut' = [m \in Mutations |-> IF began[m] # 0 /\ mut[m].pc = "sent"
                                   THEN Turned(m, "lost", Absent) ELSE mut[m]]
    /\ mark' \in {i \in {0} \cup {e.at : e \in events} : \A e \in events : e.at <= i}
    /\ stream' = "closed" /\ wire' = << >>
    /\ Notes(IF wire = << >> /\ Untapped = {} THEN {} ELSE {"offline"})
    /\ UNCHANGED <<row, events, clock, loaded, list, fetch, upset, patched, skipped>>

-----------------------------------------------------------------------------
(* The list is fetched (external: the query client).                       *)

\* A request under way is repeated, unless it is the first.
Invalidated == IF fetch.pc = "answered" /\ loaded = "no" THEN fetch
               ELSE [pc |-> "asked", got |-> NotGot]

Focus ==
    /\ fetch.pc = "idle" /\ Extra
    /\ fetch' = [pc |-> "asked", got |-> NotGot]
    /\ NoMishap
    /\ UNCHANGED <<server, mark, stream, wire, loaded, list, mut, upset, patched, skipped>>

\* In peace: no event is on its way, and no edit in flight.
AnswerFetch ==
    /\ fetch.pc = "asked"
    /\ fetch' = [pc |-> "answered", got |-> row]
    /\ calm' = (Untapped = {} /\ wire = << >> /\ InFlight = {})
    /\ UNCHANGED <<server, mark, stream, wire, loaded, list, mut, cause, upset, patched, skipped, spent>>

LandFetch ==
    /\ fetch.pc = "answered"
    /\ loaded' = "yes" /\ list' = [t \in Tasks |-> Listed(fetch.got[t])]
    /\ fetch' = [pc |-> "idle", got |-> NotGot]
    /\ upset' = InFlight
    /\ IF calm THEN cause' = {} /\ patched' = {} /\ skipped' = {}
       ELSE UNCHANGED <<cause, patched, skipped>>
    /\ calm' = FALSE
    /\ UNCHANGED <<server, mark, stream, wire, mut, spent>>

-----------------------------------------------------------------------------
(* state/apply-planner-event.ts                                            *)

\* mergeTaskPatch: what it has no branch for stays as it was.
Merged(by, e) == [f \in Fields |-> IF f \in e.fields \cap Folded THEN e.ver ELSE by[f]]

\* Variant of Patched that leaves the version alone.
PatchedFieldOnly(s, e) ==
    IF e.kind = "edit" /\ s.state = "shown"
    THEN [state |-> "shown", ver |-> s.ver, by |-> Merged(s.by, e)]
    ELSE IF e.kind = "create" /\ s.state = "hidden" THEN Listed(First)
    ELSE IF e.kind = "delete" THEN Hidden
    ELSE s

\* An update patches what it has a branch for, and the version; a move, a completion
\* and a reopening write nothing else.
Patched(s, e) ==
    IF e.kind = "edit" /\ s.state = "shown"
    THEN [state |-> "shown", ver |-> e.ver, by |-> Merged(s.by, e)]
    ELSE IF e.kind = "create" /\ s.state = "hidden" THEN Listed(First)
    ELSE IF e.kind = "delete" THEN Hidden
    ELSE s

Passed(s, e) == {f \in e.fields \ Folded : s.state = "shown" /\ s.by[f] # e.ver}

Receive ==
    /\ wire # << >>
    /\ LET e == Head(wire) IN
       /\ list' = IF loaded = "no" THEN list
                  ELSE [list EXCEPT ![e.task] = Patched(list[e.task], e)]
       /\ skipped' = skipped \cup ({e.task} \X Passed(list[e.task], e))
       /\ fetch' = IF e.kind = "restore" THEN Invalidated ELSE fetch
       /\ Notes(IF fetch'.pc = "answered" /\ fetch.got[e.task].ver < e.ver THEN {"overtaken"} ELSE {})
    /\ wire' = Tail(wire)
    /\ upset' = InFlight
    /\ UNCHANGED <<server, mark, stream, loaded, mut, patched, spent>>

-----------------------------------------------------------------------------
(* hooks/use-optimistic-mutation.ts, and the mutations of a task.          *)

Tagged(m, by, fs) == [f \in Fields |-> IF f \in fs THEN m ELSE by[f]]

\* Variant of Optimistic that tags the version too.
OptimisticVersion(m, s, kind, fs) ==
    IF kind = "delete" THEN Hidden ELSE [state |-> s.state, ver |-> m, by |-> Tagged(m, s.by, fs)]

Optimistic(m, s, kind, fs) ==
    IF kind = "delete" THEN Hidden ELSE [state |-> s.state, ver |-> s.ver, by |-> Tagged(m, s.by, fs)]

\* Variant of Snapshot: the list is noted after it was changed.
SnapshotAfterwards(m, t, kind, fs) == [list EXCEPT ![t] = Optimistic(m, list[t], kind, fs)]

\* The ledger holds the whole list, other edits in flight included.
Snapshot(m, t, kind, fs) == list

Mutate(m, t, kind, fs) ==
    /\ mut[m].pc = "idle" /\ Spend("edit", MaxEdits)
    /\ loaded = "yes" /\ list[t].state = "shown" /\ (kind = "edit" <=> fs # {})
    /\ mut' = [mut EXCEPT ![m] =
                 [pc |-> "sent", task |-> t, kind |-> kind, fields |-> fs,
                  expected |-> list[t].ver, ledger |-> Snapshot(m, t, kind, fs), under |-> InFlight,
                  doubt |-> IF cause # {} THEN "mishap" ELSE IF t \in patched THEN "patched" ELSE "none",
                  missed |-> {f \in Fields : <<t, f>> \in skipped}, answer |-> Absent]]
    /\ list' = [list EXCEPT ![t] = Optimistic(m, list[t], kind, fs)]
    /\ NoMishap
    /\ UNCHANGED <<server, mark, stream, wire, loaded, fetch, upset, patched, skipped>>

Settle(m, pc) ==
    mut' = [mut EXCEPT ![m] = IF began[m] = 0 THEN Spare(pc, mut[m].under, mut[m].answer)
                               ELSE Turned(m, pc, mut[m].answer)]

\* onServerOk: the row of the answer replaces the one shown, whatever its version.
Succeed(m) ==
    LET t == mut[m].task
        r == mut[m].answer
    IN
    /\ mut[m].pc = "ok"
    /\ Settle(m, "done")
    /\ list' = IF mut[m].kind = "edit" /\ list[t].state = "shown"
               THEN [list EXCEPT ![t] = Listed(r)] ELSE list
    /\ Notes(IF mut[m].kind = "edit" /\ list[t].ver > r.ver THEN {"overtaken"} ELSE {})
    /\ upset' = upset \ {m}
    /\ UNCHANGED <<server, mark, stream, wire, loaded, fetch, patched, skipped, spent>>

\* patchTaskVersion
Versioned(s, v) == [state |-> s.state, ver |-> IF s.state = "shown" THEN v ELSE s.ver, by |-> s.by]

\* onError: the whole list is put back; after a conflict the task is given the version.
Fail(m) ==
    LET t == mut[m].task
        back == mut[m].ledger
    IN
    /\ mut[m].pc \in {"conflict", "lost"}
    /\ Settle(m, "failed")
    /\ list' = IF mut[m].pc = "conflict" THEN [back EXCEPT ![t] = Versioned(back[t], mut[m].answer.ver)]
                ELSE back
    /\ Notes(IF m \in upset THEN {"rollback"} ELSE {})
    /\ patched' = IF mut[m].pc = "conflict" THEN patched \cup {t} ELSE patched
    /\ upset' = InFlight \ {m}
    /\ UNCHANGED <<server, mark, stream, wire, loaded, fetch, skipped, spent>>

-----------------------------------------------------------------------------

ServerStep ==
    \/ \E x \in Edits : Begin(x)
    \/ \E x \in {y \in Others : began[y] # 0}, t \in Tasks, fs \in SUBSET Fields,
          kind \in {"edit", "delete", "restore", "create"} : CommitOther(x, t, kind, fs)
    \/ \E m \in Mutations : CommitMine(m) \/ RefuseMine(m) \/ LoseMine(m)
    \/ Tap \/ Connect \/ Disconnect \/ Restart \/ AnswerFetch
ClientStep ==
    \/ Focus \/ LandFetch \/ Receive
    \/ \E m \in Mutations : Succeed(m) \/ Fail(m)
    \/ \E m \in Mutations, t \in Tasks, fs \in SUBSET Folded, kind \in {"edit", "delete"} :
          Mutate(m, t, kind, fs)

Next == ServerStep \/ ClientStep
Spec == Init /\ [][Next]_vars

-----------------------------------------------------------------------------
(* Properties.                                                             *)

\* Nothing is under way that could still change the list.
Quiet ==
    /\ \A x \in Edits : began[x] = 0
    /\ Untapped = {} /\ wire = << >>
    /\ loaded = "yes" /\ fetch.pc = "idle" /\ InFlight = {}

\* The value of a field: what an edit of the user's wrote is its version.
Means(v) == IF v \in Mutations /\ mut[v].pc = "done" THEN mut[v].answer.ver ELSE v

Drift(t) ==
    \/ (list[t].state = "shown") # (row[t].state = "live")
    \/ /\ list[t].state = "shown"
       /\ \/ list[t].ver # row[t].ver
          \/ \E f \in Fields : <<t, f>> \notin skipped /\ Means(list[t].by[f]) # row[t].by[f]

\* When all is quiet, the list shows the tasks as they are, unless an event was late,
\* inverted or missed, an answer overtaken, or a list rolled back over news; and but for
\* the fields without a branch that an event wrote since the list was fetched.
DriftForCause == Quiet => cause # {} \/ \A t \in Tasks : ~Drift(t)

\* The list shows a value that was never written, with no edit in flight, only if two
\* edits overlapped and both failed: the later ledger held the earlier edit.
PhantomForCause ==
    InFlight = {} =>
        \A t \in Tasks, f \in Fields :
            LET v == list[t].by[f] IN
            v \in Mutations /\ mut[v].pc = "failed" =>
                \E n \in Mutations : mut[n].pc = "failed" /\ v \in mut[n].under

\* Fields the user saw differ from those the edit was checked against, besides those
\* that the fold had left alone.
Unseen(m) ==
    LET s == mut[m].ledger[mut[m].task] IN
    \E f \in Fields \ mut[m].missed : s.by[f] \notin Mutations /\ s.by[f] # row[mut[m].task].by[f]

\* An edit is accepted from a user who did not see the task as it was only after a
\* mishap, or if a conflict had given the task its version but not its fields.
BlindForCause ==
    [][\A m \in Mutations :
         CommitMine(m) /\ Unseen(m) => mut[m].doubt # "none"]_vars
=============================================================================
