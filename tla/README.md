# Seta in TLA+

Specifications of the Seta Agentic Platform, the TLC runs that check them on small instances, and TLAPS proofs of the
results that matter most. Paths below are relative to the repository; `D/` stands for
`packages/core/src/runtime/dispatcher/`, `A/` for `packages/agent/src/backend/`, `P/` for
`packages/planner/src/backend/`, `K/` for `packages/knowledge/src/backend/`, `M/` for `packages/shared-mailer/src/` and
`W/` for `apps/web/src/modules/planner/`.

| Module | Models | Status |
|---|---|---|
| `EventDelivery` | what the event bus promises a subscription (abstract) | checked, refinement proved |
| `EventBus`, `EventBusInv` | the transactional outbox and the dispatcher | checked |
| `EventBusProofs` | typing, the inductive invariant, the refinement | proved |
| `ApprovalFlow` | one workflow run with a human in the loop | checked |
| `ApprovalFlowProofs` | typing, the cards, the verdicts, runs that are over | proved |
| `SessionCache` | session scopes and their three caches | checked |
| `SessionCacheProofs` | typing, the freshness of the durable rows and the cached scopes | proved |
| `PlannerBoard` | transactions that edit the buckets and tasks of a board | checked |
| `PlannerBoardProofs` | typing, overwritten versions, deleted buckets, the order of a bucket, where moves land | proved |
| `BoardStream`, `BoardStreamInv` | one browser's list of tasks: events, own edits, fetches | checked |
| `BoardStreamProofs` | typing, values never written | proved |
| `BoardStreamDriftProofs` | drift and blind edits only for a cause | proved |
| `MailDelivery` | what the mail outbox promises about a mail (abstract) | checked, refinement proved |
| `MailOutbox` | the row, the events and the job of a mail | checked |
| `MailOutboxProofs` | typing, the refinement, jobs and outcomes | proved |
| `KnowledgeFile` | scan, parse, embed and deletion of one file | checked |
| `KnowledgeFileProofs` | typing and every safety invariant | proved |
| `MC*` | the constants of the TLC instances | |

Run a check with `tlc -config bus_safety.cfg MCEventBus.tla` and a proof with `tlapm EventBusProofs.tla`.
Every run, mutant, mapped line, finding and hazard is listed in `PROJECT.json`.

## The system

Seta is a TypeScript monorepo. `apps/server` serves HTTP, `apps/worker` runs the dispatcher and background jobs,
`apps/web` is the client, and each business area is a package with a Postgres schema of its own. Processes share
nothing but Postgres. Packages interact in three ways: calls inside a process; rows of `core.events`, written in the
producer's transaction and handed to subscribers later (the event bus); and jobs of graphile-worker.

| Component | State | Operations | Hard behaviour | What makes it correct |
|---|---|---|---|---|
| Event bus (`packages/core/src/events`, `D/`) | `events`, cursors, failure rows, dead letters | emit, drain, retry, dead-letter | replicas, aborts, rows that commit late | one outcome per event, in order, none skipped |
| Runs and approvals (`A/workflows`) | runs, approval cards, events seen, the engine's snapshot | start, suspend, decide, expire, retry, cancel, replay | events projected in any order, restarts between a decision and its resume | one card, one verdict per asking, the engine resumed by it |
| Session scopes (`packages/core/src/session`) | rows, an LRU and an overlay per process | build, invalidate, refresh, expire | a build racing an invalidation, processes that run no handler | a scope is not older than the last handled change |
| Board (`P/domain`) | tasks, buckets | create, edit, move, delete, restore | overlapping READ COMMITTED transactions | no lost edit, no task in a deleted bucket, one order |
| Event taps and streams (`D/index.ts`, `P/stream`, `apps/web`) | a watermark, hubs, the client's cache | tap, push, fold | late rows, reordering, gaps | the client ends with the server's state |
| Mail (`packages/shared-mailer`, `packages/core/src/outbox`) | `outgoing_emails`, jobs | enqueue, send, mark | crashes between the three systems | every mail sent, none for ever pending |
| Orchestration (`packages/shared-orchestration`, staffing) | runs, steps, jobs | start, step, complete | repeated jobs | a step is done once, a run ends once |
| Assignment proposals (`A/routes/workflows.ts`) | proposals across runs | start, supersede | two starts at once | one pending proposal per task |
| RPC idempotency, circuit breaker (`packages/core/src/rpc`, `sdks/agent`) | results by key; failures by tool | call, probe | concurrent calls | one body per key, one probe |
| Knowledge files (`packages/knowledge`) | a file's status | upload, scan, parse | a step that fails half-way | a status that says what was done |
| Identity (`packages/identity`) | users, grants, sessions, failed logins | sign in, grant, revoke, deactivate | counts under concurrency | grants take effect (with session scopes) |
| Microsoft 365 (`packages/integrations`) | links, snapshots, conflicts | pull, push, resolve | two masters of one field | last writer per field wins |
| Notifications, reporting, search, CLI, UI, infrastructure | derived rows, none | | little | |

`PROJECT.json` lists each of these with what is modelled of it, or why nothing is.

How the processes are wired matters to several models. `apps/server/src/index.ts:399` calls `startServerRuntime`, which
serves HTTP and can only enqueue jobs. `apps/worker` calls `startWorkerRuntime` with eight packages, without the agent
package and without the subscribers that `apps/server` adds. Nothing calls `startBoth`, which does everything in one
process. So subscribers and jobs that only `apps/server` or the agent package register run nowhere when the
applications are started as they are. The models take the wiring as a constant (`RunBy` in `SessionCache`, `Jobs` in
`ApprovalFlow`), and each run says which one it assumes.

## EventBus and EventDelivery

`EventBus` follows `D/drain.ts` statement by statement. A producer transaction (`Begin`, `Emit`, `Commit`, `Rollback`)
stamps all its rows with the instant it *began*, which is what `now()` gives, while rows appear at commit. A loop of a
subscription goes through `Check` (the failure row is read outside the transaction), `Miss` and `Seed` (no cursor row
to lock), `Open` (the cursor row is locked with SKIP LOCKED and a batch is read), then `Handle`, `FailAndHalt` or
`FailForGood` for each event, in order, and `Settle`, the commit of cursor, failure row, dead letters and whatever the
handlers emitted. `Abort` drops a drain at any point; `Shutdown` and `Start` stop and restart a loop; `BackoffElapses`
is time. Handlers may emit events (`Cascades`), which are visible only if their savepoint and the outer transaction
commit.

State maps to the code as follows: `table`, `row` are `core.events`; `seeded`, `cursor` are `subscription_cursors`;
`failure` is `subscription_failure_state`; `dead` is `subscription_dead_letter`; `drain[l]` is the open transaction.
`applied` counts committed handler runs (the row of `subscription_processed`, and every write of the handler, stand or
fall with it). `failures` and `overtaken` are observers: no guard reads them.

`EventDelivery` states the contract without cursors, locks or retries: events are published for good; a subscription
gives an event at most one outcome, in key order; only a handler's success publishes more events. `ImplementsDelivery`
is the refinement, with the log read off `table` and outcomes off `applied` and `dead`.

- `bus_safety`: one subscription, two replicas, two producers of two events, a batch limit of two, two attempts, one
  abort or shutdown. The four safety invariants, the refinement and `EventuallySettled`. Two events and two producers
  are the least that give a batch, a remainder after a halt, and a commit out of order; a second replica is the only
  way to a lock conflict; the third is like the second.
- `bus_cascade`: a chain of two subscriptions, where the first one's handler emits what the second one reads; it asks
  `NoPhantomCascade` only, which needs such a chain.
- `bus_late_commit` (violation): `AtLeastOnce`. A producer that begins first and commits last writes a row behind the
  cursor, which is never selected. `NoSilentSkip` says precisely what is true instead: only such events are skipped.

Fairness in `EventuallySettled`: a loop's timer keeps ticking and its statements return (`subscriber-loop.ts`), a
stopped process is started again, back-offs end. Producers owe nothing. A handler that never returns is not covered.

The proofs rest on `BusInv` (`EventBusInv`). The safety properties speak of committed rows, and are not inductive: what
will be committed sits in the open drains. `BusInv` adds the exclusive lock, the place of each event of a drain between
the cursor and the drain's position (`DrainPlaces`), that between them only overtaken events are missing
(`DrainSkipsNone`), that attempts counted in the transaction were made (`DrainCounts`), and that emitted rows belong to
successful handlers (`DrainEmits`). `EventBusProofs` proves `TypeOK`, `BusInv`, the five safety properties, and the
refinement, for any sets of events, subscriptions, loops and producers and any bounds. The refinement of a drain's
commit needs that all events of the drain lie beyond the cursor and all settled ones do not. `EventuallySettled` is only
model-checked.

Met while modelling, but not kept as runs: events of one transaction have equal timestamps and are ordered by random
uuid (`D/drain.ts:86`); a replica that read the failure row early runs the handler inside another one's back-off
(`D/drain.ts:42`); `clearFailureState` deletes the row whichever event it is about, which is harmless as only the first
unsettled event can have one (`FailureIsAhead`).

## ApprovalFlow

One run. The engine is Mastra's, external: it suspends at a step, can be resumed only there, and publishes its events on
an emitter that waits for no handler. Everything around it is the code: `Project` and `RetryJob` run the projection
(`A/workflows/_infra/lifecycle-hook.ts`), `Decide` is `recordApprovalDecision`, `Sweep` and `RetryPick` the two jobs,
`Resume` and `ResumeFails` the call of `run.resume` that follows a committed transaction, `CancelReads` and
`CancelPublishes` the two halves of a cancellation, `Replay` the route of that name. `Crash` forgets what is only in
memory: events on their way, calls not made.

- `flow_jobs`: two steps, one whose id has a dot, a replay, both jobs scheduled, and any two of a failed call, a failed
  handler and a job run twice. At most one pending card (`OnePending`), one verdict each time a card is asked
  (`OneVerdictPerAsk`), a card asked again only for a later suspension (`VerdictStands`), and, until the run is
  replayed, the engine resumed only with the verdict recorded for that suspension (`ResumedByVerdict`).
- `flow_live`: one step, a cancellation, a failure and a restart. A run shown as over has nothing left to decide
  (`NothingToDecideWhenOver`), and a decision reaches the engine or the run is given up (`DecidedIsResumed`). Fairness:
  handlers, jobs and committed transactions are followed up; nobody has to decide. It assumes that the jobs are
  scheduled.
- `flow_duplicate` (violation): the key that makes the projection idempotent contains the millisecond of handling, so a
  second copy of an event has another key, and a card decided in between becomes pending again.

The engine numbers its events in the model (`seq`), which the code does not; properties use it, handlers do not.
Bounds: two steps give a card to supersede, two suspensions a card asked twice, and in `flow_live` two retries a
counted one and a last one.

`ApprovalFlowProofs` proves, for all steps and bounds: `TypeOK`; `OnePending` and `OneVerdictPerAsk` from `CardInv` (a
verdict's number never exceeds how often its card was asked, and while it is pending none has the present number); and
`ResumedByVerdict` from `TurnInv` (until a replay, what a card, a call or an event in flight says about a suspension was
true of it). If each event is delivered once (`Copies = 1`), `VerdictStands` follows from `AskInv`: until a replay a
step suspends once, so the event that would ask its card again is the one that has been handled. With two deliveries it
is false, as `flow_duplicate` shows. Liveness is model-checked only.

`NothingToDecideWhenOver` holds until a replay, with one delivery, if no jobs are scheduled or the run has one step. It
is a matter of what is still to come, so `OutInv` follows the one thing that is outstanding: a suspension not projected
yet, or a pending card, or a call to resume (`Outstanding`). Without jobs a verdict is followed by one call, and an
engine that runs has used it up (`Resting`); with one step nothing is asked after the first verdict (`Single`). The
theorem states these hypotheses because the property is false without any one of them: TLC finds a run.

Limits that the runs' constants reflect. Nothing under `src` schedules `sweepWorkflowApprovals` or `resumeRetry` outside
of tests, hence `Jobs`. With jobs and two steps `NothingToDecideWhenOver` fails: the last retry marks the run failed
while its next card is on the way. After a replay a resume meant for the earlier suspension can answer the later one.
With two steps a late "resumed" leaves the projection at running, which the retry job does not look at. An expired card
whose resume failed stays, as the retry job selects decided cards only (`A/workflows/_infra/resume-retry.ts:35`). An
event whose handler fails and whose job cannot be inserted is never projected (`A/runtime.ts:215`).

## SessionCache

The scope of a user combines grants and the tenant's overlay, both modelled as versions. `getSessionScope` is a chain of
awaits: `Ask`, `ReadRow`, `ReadGrants`, `ResolveHit` or `ResolveLoad` and `ResolveFill`, `Store`, `Keep`. Invalidation
is a handler of the bus: `RefreshLoad`, `RefreshSet` for the overlay, then `InvalidateRows`, `Evict`, `Commit`; it can
fail after any of its steps and is run again. Events of a subscription are handled one at a time and at least once,
which is what `EventBus` provides when no event is overtaken. A request during which a handler took a step is marked
`raced`, and the mark goes with what it stores: the properties say that *only* such scopes can be out of date.

- `session_caches`: two processes that serve requests, each with the handler of one subscription (as `startBoth` gives
  when one process wins the lock of a cursor); one change of each kind, one request, one fault. `RowIsCurrent`,
  `ScopeIsCurrent`, and `ScopesFollowRows`: scopes in a process without the handler are wrong at most until their entries
  age. One change is enough for a build or a load to straddle it and its handler; for `RowIsCurrent` the proof covers
  any number.
- `session_overlay` (violation): with the applications as they are started, an edited overlay never reaches a server.

Fairness: awaited queries return, the dispatcher goes on, entries of the LRU age. `SessionCacheProofs` proves `TypeOK`,
`RowIsCurrent` and `ScopeIsCurrent` for any processes, wiring, sessions and bounds. The first invariant (`SessionInv`)
says what `RowIsCurrent` cannot: once no handler is still to write the rows (`Settled`), requests that have read the
grants and not raced hold the present ones too (`Fresh`). The second (`ScopeInv`) follows the overlay: from the moment a
handler has set it, while it goes on to the rows and the LRU, its process holds the present overlay or a raced one
(`Refreshed`, `OverlayPresent`), or a request would bring an old scope back right after the eviction. Not modelled:
deactivation and idle checks of the middleware, and what follows when an invalidation is dead-lettered.

## PlannerBoard

Handlers of `P/domain` read rows without locks, compare versions, and update by id. What two of them can do to each
other is the whole difficulty, so a transaction is split at its reads: opening (the row is read and checked), the list
of the bucket's tasks (`ListForMove`, `ListForCreate`, `ListForDelete`), and the commit with its writes. Row locks only
decide who goes first, except in `deleteBucket`, which lists tasks while it holds the bucket's row (`LockBucket`).
`Abort` covers failed checks and statements, lost connections and Postgres's deadlock victims. `HintBetween` is the
library's key between two keys; where it would throw, the bucket is rebalanced.

A task gets its place from `moveTask` and `createTask`, which check the bucket and compute the hint, and from
`updateTask`, which does neither: bucket and hint are among the columns it takes from the patch as they are
(`P/domain/update-task.ts:55`, `:184`). The HTTP schema strips both (`P/http/tasks.ts:50`), so this way is open only to
callers in the process; the sync with Microsoft 365 is written as one (`m365/jobs/plan-pull.ts:509`, `plan-push.ts:722`,
not registered yet). `UpdateTask` takes any bucket and any of `NamedHints`: a hint some task has, or one beside or
between those, which are all the cases that the order of hints tells apart. The observer `unchecked` holds the tasks so
placed, and those restored, until a move checks their place again. Left out are a hint of null, which the schema admits
and no caller sends, and the buckets of other plans.

- `planner_board`: three tasks, one bucket and the place outside of buckets, two requests at once, three edits. With two
  requests and three edits a race and a later move among its debris both happen; `Gap = 2^MaxEdits` keeps hints exact.
  `StaleOnlyIfRaced`: an overwritten version is always one that changed while the request ran. `LiveTaskInLiveBucket`,
  `HintsDistinct`: broken only by overlapping requests, by `restoreTask`, which looks at no bucket and gives back an old
  hint, and by a place named to `updateTask`; a single call of the last two is enough, so those tasks are excepted.
  `MoveLands`: a move not overtaken lands next to its neighbour, also through a rebalance of tied hints.

Two overlapping edits with the same `expected_version` both succeed: the version is compared with a row read without a
lock and is not a condition of the UPDATE (`P/domain/update-task.ts:252`), while `task-writes.test.ts:103` expects
CONFLICT of a stale version. The test edits one after the other, for which it is true, so this is no finding of a run:
`StaleOnlyIfRaced` says exactly how far the check reaches. A rebalance moves every live row of a bucket; a task of
`unchecked` among them stays an exception until it is moved itself, since the rebalance looks at no bucket either.

`PlannerBoardProofs` proves `TypeOK`, `StaleOnlyIfRaced` and `LiveTaskInLiveBucket` for any editors, tasks, buckets and
bounds. The invariant (`BoardInv`) is about open transactions: what one of them read is still so, or its row is among
those committed since (`Current`, `Opened`), and its writes have the shape its handler gives them (`Shape`: a move writes
others only in a rebalance of what was listed; a deletion writes every live task that was listed). It is needed because
the properties speak of committed rows while the writes are decided earlier. That every hint is a number rests on the
listing lemmas (`ListingTyped`, `SlotTyped`, `MoveWritesTyped`).

`HintsDistinct` and `MoveLands` follow from `OInv`. The library finds a key between any two keys, while integers run out
of room, so the proofs take a gap that can be halved once per edit (`GapCanBeHalved`; the real keys are dense, so this
costs nothing of the code's generality) and tasks that start in one order (`OrderAtFirst`). `Room` says how much is
left: every hint, and every hint about to be written, is a multiple of what the edits made so far can have halved the
gap to. Two hints that differ therefore leave a place between them, and the rebalance is entered for ties only. `Parted`
says that what a move or a creation is about to write differs from the bucket's hints, except from those of rows that
changed since it listed them. `Intended` and `KeyFits` say that a move nobody overtook would write the same if it listed
the bucket now, and that its key lies in the slot the user chose. Neither property is inductive alone, as the key is
computed from a list and written later.

Deadlock is not checked where a bounded instance really stops (`CHECK_DEADLOCK FALSE`). Not modelled: moves between
plans, the order of buckets, duplication, Microsoft 365 plans (whose hints never collide), and the collation of
`ORDER BY order_hint`, which the key library expects to be bytewise.

## BoardStream

One browser that shows a board. Its list of tasks changes in three ways: events arrive, the user's own edits are shown
at once and merged or rolled back when they are answered, and the list is fetched. `Begin`, `CommitOther`, `CommitMine`
and `RefuseMine` are the transactions (an event carries the instant its transaction began); `Tap` is one event of a tick
of the tap (`D/index.ts:97`), `Connect`, `Disconnect` and `Restart` the stream and its process; `Receive` folds an event
into the list (`W/state/apply-planner-event.ts`); `Mutate`, `Succeed` and `Fail` are the three ends of
`useOptimisticMutation`, with the snapshot it keeps; `Focus`, `AnswerFetch` and `LandFetch` are the query client's. The
races of two transactions are left to `PlannerBoard`. A field's value is the version that wrote it, so that an outdated
or a never-written value is visible as such.

Not every column reaches the list by an event. The fold (`W/state/apply-planner-event.ts:458`) has a branch for twelve
columns, `Folded`, and takes the version of an update whichever column it is about. Without a branch are
`assignee_priority` (set by `P/domain/set-assignee-priority.ts:79`), `description_text`, which `updateTask` derives and
writes beside the description, and the external ids and etag. After an update of one of these the list has the present
version and an old value. `Merged` is that fold, and the observer `skipped` holds the fields it passed over until the
list is next fetched in peace; `missed` is what was skipped of a task when an edit of the user's was made. The user's
own edits name only columns with a branch (`W/hooks/mutations/update-task.ts:7`), while the server may write others
along (`CommitMine`). `updated_at` and `external_synced_at` are not fields of the model, and the value shown at once is
taken to be what the server writes, which leaves out the sanitising of descriptions.

- `board_stream`: two tasks with two fields, one folded and one not, two edits by others and two by the user, three of
  them made, one lost answer, broken stream, restart or refetch. `DriftForCause`: once nothing is under way, the list
  shows the tasks as they are, unless one of five causes is noted since the list was last fetched undisturbed: an event
  behind the watermark, two events of a task in the wrong order, one missed by a broken or a late stream, an answer
  older than what is shown, a rollback over news; skipped fields apart. `PhantomForCause`: a value that was never
  written stays on the screen only after two overlapping edits both failed, the later snapshot holding the earlier edit.
  `BlindForCause`: the server accepts an edit from a user who did not see the task as it was only after such a cause, or
  after a conflict, missed fields apart. Three edits are the least at which two of the user's overlap around one of
  another user's.

Observed on the way. After a conflict the toast says "Someone else moved this — refreshed." (`move-task.ts:96`), but
only the task's version is patched (`W/state/version-reconcile.ts:24`), not its fields. The server never sends the `gap`
event that `W/hooks/use-board-stream.ts:50` listens for, and `isOwnEcho` is never fed, so the echo of one's own edit is
folded like any other. Versions are never compared, neither by the fold nor by the merge of an answer. The model assumes
the tap, the hub and the routes in one process, as `startBoth` would have it (`bootstrap.ts:96`, and
`docs/architecture.md:268`); as the applications are started the tap runs in the worker and its events never reach a hub
with connections. A fetch is repeated until it is answered. Not modelled: the other queries of the page, events of
buckets, labels and comments, updates that change nothing, several events in one transaction, equal instants, and the
limit of 200 tasks.

`BoardStreamProofs` proves `TypeOK` and `PhantomForCause` for any tasks, fields, users and edits. A phantom enters the
list from a ledger that was taken earlier, so the invariant (`PhantomInv`) also speaks of what is not shown yet: what the
list shows of the user's edits is under way or over, accepted or failed (`ListAccounted`); what a ledger holds was under
way when its edit was made, or is over (`LedgersAccounted`); and edits under way were made (`UnderMade`).

`DriftForCause` speaks of states in which nothing is under way, and says nothing of how they come about. `DriftInv`
(`BoardStreamInv`) is what holds on the way there: whatever the list lacks is coming. A copy of a row, wherever it is
kept, is the row as it was at its version (`AsOf`); events follow each other on the stream in the order of their
instants and, since the last cause, of their versions (`Wired`, `Ordered`); and a list or a ledger that is behind a row
is so by an event not yet received, a fetch under way or an edit not yet ended (`Membership`, `Version`, `Field`).
Ledgers need the same as the list, since a rollback makes one of them the list. `Field` and `Seen` leave out what was
skipped, `Sight` what an edit missed: for these columns nothing is coming. `BlindForCause` is the same invariant read at
the commit of an edit: what the user saw then had the version the server compares. Both are proved in
`BoardStreamDriftProofs`, for any tasks, fields, users and edits.

## MailOutbox and MailDelivery

`Mailer.send` inserts a row, emits an event and adds a job, each in a transaction of its own (`Upsert`, `EmitQueued`,
`AddJob`); a second call for the same key finds the row and stops there. The task `mailer:send` is a chain of awaits
(`FindById` to `EmitPermanentlyFailed`); each statement can fail, the transport can accept a mail and its answer be lost,
and server and worker restart. The queue (graphile-worker) is external: a job is held by one worker, tries are counted
when it is fetched, and a dead worker's lock expires (`LockExpires`). `MailDelivery` is the contract without rows and
jobs: a requested mail is handed to the transport any number of times until it is settled, settled as sent only if it was
accepted, and left alone afterwards; `Delivers` is the refinement.

- `mail_outbox`: two calls for one mail, three tries, two faults, two restarts: a call that dies half way, its
  successor, a repeated send and a last try all fit. `TwiceOnlyByFault`, `PendingHasJob`, `OneOutcome`, the refinement,
  and `JobSettles` (a mail with a job settles or its tries are used up; fairness: the worker goes on with its jobs).

`PendingHasJob` names the gap: a mail whose first call dies before `addJob` stays pending, as later calls add no job
(`M/mailer.ts:106`). The settled row and its event are two transactions, so a mail can be sent and never announced,
where `docs/architecture.md:340` says that lost events are impossible; `OneOutcome` claims no more than that no wrong
outcome is announced. A commit whose answer is lost is not modelled apart from the transport's: a statement fails or
takes effect. Nothing claimed rests on that, as a statement that took effect is, for what follows, one whose caller died or
failed right after it. `MailOutboxProofs` proves everything but `JobSettles`, for any mails, calls and bounds.

## KnowledgeFile

One file of the knowledge base, from the signal that its upload is complete. Three jobs hand it on: `ScanBegins` to
`NoteError` (`K/jobs/scan-upload.ts`), `Load` to `ParseFails` (`K/parse/parse-knowledge-file.ts`), `EmbedReads` to
`EmbedFails` (`K/embeddings/embed-knowledge-chunks.ts`), with the deletion beside them (`BeginPurge` to `PurgeFails`,
`K/domain/delete-file.ts`). `file` is the row, `stored` says which of object, chunks and vectors exist, `index` is the
promise of `createIndex` that a worker caches, rejected or not. `late` notes what was written after a deletion began.

- `know_files`: a good, an infected and an unparsable file, two signals, two tries a job, and any two of a second
  signal, a failure, a restart and a deletion (`MaxTrouble`): pairs of these are what the handlers' guards are about.
  `InfectedIsKeptOut`, `ReadyIsSearchable`, `GoodFailsForCause`, `StrandedForCause`, `NothingLeftBehind`, and `Settles`
  under the fairness of the queue. `JobIds` bounds the jobs at once; `Settles` excuses a queue in which every job waits
  for a place to add its successor (`Jammed`), which is the bound's doing and not the code's.

`K/domain/mark-processed.ts:24` says re-deliveries skip; two signals that both read the row before a scan begins enqueue
two scans, and one can fail what the other finished (`GoodFailsForCause`). `K/parse/parse-knowledge-file.ts:133` speaks
of one transaction, but the embed job is added after it: a restart in between strands the file, since the repeated job
finds it moved on (`StrandedForCause`). `KnowledgeFileProofs` proves every invariant. That an undisturbed file does not
fail needs to know that one job at a time is at work, and where each leaves the row (`Smooth`, `OnTrack`). Not modelled:
statements that take effect though their answer is lost (the handlers' guards meet the same state after a restart),
several files sharing a rejected `index`, the upload itself and a second PUT of the object, chat attachments, and
ranking.

## Where code and documents disagree

| Run | The code | The text |
|---|---|---|
| `bus_late_commit` | a row that commits behind the cursor is never delivered (`D/drain.ts:80`) | `docs/architecture.md:374`: at-least-once |
| `flow_duplicate` | a duplicate reopens a decided card (`A/workflows/_infra/lifecycle-hook.ts:568`) | `docs/agent-architecture.md:576`: idempotent |
| `session_overlay` | no process refreshes the server's overlay (`apps/server/src/index.ts:399`) | `apps/server/src/index.ts:95`: takes effect process-wide |

## Assumptions

Postgres does what it documents: READ COMMITTED, row locks, SKIP LOCKED, savepoints. Steps of JavaScript between two
awaits are atomic. Clocks of producers are one clock (the database's), and instants of two transactions differ. Every
bound is a constant with a comment; observers (`failures`, `overtaken`, `resumed`, `raced`, `stale`, `unchecked`,
`skipped`) are read by properties only.

The job queue never gives a job to a second worker while the first is alive: locks expire only after a worker died.

TLAPS is used for safety and refinement: every invariant and action property of a passing run is a theorem. Liveness
under fairness (`EventuallySettled`, `DecidedIsResumed`, `ScopesFollowRows`, `JobSettles`, `Settles`) is beyond the
prover and stays with TLC, as do the violations. No module uses recursion.

## Not modelled, and what could follow

The map covers a small share of the lines: most of the repository is user interface, HTTP schemas, calls to language
models and to Microsoft Graph, report computations over spreadsheets, and handlers that write one row in one transaction.
What keeps state that several actors change in more than one step is modelled, except for the following, in the order in
which it would be worth adding:

1. Assignment proposals: several runs of `ApprovalFlow` about one task, at most one pending proposal
   (`docs/agent-architecture.md:457`).
2. Orchestration and RPC idempotency: repeated jobs and calls; neither is on a path that is used yet.
3. The other rows of a plan: order of buckets, duplication, moves between plans.
4. Microsoft 365: pull, push and conflicts, once its jobs are registered and its links are written.

Proofs that could follow: liveness is out of the prover's reach, so what is left is to ask more than the runs do. Two
candidates are the exact cost of a second delivery in `ApprovalFlow` (which cards it can reopen), and a contract for the
board's stream in the manner of `EventDelivery`, of which `DriftInv` would be the refinement's invariant.
