------------------------------ MODULE EventBus ------------------------------
(***************************************************************************)
(* The transactional outbox of packages/core and the dispatcher that reads *)
(* it.  Producers insert rows of core.events inside their own database     *)
(* transaction; every subscriber loop of every dispatcher replica drains   *)
(* the rows of one event type past its subscription's cursor, running the  *)
(* handler of each row in a savepoint and committing the cursor, the       *)
(* handler's writes, the failure row and the dead letters together.        *)
(*                                                                         *)
(* One step is one database statement or transaction boundary, so that     *)
(* transactions of producers and of loops interleave as they do under      *)
(* READ COMMITTED.  What a draining transaction has not committed yet is   *)
(* kept in drain[l] and is invisible to everybody else.                    *)
(***************************************************************************)
EXTENDS Naturals, FiniteSets

CONSTANTS
  EventIds,       \* the random UUIDs of events, as naturals in uuid order
  Types,          \* event types
  Txns,           \* producer transactions
  Subs,           \* subscriptions
  TypeOf,         \* TypeOf[s] : the event type subscription s listens to
  Cascades,       \* Cascades[s] : the types the handler of s may emit itself
  Loops,          \* subscriber loops, one per subscription per replica
  SubOf,          \* SubOf[l] : the subscription loop l drains
  BatchLimit,     \* LIMIT of the batch query (100 in the code)
  MaxAttempts,    \* backoff.maxAttempts (5 by default)
  MaxDisruptions, \* bound on shutdowns and on aborted drains
  None

ASSUME IdsAssumption == EventIds \subseteq Nat \ {0} /\ IsFiniteSet(EventIds)
ASSUME SubsAssumption ==
  /\ TypeOf \in [Subs -> Types]
  /\ Cascades \in [Subs -> SUBSET Types]
  /\ SubOf \in [Loops -> Subs]
ASSUME BoundsAssumption ==
  /\ BatchLimit \in Nat \ {0}
  /\ MaxAttempts \in Nat \ {0}
  /\ MaxDisruptions \in Nat
ASSUME NoneAssumption == None \notin EventIds /\ None \notin Subs

VARIABLES
  clock,       \* the database clock: the last instant at which a transaction began
  row,         \* row[e] : the columns of event e (meaningful once e is in drawn)
  drawn,       \* event ids generated so far, whatever became of their transaction
  table,       \* ids of the committed rows of core.events
  tx,          \* producer transactions
  seeded,      \* subscriptions that have a subscription_cursors row
  cursor,      \* cursor[s] : (last_processed_occurred_at, last_processed_event_id)
  applied,     \* applied[s][e] : committed runs of s's handler on e (subscription_processed)
  dead,        \* dead[s] : subscription_dead_letter
  failure,     \* failure[s] : the subscription_failure_state row, or None
  up,          \* up[l] : the loop still starts drains (not shuttingDown)
  drain,       \* drain[l] : the loop's progress through drainOne
  disruptions, \* bound counter of Abort and Shutdown
  failures,    \* observer: failures[s][e], committed failed runs of s's handler on e
  overtaken    \* observer: overtaken[s], events committed after s had read past them

producerVars == <<tx, drawn, row, clock>>
subVars      == <<seeded, cursor, applied, dead, failure, failures>>
vars == <<clock, row, drawn, table, tx, seeded, cursor, applied, dead, failure,
          up, drain, disruptions, failures, overtaken>>

-----------------------------------------------------------------------------
(* Keys and rows *)

Key == [ts : Nat, id : Nat]

\* NIL_UUID and the epoch: the key before every event.
NilKey == [ts |-> 0, id |-> 0]

\* The tuple comparison (occurred_at, id) < (occurred_at, id).
Before(k, m) == k.ts < m.ts \/ (k.ts = m.ts /\ k.id < m.id)

Row == [ts : Nat, type : Types, cause : Subs \cup {None}, of : EventIds \cup {None}]

KeyOf(e) == [ts |-> row[e].ts, id |-> e]

Fresh == EventIds \ drawn

\* emit(): a row of the current transaction, stamped with the transaction's now().
\* A row that a handler emits carries the event that caused it.
Draw(e, ts, type, cause, of) ==
  /\ e \in Fresh
  /\ drawn' = drawn \cup {e}
  /\ row' = [row EXCEPT ![e] = [ts |-> ts, type |-> type, cause |-> cause, of |-> of]]

-----------------------------------------------------------------------------
(* Drains *)

Failure == [of : EventIds, attempts : Nat, waiting : BOOLEAN]

\* stage: idle, checked (the failure row allowed this tick), missed (the SKIP LOCKED
\* select found no cursor row), draining (the outer transaction holds the cursor row).
\* The other fields are the uncommitted content of that transaction.
Drain == [stage  : {"idle", "checked", "missed", "draining"},
          began  : Nat,
          pos    : Key,
          todo   : SUBSET EventIds,
          ok     : SUBSET EventIds,
          lost   : SUBSET EventIds,
          failed : SUBSET EventIds,
          fail   : Failure \cup {None},
          out    : SUBSET EventIds]

IdleDrain == [stage |-> "idle", began |-> 0, pos |-> NilKey, todo |-> {}, ok |-> {},
              lost |-> {}, failed |-> {}, fail |-> None, out |-> {}]

Draining(l) == drain[l].stage = "draining"

Locked(s) == \E l \in Loops : SubOf[l] = s /\ Draining(l)

\* Variant of Eligible that orders by uuid alone, which the comment in drainOne rules out.
EligibleByUuid(s) == {e \in table : row[e].type = TypeOf[s] /\ cursor[s].id < e}

Eligible(s) == {e \in table : row[e].type = TypeOf[s] /\ Before(cursor[s], KeyOf(e))}

\* ORDER BY occurred_at, id LIMIT BatchLimit
Batch(s) ==
  {e \in Eligible(s) :
     Cardinality({f \in Eligible(s) : Before(KeyOf(f), KeyOf(e))}) < BatchLimit}

\* A drain whose handlers emit nothing stamps no row, and its clock is not modelled.
Now(l) == IF Cascades[SubOf[l]] = {} THEN 0 ELSE clock

BeginInstants(l) ==
  IF Cascades[SubOf[l]] = {} THEN {0} ELSE (drain[l].began + 1)..(clock + 1)

IsFirst(e, S) == e \in S /\ \A f \in S \ {e} : Before(KeyOf(e), KeyOf(f))

\* The rows of C become visible.  For the observer: s has read past such a row when its
\* cursor is beyond it, or when a drain of s read a batch that reaches beyond it.
ReadPast(s, e) ==
  \/ ~Before(cursor[s], KeyOf(e))
  \/ \E l \in Loops : /\ SubOf[l] = s
                      /\ Draining(l)
                      /\ \E f \in drain[l].todo \cup drain[l].ok \cup drain[l].lost :
                            Before(KeyOf(e), KeyOf(f))

Publish(C) ==
  /\ table' = table \cup C
  /\ overtaken' = [s \in Subs |->
       overtaken[s] \cup {e \in C : row[e].type = TypeOf[s] /\ ReadPast(s, e)'}]

-----------------------------------------------------------------------------
TxnState == [open : BOOLEAN, done : BOOLEAN, ts : Nat, ids : SUBSET EventIds]

Init ==
  /\ clock = 0
  /\ row \in [EventIds -> {[ts |-> 0, type |-> t, cause |-> None, of |-> None] : t \in Types}]
  /\ \A e, f \in EventIds : row[e] = row[f]
  /\ drawn = {}
  /\ table = {}
  /\ tx = [p \in Txns |-> [open |-> FALSE, done |-> FALSE, ts |-> 0, ids |-> {}]]
  /\ seeded = {}
  /\ cursor = [s \in Subs |-> NilKey]
  /\ applied = [s \in Subs |-> [e \in EventIds |-> 0]]
  /\ dead = [s \in Subs |-> {}]
  /\ failure = [s \in Subs |-> None]
  /\ up = [l \in Loops |-> TRUE]
  /\ drain = [l \in Loops |-> IdleDrain]
  /\ disruptions = 0
  /\ failures = [s \in Subs |-> [e \in EventIds |-> 0]]
  /\ overtaken = [s \in Subs |-> {}]

-----------------------------------------------------------------------------
(* Producers: withEmit *)

Begin(p) ==
  /\ ~tx[p].open /\ ~tx[p].done
  /\ clock' = clock + 1
  /\ tx' = [tx EXCEPT ![p] = [open |-> TRUE, done |-> FALSE, ts |-> clock', ids |-> {}]]
  /\ UNCHANGED <<row, drawn, table, subVars, up, drain, disruptions, overtaken>>

Emit(p, e, type) ==
  /\ tx[p].open
  /\ Draw(e, tx[p].ts, type, None, None)
  /\ tx' = [tx EXCEPT ![p].ids = @ \cup {e}]
  /\ UNCHANGED <<clock, table, subVars, up, drain, disruptions, overtaken>>

Commit(p) ==
  /\ tx[p].open
  /\ tx' = [tx EXCEPT ![p] = [open |-> FALSE, done |-> TRUE, ts |-> 0, ids |-> {}]]
  /\ UNCHANGED <<clock, row, drawn, subVars, up, drain, disruptions>>
  /\ Publish(tx[p].ids)

Rollback(p) ==
  /\ tx[p].open
  /\ tx' = [tx EXCEPT ![p] = [open |-> FALSE, done |-> TRUE, ts |-> 0, ids |-> {}]]
  /\ UNCHANGED <<clock, row, drawn, table, subVars, up, drain, disruptions, overtaken>>

-----------------------------------------------------------------------------
(* Subscriber loops: tick and drainOne *)

\* tick() enters drainOne and reads the failure row, before the transaction and on
\* another connection.  A row whose nextRetryAt lies ahead ends the tick.
Check(l) ==
  /\ up[l]
  /\ drain[l].stage = "idle"
  /\ failure[SubOf[l]] # None => ~failure[SubOf[l]].waiting
  /\ drain' = [drain EXCEPT ![l].stage = "checked", ![l].began = Now(l)]
  /\ UNCHANGED <<producerVars, table, subVars, up, disruptions, overtaken>>

\* FOR UPDATE SKIP LOCKED returns no cursor row: there is none yet or it is locked.
Miss(l) ==
  /\ drain[l].stage = "checked"
  /\ SubOf[l] \notin seeded \/ Locked(SubOf[l])
  /\ drain' = [drain EXCEPT ![l].stage = "missed"]
  /\ UNCHANGED <<producerVars, table, subVars, up, disruptions, overtaken>>

\* INSERT ... ON CONFLICT DO NOTHING with the nil key, and the tick ends.
Seed(l) ==
  /\ drain[l].stage = "missed"
  /\ seeded' = seeded \cup {SubOf[l]}
  /\ drain' = [drain EXCEPT ![l] = IdleDrain]
  /\ UNCHANGED <<producerVars, table, cursor, applied, dead, failure, failures, up,
                 disruptions, overtaken>>

\* Variant of Open that reads the cursor row without locking it.
OpenUnlocked(l) ==
  LET s == SubOf[l] IN
  /\ drain[l].stage = "checked"
  /\ s \in seeded
  /\ Batch(s) # {}
  /\ \E b \in BeginInstants(l) :
       /\ clock' = IF b > clock THEN b ELSE clock
       /\ drain' = [drain EXCEPT ![l] =
            [IdleDrain EXCEPT !.stage = "draining", !.began = b, !.pos = cursor[s],
                              !.todo = Batch(s), !.fail = failure[s]]]
  /\ UNCHANGED <<row, drawn, tx, table, subVars, up, disruptions, overtaken>>

\* The cursor row is locked and the batch is read.  BEGIN, whose instant stamps the rows
\* the handlers emit, ran at any time since the failure row was read.
Open(l) ==
  LET s == SubOf[l] IN
  /\ drain[l].stage = "checked"
  /\ s \in seeded
  /\ ~Locked(s)
  /\ Batch(s) # {}
  /\ \E b \in BeginInstants(l) :
       /\ clock' = IF b > clock THEN b ELSE clock
       /\ drain' = [drain EXCEPT ![l] =
            [IdleDrain EXCEPT !.stage = "draining", !.began = b, !.pos = cursor[s],
                              !.todo = Batch(s), !.fail = failure[s]]]
  /\ UNCHANGED <<row, drawn, tx, table, subVars, up, disruptions, overtaken>>

\* The cursor row is locked and there is nothing past it: the transaction commits nothing.
NothingToDo(l) ==
  /\ drain[l].stage = "checked"
  /\ SubOf[l] \in seeded
  /\ ~Locked(SubOf[l])
  /\ Batch(SubOf[l]) = {}
  /\ drain' = [drain EXCEPT ![l] = IdleDrain]
  /\ UNCHANGED <<producerVars, table, subVars, up, disruptions, overtaken>>

\* The handler returns: its savepoint, with the rows N it emitted, joins the outer
\* transaction, the cursor moves to the event and the failure row is deleted.
Handled(d, e, N) ==
  [d EXCEPT !.todo = @ \ {e}, !.ok = @ \cup {e}, !.pos = KeyOf(e), !.fail = None,
            !.out = @ \cup N]

Handle(l, e) ==
  /\ Draining(l)
  /\ IsFirst(e, drain[l].todo)
  /\ \/ /\ drain' = [drain EXCEPT ![l] = Handled(drain[l], e, {})]
        /\ UNCHANGED <<row, drawn>>
     \/ \E n \in Fresh, t \in Cascades[SubOf[l]] :
          /\ Draw(n, drain[l].began, t, SubOf[l], e)
          /\ drain' = [drain EXCEPT ![l] = Handled(drain[l], e, {n})]
  /\ UNCHANGED <<clock, tx, table, subVars, up, disruptions, overtaken>>

\* Variant of Bumped that counts for whatever event failed last.
BumpedForAny(f, e) == IF f # None THEN f.attempts + 1 ELSE 1

\* bumpFailureState: attempts go on counting only for the event already recorded.
Bumped(f, e) == IF f # None /\ f.of = e THEN f.attempts + 1 ELSE 1

\* Variant of Halted that has moved the cursor to the event it gives up.
HaltedPast(d, e) ==
  [d EXCEPT !.todo = {}, !.failed = @ \cup {e}, !.pos = KeyOf(e),
            !.fail = [of |-> e, attempts |-> Bumped(d.fail, e), waiting |-> TRUE]]

\* The handler throws and attempts are left: the failure row is written and the drain
\* ends there, with what it did before.
Halted(d, e) ==
  [d EXCEPT !.todo = {}, !.failed = @ \cup {e},
            !.fail = [of |-> e, attempts |-> Bumped(d.fail, e), waiting |-> TRUE]]

FailAndHalt(l, e) ==
  /\ Draining(l)
  /\ IsFirst(e, drain[l].todo)
  /\ Bumped(drain[l].fail, e) < MaxAttempts
  /\ drain' = [drain EXCEPT ![l] = Halted(drain[l], e)]
  /\ UNCHANGED <<producerVars, table, subVars, up, disruptions, overtaken>>

\* Variants of Buried: one leaves the failure row, one leaves the cursor.
BuriedKeepsRow(d, e) ==
  [d EXCEPT !.todo = @ \ {e}, !.failed = @ \cup {e}, !.lost = @ \cup {e}, !.pos = KeyOf(e)]

BuriedKeepsCursor(d, e) ==
  [d EXCEPT !.todo = @ \ {e}, !.failed = @ \cup {e}, !.lost = @ \cup {e}, !.fail = None]

\* The handler throws for the last time: dead letter, cursor past the event, failure row
\* deleted, and the drain goes on with the next event.
Buried(d, e) ==
  [d EXCEPT !.todo = @ \ {e}, !.failed = @ \cup {e}, !.lost = @ \cup {e}, !.pos = KeyOf(e),
            !.fail = None]

\* Variant of FailForGood that keeps what the handler emitted before it threw.
FailForGoodEmits(l, e) ==
  /\ Draining(l)
  /\ IsFirst(e, drain[l].todo)
  /\ Bumped(drain[l].fail, e) >= MaxAttempts
  /\ \E n \in Fresh, t \in Cascades[SubOf[l]] :
       /\ Draw(n, drain[l].began, t, SubOf[l], e)
       /\ drain' = [drain EXCEPT ![l] = [Buried(drain[l], e) EXCEPT !.out = @ \cup {n}]]
  /\ UNCHANGED <<clock, tx, table, subVars, up, disruptions, overtaken>>

FailForGood(l, e) ==
  /\ Draining(l)
  /\ IsFirst(e, drain[l].todo)
  /\ Bumped(drain[l].fail, e) >= MaxAttempts
  /\ drain' = [drain EXCEPT ![l] = Buried(drain[l], e)]
  /\ UNCHANGED <<producerVars, table, subVars, up, disruptions, overtaken>>

\* The batch is done, or the drain halted: the outer transaction commits.
Settle(l) ==
  LET s == SubOf[l]  d == drain[l] IN
  /\ Draining(l)
  /\ d.todo = {}
  /\ cursor' = [cursor EXCEPT ![s] = d.pos]
  /\ applied' = [applied EXCEPT ![s] =
       [e \in EventIds |-> IF e \in d.ok THEN applied[s][e] + 1 ELSE applied[s][e]]]
  /\ dead' = [dead EXCEPT ![s] = @ \cup d.lost]
  /\ failure' = [failure EXCEPT ![s] = d.fail]
  /\ failures' = [failures EXCEPT ![s] =
       [e \in EventIds |-> IF e \in d.failed THEN failures[s][e] + 1 ELSE failures[s][e]]]
  /\ drain' = [drain EXCEPT ![l] = IdleDrain]
  /\ UNCHANGED <<producerVars, seeded, up, disruptions>>
  /\ Publish(d.out)

\* nextRetryAt passes.
BackoffElapses(s) ==
  /\ failure[s] # None
  /\ failure[s].waiting
  /\ failure' = [failure EXCEPT ![s].waiting = FALSE]
  /\ UNCHANGED <<producerVars, table, seeded, cursor, applied, dead, failures, up, drain,
                 disruptions, overtaken>>

-----------------------------------------------------------------------------
(* Disruptions *)

\* The connection fails, a statement outside the savepoint fails, or the process dies: the
\* outer transaction rolls back and the cursor row is released.
Abort(l) ==
  /\ disruptions < MaxDisruptions
  /\ drain[l].stage # "idle"
  /\ drain' = [drain EXCEPT ![l] = IdleDrain]
  /\ disruptions' = disruptions + 1
  /\ UNCHANGED <<producerVars, table, subVars, up, overtaken>>

\* shutdown(): no new tick; a drain in flight runs to its end (or is aborted).
Shutdown(l) ==
  /\ disruptions < MaxDisruptions
  /\ up[l]
  /\ up' = [up EXCEPT ![l] = FALSE]
  /\ disruptions' = disruptions + 1
  /\ UNCHANGED <<producerVars, table, subVars, drain, overtaken>>

\* A new process starts the loop again; everything it knows is in the database.
Start(l) ==
  /\ ~up[l]
  /\ drain[l].stage = "idle"
  /\ up' = [up EXCEPT ![l] = TRUE]
  /\ UNCHANGED <<producerVars, table, subVars, drain, disruptions, overtaken>>

-----------------------------------------------------------------------------
Produce == \E p \in Txns :
  \/ Begin(p)
  \/ \E e \in Fresh, t \in Types : Emit(p, e, t)
  \/ Commit(p)
  \/ Rollback(p)

DrainStep(l) ==
  \/ Check(l)
  \/ Miss(l)
  \/ Seed(l)
  \/ Open(l)
  \/ NothingToDo(l)
  \/ \E e \in drain[l].todo : Handle(l, e) \/ FailAndHalt(l, e) \/ FailForGood(l, e)
  \/ Settle(l)

Next ==
  \/ Produce
  \/ \E l \in Loops : DrainStep(l) \/ Abort(l) \/ Shutdown(l) \/ Start(l)
  \/ \E s \in Subs : BackoffElapses(s)

Spec == Init /\ [][Next]_vars

\* A loop's timer keeps ticking and its statements return; back-offs end; producers and
\* stopped processes owe nothing, except that a stopped process is started again.  The
\* handlers of the model return or throw: one that hangs forever is not covered.
Fairness ==
  /\ \A l \in Loops :
       /\ WF_vars(DrainStep(l))
       /\ WF_vars(Start(l))
  /\ \A s \in Subs : WF_vars(BackoffElapses(s))

FairSpec == Spec /\ Fairness

-----------------------------------------------------------------------------
(* Properties *)

TypeOK ==
  /\ clock \in Nat
  /\ row \in [EventIds -> Row]
  /\ drawn \subseteq EventIds
  /\ table \subseteq EventIds
  /\ tx \in [Txns -> TxnState]
  /\ seeded \subseteq Subs
  /\ cursor \in [Subs -> Key]
  /\ applied \in [Subs -> [EventIds -> Nat]]
  /\ dead \in [Subs -> SUBSET EventIds]
  /\ failure \in [Subs -> Failure \cup {None}]
  /\ up \in [Loops -> BOOLEAN]
  /\ drain \in [Loops -> Drain]
  /\ disruptions \in Nat
  /\ failures \in [Subs -> [EventIds -> Nat]]
  /\ overtaken \in [Subs -> SUBSET EventIds]

Relevant(s) == {e \in table : row[e].type = TypeOf[s]}

SettledBy(s) == {e \in EventIds : applied[s][e] > 0} \cup dead[s]

\* Whatever replicas overlap and whenever a drain is aborted, the in-transaction effects
\* of a handler on an event are committed at most once, and never for an event that is
\* also dead-lettered (drain.ts: savepoint, cursor and dead letter in one transaction).
AppliedAtMostOnce ==
  \A s \in Subs, e \in EventIds :
    /\ applied[s][e] <= 1
    /\ applied[s][e] = 1 => e \notin dead[s]

\* The cursor never passes an event without an outcome, except one whose transaction
\* committed after the subscription had already read past its timestamp.
NoSilentSkip ==
  \A s \in Subs : \A e \in Relevant(s) :
    ~Before(cursor[s], KeyOf(e)) => e \in SettledBy(s) \cup overtaken[s]

\* An event is dead-lettered only after maxAttempts runs of the handler on that very
\* event failed, across restarts, replicas and other events failing in between.
DeadLetterEarned ==
  \A s \in Subs : \A e \in dead[s] : failures[s][e] >= MaxAttempts

\* The failure row, when there is one, is about a published event the subscription has
\* not settled and its cursor has not reached: a stale row would delay an innocent event
\* or count attempts for the wrong one.
FailureIsAhead ==
  \A s \in Subs : failure[s] # None =>
    /\ failure[s].of \in Relevant(s) \ SettledBy(s)
    /\ Before(cursor[s], KeyOf(failure[s].of))

\* An event published by a handler exists only if that handler's run on its cause was
\* committed: no event of a failed, dead-lettered or aborted run ever becomes visible.
NoPhantomCascade ==
  \A e \in table : row[e].cause # None =>
    row[e].of \in {f \in EventIds : applied[row[e].cause][f] = 1}

\* Every published event is settled in the end, unless it was overtaken: drains, retries,
\* aborts and restarts of loops never wedge a subscription.
EventuallySettled ==
  \A s \in Subs, e \in EventIds :
    e \in Relevant(s) ~> e \in SettledBy(s) \cup overtaken[s]

\* docs/architecture.md:374 promises at-least-once delivery: an event the cursor has
\* passed was handled or dead-lettered, whenever its transaction committed.
AtLeastOnce ==
  \A s \in Subs : \A e \in Relevant(s) :
    ~Before(cursor[s], KeyOf(e)) => e \in SettledBy(s)

-----------------------------------------------------------------------------
(* The bus implements the abstract delivery contract. *)

Outcome(s, e) == IF applied[s][e] > 0 THEN "applied"
                 ELSE IF e \in dead[s] THEN "dead" ELSE "none"

Delivery == INSTANCE EventDelivery WITH
  log <- [e \in table |-> KeyOf(e)],
  outcome <- [s \in Subs |-> [e \in EventIds |-> Outcome(s, e)]]

\* Every step of the dispatcher is a publication, a settlement in key order, or a stutter.
ImplementsDelivery == Delivery!Spec
=============================================================================
