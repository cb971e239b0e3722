---------------------------- MODULE ApprovalFlow ----------------------------
(***************************************************************************)
(* One workflow run with a human in the loop (packages/agent): the engine  *)
(* that executes it, the projection of its lifecycle events into           *)
(* agent.workflow_runs and agent.workflow_approvals, the people who decide *)
(* its approval cards, the sweeper that lets cards expire and the job that *)
(* retries a resume that was lost.                                         *)
(*                                                                         *)
(* The engine is a library.  It is modelled from how the code uses it: it  *)
(* suspends at a step, can be resumed only while suspended at that step,   *)
(* and publishes what it did on an in-process emitter that does not wait   *)
(* for the handlers.  Every transaction of the handlers is one action; a   *)
(* call of run.resume is an action of its own, after the transaction that  *)
(* led to it.                                                              *)
(***************************************************************************)
EXTENDS Naturals, FiniteSets

CONSTANTS
    Steps,       \* ids of the steps that suspend for an approval (hitlSteps)
    NoStep,      \* not a step
    Dotted,      \* step ids with a '.', which the engine splits when it is given a plain string
    Copies,      \* how often the emitter delivers an event (both topics have the same handler)
    Jobs,        \* whether something schedules the sweeper and the resume retry (nothing in src does)
    MaxRetries,  \* MAX_RETRIES of the resume retry
    MaxTurns,    \* bound: suspensions
    MaxReplays,  \* bound: replays from a step
    MaxCancels,  \* bound: cancel requests
    MaxFaults,   \* bound: failures of the engine or the database
    MaxCrashes   \* bound: restarts of the server

ASSUME CountsAreNatural ==
    /\ {Copies, MaxRetries, MaxTurns, MaxReplays, MaxCancels, MaxFaults, MaxCrashes} \subseteq Nat
    /\ MaxRetries > 0
ASSUME StepsAreSteps == NoStep \notin Steps /\ Dotted \subseteq Steps
ASSUME JobsIsFlag == Jobs \in BOOLEAN

Outcomes == {"success", "failed"}
Terminal == Outcomes \cup {"canceled"}
Verdicts == {"approved", "rejected", "modified"}
Settled  == Verdicts \cup {"expired", "superseded"}
NoVerdict == "none"

VARIABLES
    engine,   \* the engine's own state of the run; at: the turn each step suspended in
    mail,     \* events published, whose handler has not committed
    queue,    \* events whose handler failed, kept as agent_lifecycle_retry jobs
    seen,     \* agent.workflow_run_events_seen
    run,      \* status of the row in agent.workflow_runs
    card,     \* rows of agent.workflow_approvals, one for each step
    calls,    \* calls of run.resume that follow a committed transaction
    canceling,\* a cancel request has read the run's status
    verdicts, \* approval.decided events in core.events
    resumed,  \* (observer) what the engine was resumed with
    spent     \* (bound) replays, cancel requests, faults and crashes so far

vars == <<engine, mail, queue, seen, run, card, calls, canceling, verdicts, resumed, spent>>

Event == [seq: Nat, kind: {"suspended", "resumed"} \cup Terminal,
          step: Steps \cup {NoStep}, turn: Nat, copy: Nat]
Card == [status: {"absent", "pending"} \cup Settled, turn: Nat, asks: Nat,
         payload: Settled \cup {NoVerdict}, retries: Nat]
Call == [by: {"decide", "sweep", "retry"}, step: Steps, turn: Nat,
         verdict: Settled \cup {NoVerdict}, retries: Nat]
Engine == [phase: {"idle", "running", "suspended", "over"}, step: Steps \cup {NoStep},
           at: [Steps -> Nat], turn: Nat, seq: Nat, outcome: Terminal \cup {NoVerdict}]

TypeOK ==
    /\ engine \in Engine
    /\ mail \subseteq Event
    /\ queue \subseteq Event
    /\ seen \subseteq Event
    /\ run \in {"absent", "running", "paused"} \cup Terminal
    /\ card \in [Steps -> Card]
    /\ calls \subseteq Call
    /\ canceling \in BOOLEAN
    /\ verdicts \subseteq [step: Steps, turn: Nat, ask: Nat, verdict: Settled]
    /\ resumed \subseteq [step: Steps, turn: Nat, verdict: Settled \cup {NoVerdict}]
    /\ spent \in [{"replay", "cancel", "fault", "crash"} -> Nat]

NewCard == [status |-> "absent", turn |-> 0, asks |-> 0, payload |-> NoVerdict, retries |-> 0]

Init ==
    /\ engine = [phase |-> "idle", step |-> NoStep, at |-> [s \in Steps |-> 0],
                turn |-> 0, seq |-> 0, outcome |-> NoVerdict]
    /\ mail = {} /\ queue = {} /\ seen = {}
    /\ run = "absent"
    /\ card = [s \in Steps |-> NewCard]
    /\ calls = {} /\ canceling = FALSE
    /\ verdicts = {} /\ resumed = {}
    /\ spent = [w \in {"replay", "cancel", "fault", "crash"} |-> 0]

Spend(what, bound) ==
    /\ spent[what] < bound
    /\ spent' = [spent EXCEPT ![what] = @ + 1]

-----------------------------------------------------------------------------
(* The engine (external).  Every change of phase is published.             *)

Published(kind, step, turn) ==
    mail \cup {[seq |-> engine.seq + 1, kind |-> kind, step |-> step, turn |-> turn, copy |-> c] :
                  c \in 1..Copies}

Advance(phase, step, turn, outcome) ==
    engine' = [engine EXCEPT !.phase = phase, !.step = step, !.turn = turn,
                             !.at = [s \in Steps |-> IF s = step THEN turn ELSE engine.at[s]],
                             !.seq = engine.seq + 1, !.outcome = outcome]

\* POST .../start: the row is projected before run.start is called.  The "started"
\* event the engine publishes itself finds the row and does nothing.
Start ==
    /\ run = "absent"
    /\ run' = "running"
    /\ engine' = [engine EXCEPT !.phase = "running"]
    /\ UNCHANGED <<mail, queue, seen, card, calls, canceling, verdicts, resumed, spent>>

\* The workflows are chains of steps: each step suspends once.
Suspend(s) ==
    /\ engine.phase = "running" /\ engine.at[s] = 0 /\ engine.turn < MaxTurns
    /\ Advance("suspended", s, engine.turn + 1, NoVerdict)
    /\ mail' = Published("suspended", s, engine.turn + 1)
    /\ UNCHANGED <<queue, seen, run, card, calls, canceling, verdicts, resumed, spent>>

End(o) ==
    /\ engine.phase = "running"
    /\ Advance("over", NoStep, engine.turn, o)
    /\ mail' = Published(o, NoStep, engine.turn)
    /\ UNCHANGED <<queue, seen, run, card, calls, canceling, verdicts, resumed, spent>>

\* POST .../replay-from-step: timeTravel runs the same run again from a step.
Replay ==
    /\ run # "absent" /\ engine.phase \in {"suspended", "over"}
    /\ Spend("replay", MaxReplays)
    /\ engine' = [engine EXCEPT !.phase = "running", !.step = NoStep,
                               !.at = [s \in Steps |-> 0], !.outcome = NoVerdict]
    /\ UNCHANGED <<mail, queue, seen, run, card, calls, canceling, verdicts, resumed>>

-----------------------------------------------------------------------------
(* lifecycle-hook.ts: the projection.                                      *)

Superseded(c) == IF c.status = "pending" THEN [c EXCEPT !.status = "superseded"] ELSE c

\* The row of (run, step) becomes pending whatever it was: ON CONFLICT DO UPDATE.
Asked(c, turn) ==
    [status |-> "pending", turn |-> turn, asks |-> c.asks + 1, payload |-> NoVerdict, retries |-> 0]

AskedOnly(c, e) == [s \in Steps |-> IF s = e.step THEN Asked(c[s], e.turn) ELSE c[s]]  \* mutant

\* Any pending card of the run is superseded before the new one is written.
CardsOnSuspend(c, e) ==
    [s \in Steps |-> IF s = e.step THEN Asked(c[s], e.turn) ELSE Superseded(c[s])]

CardsKept(c) == c  \* mutant
CardsOnEnd(c) == [s \in Steps |-> Superseded(c[s])]

Dispatch(e) ==
    \/ /\ e.kind = "suspended"
       /\ run' = "paused"
       /\ card' = CardsOnSuspend(card, e)
    \/ /\ e.kind = "resumed"
       /\ run' = "running"
       /\ card' = card
    \/ /\ e.kind \in Terminal
       /\ run' = e.kind
       /\ card' = CardsOnEnd(card)

HookWithoutSeen(e) == seen' = seen \cup {e} /\ Dispatch(e)  \* mutant

\* onLifecycleEvent, in one transaction.  The key of an event is a hash of its
\* type and of the millisecond it is handled in, so two copies have two keys;
\* a job carries the key its event had when the handler failed.
Hook(e) ==
    \/ /\ e \in seen
       /\ UNCHANGED <<seen, run, card>>
    \/ /\ e \notin seen
       /\ seen' = seen \cup {e}
       /\ Dispatch(e)

\* The handlers of several events run at once: any of them may commit next.
Project(e) ==
    /\ e \in mail
    /\ Hook(e)
    /\ mail' = mail \ {e}
    /\ UNCHANGED <<engine, queue, calls, canceling, verdicts, resumed, spent>>

\* The handler's transaction failed: the event goes to the job queue, unless
\* that insert fails too.
HandlerFails(e) ==
    /\ e \in mail
    /\ Spend("fault", MaxFaults)
    /\ mail' = mail \ {e}
    /\ queue' \in {queue, queue \cup {e}}
    /\ UNCHANGED <<engine, seen, run, card, calls, canceling, verdicts, resumed>>

\* A worker runs the job, where a process with a worker pool has the agent's jobs
\* (startBoth); it may die between the job's commit and its deletion.
RetryJob(e) ==
    /\ e \in queue
    /\ Hook(e)
    /\ \/ queue' = queue \ {e} /\ UNCHANGED spent
       \/ queue' = queue /\ Spend("fault", MaxFaults)
    /\ UNCHANGED <<engine, mail, calls, canceling, verdicts, resumed>>

-----------------------------------------------------------------------------
(* decide-approval.ts, sweeper.ts, resume-retry.ts                          *)

Verdict(s, v) == [step |-> s, turn |-> card[s].turn, ask |-> card[s].asks, verdict |-> v]
ResumeCall(by, s, v) ==
    [by |-> by, step |-> s, turn |-> card[s].turn, verdict |-> v, retries |-> card[s].retries]

AnsweredStatusOnly(c, v) == [c EXCEPT !.status = v, !.retries = 0]  \* mutant
Answered(c, v) == [c EXCEPT !.status = v, !.payload = v, !.retries = 0]

Settle(s, v, by) ==
    /\ card' = [card EXCEPT ![s] = Answered(card[s], v)]
    /\ verdicts' = verdicts \cup {Verdict(s, v)}
    /\ calls' = calls \cup {ResumeCall(by, s, v)}

DecideDecided(s, v) ==  \* mutant
    /\ card[s].status \in {"pending"} \cup Verdicts
    /\ Settle(s, v, "decide")
    /\ UNCHANGED <<engine, mail, queue, seen, run, canceling, resumed, spent>>

\* recordApprovalDecision: the row is locked, its status checked, the decision
\* and its event written in one transaction; the resume follows.
Decide(s, v) ==
    /\ card[s].status = "pending"
    /\ Settle(s, v, "decide")
    /\ UNCHANGED <<engine, mail, queue, seen, run, canceling, resumed, spent>>

\* sweepWorkflowApprovals: a pending card past expires_at is settled as a timeout.
Sweep(s) ==
    /\ Jobs
    /\ card[s].status = "pending"
    /\ Settle(s, "expired", "sweep")
    /\ UNCHANGED <<engine, mail, queue, seen, run, canceling, resumed, spent>>

StuckWithoutRejections == {"approved", "modified"}  \* mutant

\* The statuses resumeRetry selects.
StuckStatuses == Verdicts

\* resumeRetry reads a decided card of a paused run; the resume follows.
RetryPick(s) ==
    /\ Jobs
    /\ card[s].status \in StuckStatuses /\ run = "paused" /\ card[s].retries < MaxRetries
    /\ \A c \in calls : c.by # "retry"
    /\ calls' = calls \cup {ResumeCall("retry", s, card[s].payload)}
    /\ UNCHANGED <<engine, mail, queue, seen, run, card, canceling, verdicts, resumed, spent>>

-----------------------------------------------------------------------------
(* The calls of run.resume and what follows them.                          *)

\* decideApproval passes the step as an array, the two jobs as a string.
Addressed(c) == c.by = "decide" \/ c.step \notin Dotted
Resumable(c) == engine.phase = "suspended" /\ engine.step = c.step /\ Addressed(c)

Resume(c) ==
    /\ c \in calls /\ Resumable(c)
    /\ Advance("running", NoStep, engine.turn, NoVerdict)
    /\ mail' = Published("resumed", NoStep, engine.turn)
    /\ resumed' = resumed \cup {[step |-> c.step, turn |-> engine.turn, verdict |-> c.verdict]}
    /\ calls' = calls \ {c}
    /\ UNCHANGED <<queue, seen, run, card, canceling, verdicts, spent>>

GiveUpMisspelt(c) ==  \* mutant
    /\ c.by = "decide"
    /\ run' = IF run \in {"paused", "running"} THEN "cancelled" ELSE run
    /\ card' = card

\* decideApproval: the run is canceled, if it is still open and that update does
\* not fail as well.
GiveUp(c) ==
    /\ c.by = "decide"
    /\ run' \in {run, IF run \in {"paused", "running"} THEN "canceled" ELSE run}
    /\ card' = card

\* sweepWorkflowApprovals: the error is logged.
LogOnly(c) == c.by = "sweep" /\ UNCHANGED <<run, card>>

Counted(d, c) == [d EXCEPT !.payload = c.verdict, !.retries = c.retries + 1]

\* resumeRetry: the next count is written, over whatever the row says by now,
\* or the run is marked failed.
CountRetry(c) ==
    /\ c.by = "retry"
    /\ IF c.retries + 1 >= MaxRetries
       THEN run' = "failed" /\ card' = card
       ELSE run' = run /\ card' = [card EXCEPT ![c.step] = Counted(card[c.step], c)]

ResumeFails(c) ==
    /\ c \in calls
    /\ IF Resumable(c) THEN Spend("fault", MaxFaults) ELSE UNCHANGED spent
    /\ GiveUp(c) \/ LogOnly(c) \/ CountRetry(c)
    /\ calls' = calls \ {c}
    /\ UNCHANGED <<engine, mail, queue, seen, canceling, verdicts, resumed>>

-----------------------------------------------------------------------------
(* cancel-workflow-run.ts: the status is read, then the event published.   *)

CancelReads ==
    /\ ~canceling /\ run \in {"running", "paused"}
    /\ Spend("cancel", MaxCancels)
    /\ canceling' = TRUE
    /\ UNCHANGED <<engine, mail, queue, seen, run, card, calls, verdicts, resumed>>

CancelPublishes ==
    /\ canceling
    /\ canceling' = FALSE
    /\ IF engine.phase = "over"
       THEN engine' = [engine EXCEPT !.seq = @ + 1]
       ELSE Advance("over", NoStep, engine.turn, "canceled")
    /\ mail' = Published("canceled", NoStep, engine.turn)
    /\ UNCHANGED <<queue, seen, run, card, calls, verdicts, resumed, spent>>

\* The server restarts: what was only in memory is gone.
Crash ==
    /\ Spend("crash", MaxCrashes)
    /\ mail' = {} /\ calls' = {} /\ canceling' = FALSE
    /\ UNCHANGED <<engine, queue, seen, run, card, verdicts, resumed>>

-----------------------------------------------------------------------------

EngineStep == Start \/ Replay \/ (\E s \in Steps : Suspend(s)) \/ (\E o \in Outcomes : End(o))
HookStep == (\E e \in mail : Project(e) \/ HandlerFails(e)) \/ (\E e \in queue : RetryJob(e))
PeopleStep == (\E s \in Steps, v \in Verdicts : Decide(s, v)) \/ CancelReads \/ CancelPublishes
JobStep == \E s \in Steps : Sweep(s) \/ RetryPick(s)
CallStep == \E c \in calls : Resume(c) \/ ResumeFails(c)

Next == EngineStep \/ HookStep \/ PeopleStep \/ JobStep \/ CallStep \/ Crash

Spec == Init /\ [][Next]_vars

\* Committed transactions are followed up, handlers and jobs are run; nobody
\* has to decide, cancel or replay, and the server need not crash.
Fairness ==
    /\ WF_vars(\E e \in mail : Project(e) \/ HandlerFails(e))
    /\ WF_vars(\E e \in queue : RetryJob(e))
    /\ WF_vars(CallStep)
    /\ \A s \in Steps : WF_vars(RetryPick(s))

FairSpec == Spec /\ Fairness

-----------------------------------------------------------------------------
(* Properties.                                                             *)

\* A run has at most one card to decide, in whatever order the suspensions of
\* its steps are projected (lifecycle-hook.ts, onRunSuspended).
OnePending == \A s, t \in Steps : card[s].status = "pending" /\ card[t].status = "pending" => s = t

\* However many people and sweepers settle a card at once, one verdict is
\* recorded each time it is asked (decide-approval.ts, sweeper.ts).
OneVerdictPerAsk ==
    \A v, w \in verdicts : v.step = w.step /\ v.ask = w.ask => v = w

Unreplayed == spent["replay"] = 0

AllByVerdict ==
    \A r \in resumed : \E v \in verdicts :
        v.step = r.step /\ v.turn = r.turn /\ v.verdict = r.verdict

\* Until a run is replayed, its engine goes on from a suspension only with a verdict
\* that was recorded for that suspension.  (A replay breaks this: see README.)
ResumedByVerdict == Unreplayed => AllByVerdict

\* A run that the projection shows as over has no card left to decide.
NothingToDecideWhenOver == run \in Terminal => \A s \in Steps : card[s].status # "pending"

\* Until a run is replayed, a card with a verdict is asked again only about a later
\* suspension (onRunSuspended rewrites the row whatever it was).
VerdictStands ==
    [][Unreplayed' => \A s \in Steps :
          card[s].status \in Verdicts \cup {"expired"} /\ card'[s].status = "pending"
             => card'[s].turn > card[s].turn]_vars

\* An event the hook has already handled once changes nothing when it is handled
\* again, under whatever key.
DuplicateIsNoOp ==
    [][\A e \in mail :
          (/\ e \notin mail' /\ e \in seen'
           /\ \E f \in seen : f.seq = e.seq)
          => /\ run' = run
             /\ \A s \in Steps : card'[s].status = card[s].status]_vars

\* A card with a verdict does not wait for ever on a paused run: some resume
\* reaches the engine, or the run is given up.
Waits(s, statuses) ==
    /\ card[s].status \in statuses
    /\ engine.phase = "suspended" /\ engine.step = s /\ engine.turn = card[s].turn
    /\ run \notin Terminal
DecidedIsResumed == \A s \in Steps : Waits(s, Verdicts) ~> ~Waits(s, Verdicts)
=============================================================================
