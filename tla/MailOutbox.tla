----------------------------- MODULE MailOutbox -----------------------------
(***************************************************************************)
(* Transactional mail: Mailer.send, called in the server (by identity and  *)
(* by a subscriber of the event bus), and the job mailer:send, run in the  *)
(* worker.  core.outgoing_emails has one row for each tenant and dedupe    *)
(* key; every write to it, every event and every job is a transaction of   *)
(* its own.                                                                *)
(*                                                                         *)
(* The job queue is a library: a job is held by one worker, its tries are  *)
(* counted when it is fetched, it is deleted when its task returns and     *)
(* made ready again when its task throws or, hours later, when the worker  *)
(* that held it is gone.  The transport is another system.                 *)
(***************************************************************************)
EXTENDS Naturals

CONSTANTS
    Mails,        \* (tenant, dedupe key) pairs
    Calls,        \* calls of Mailer.send
    Key,          \* the mail each call is about
    MaxAttempts,  \* maxAttempts of a job
    MaxFaults,    \* bound: statements that fail, answers of the transport that are lost
    MaxCrashes    \* bound: restarts of the server or the worker

ASSUME KeyIsFunction == Key \in [Calls -> Mails]
ASSUME BoundsAreNatural == {MaxAttempts, MaxFaults, MaxCrashes} \subseteq Nat

VARIABLES
    row,       \* core.outgoing_emails
    calls,     \* how far each call is; fresh: it inserted the row
    jobs,      \* the queue's jobs: tries so far, and how far the task is
    events,    \* how many events of each kind core.events has for each mail
    accepted,  \* how often the transport accepted each mail
    spent      \* (bound) faults and crashes so far

vars == <<row, calls, jobs, events, accepted, spent>>

Settled == {"sent", "permanently_failed"}
Kinds == {"queued", "sent", "permanently_failed"}

\* Where a task can be.  "ready": no worker has the job; "stale": a dead one has.
Running == {"read", "prepare", "send", "mark", "announce", "note", "fail", "announceFail", "done"}
Row == [status: {"absent", "pending"} \cup Settled, attempts: Nat]
Call == [pc: {"idle", "upserted", "emitted", "done", "failed"}, fresh: BOOLEAN]
Job == [mail: Mails, tries: Nat, pc: {"ready", "stale"} \cup Running]

TypeOK ==
    /\ row \in [Mails -> Row]
    /\ calls \in [Calls -> Call]
    /\ jobs \subseteq Job
    /\ events \in [Mails -> [Kinds -> Nat]]
    /\ accepted \in [Mails -> Nat]
    /\ spent \in [{"fault", "crash"} -> Nat]

Init ==
    /\ row = [m \in Mails |-> [status |-> "absent", attempts |-> 0]]
    /\ calls = [c \in Calls |-> [pc |-> "idle", fresh |-> FALSE]]
    /\ jobs = {}
    /\ events = [m \in Mails |-> [k \in Kinds |-> 0]]
    /\ accepted = [m \in Mails |-> 0]
    /\ spent = [w \in {"fault", "crash"} |-> 0]

Spend(what, bound) ==
    /\ spent[what] < bound
    /\ spent' = [spent EXCEPT ![what] = @ + 1]
Fault == Spend("fault", MaxFaults)
Fine == UNCHANGED spent

Emitted(m, kind) == [events EXCEPT ![m][kind] = @ + 1]

-----------------------------------------------------------------------------
(* mailer.ts: Mailer.send                                                  *)

\* upsertPending: INSERT ... ON CONFLICT DO NOTHING; rows are never deleted.
Upsert(c) ==
    /\ calls[c].pc = "idle"
    /\ calls' = [calls EXCEPT ![c] = [pc |-> "upserted", fresh |-> row[Key[c]].status = "absent"]]
    /\ row' = [row EXCEPT ![Key[c]].status = IF @ = "absent" THEN "pending" ELSE @]
    /\ UNCHANGED <<jobs, events, accepted, spent>>

EmitAndAlwaysGoOn(c) ==  \* mutant
    /\ calls[c].pc = "upserted"
    /\ events' = Emitted(Key[c], "queued")
    /\ calls' = [calls EXCEPT ![c].pc = "emitted"]
    /\ UNCHANGED <<row, jobs, accepted, spent>>

EmitQueued(c) ==
    /\ calls[c].pc = "upserted"
    /\ events' = Emitted(Key[c], "queued")
    /\ calls' = [calls EXCEPT ![c].pc = IF calls[c].fresh THEN "emitted" ELSE "done"]
    /\ UNCHANGED <<row, jobs, accepted, spent>>

NewJob(m) == [mail |-> m, tries |-> 0, pc |-> "ready"]

AddJob(c) ==
    /\ calls[c].pc = "emitted"
    /\ jobs' = jobs \cup {NewJob(Key[c])}
    /\ calls' = [calls EXCEPT ![c].pc = "done"]
    /\ UNCHANGED <<row, events, accepted, spent>>

\* The emit or the addJob throws; send throws.  A caller that tries again makes another call.
CallFails(c) ==
    /\ calls[c].pc \in {"upserted", "emitted"}
    /\ Fault
    /\ calls' = [calls EXCEPT ![c].pc = "failed"]
    /\ UNCHANGED <<row, jobs, events, accepted>>

\* The server restarts: the calls under way are gone.
ServerCrash ==
    /\ Spend("crash", MaxCrashes)
    /\ calls' = [c \in Calls |-> IF calls[c].pc \in {"upserted", "emitted"}
                                 THEN [calls[c] EXCEPT !.pc = "failed"] ELSE calls[c]]
    /\ UNCHANGED <<row, jobs, events, accepted>>

-----------------------------------------------------------------------------
(* The job queue (external).                                               *)

Goes(j, pc) == jobs' = (jobs \ {j}) \cup {[j EXCEPT !.pc = pc]}
Throws(j) == Goes(j, "ready")

Fetch(j) ==
    /\ j.pc = "ready" /\ j.tries < MaxAttempts
    /\ jobs' = (jobs \ {j}) \cup {[mail |-> j.mail, tries |-> j.tries + 1, pc |-> "read"]}
    /\ UNCHANGED <<row, calls, events, accepted, spent>>

\* The task returned: the job is deleted.
Complete(j) ==
    /\ j.pc = "done"
    /\ jobs' = jobs \ {j}
    /\ UNCHANGED <<row, calls, events, accepted, spent>>

LockExpires(j) ==
    /\ j.pc = "stale"
    /\ Goes(j, "ready")
    /\ UNCHANGED <<row, calls, events, accepted, spent>>

WorkerCrash ==
    /\ Spend("crash", MaxCrashes)
    /\ jobs' = {IF j.pc \in Running THEN [j EXCEPT !.pc = "stale"] ELSE j : j \in jobs}
    /\ UNCHANGED <<row, calls, events, accepted>>

-----------------------------------------------------------------------------
(* queue/worker.ts: the task.  Each step is one call it awaits.            *)

OverUnlessFailed == {"sent"}  \* mutant

\* The statuses at which the task returns.
Over == Settled

FindById(j) ==
    /\ j.pc = "read"
    /\ \/ Goes(j, IF row[j.mail].status \in Over THEN "done" ELSE "prepare") /\ Fine
       \/ Throws(j) /\ Fault
    /\ UNCHANGED <<row, calls, events, accepted>>

\* resolveTransport and renderTemplate, outside the try: a failure is not recorded.
Prepare(j) ==
    /\ j.pc = "prepare"
    /\ Goes(j, "send") \/ Throws(j)
    /\ UNCHANGED <<row, calls, events, accepted, spent>>

\* transport.send: accepted, refused for now or for good; or accepted, and the
\* answer is lost.
Send(j) ==
    /\ j.pc = "send"
    /\ \/ /\ accepted' = [accepted EXCEPT ![j.mail] = @ + 1]
          /\ \/ Goes(j, "mark") /\ Fine
             \/ Goes(j, "note") /\ Fault
       \/ /\ UNCHANGED accepted /\ Fine
          /\ Goes(j, "note") \/ Goes(j, "fail")
    /\ UNCHANGED <<row, calls, events>>

Counted(m, status) == [row EXCEPT ![m] = [status |-> status, attempts |-> @.attempts + 1]]

MarkSent(j) ==
    /\ j.pc = "mark"
    /\ \/ row' = Counted(j.mail, "sent") /\ Goes(j, "announce") /\ Fine
       \/ row' = row /\ Goes(j, "note") /\ Fault
    /\ UNCHANGED <<calls, events, accepted>>

EmitSent(j) ==
    /\ j.pc = "announce"
    /\ \/ events' = Emitted(j.mail, "sent") /\ Goes(j, "done") /\ Fine
       \/ events' = events /\ Goes(j, "note") /\ Fault
    /\ UNCHANGED <<row, calls, accepted>>

NoteSwallowed(j) ==  \* mutant
    /\ j.pc = "note"
    /\ row' = Counted(j.mail, row[j.mail].status) /\ Goes(j, "done") /\ Fine
    /\ UNCHANGED <<calls, events, accepted>>

\* The catch of anything but a permanent refusal, then the rethrow: the row is
\* counted whatever its status is by now.
MarkFailedTransient(j) ==
    /\ j.pc = "note"
    /\ Throws(j)
    /\ \/ row' = Counted(j.mail, row[j.mail].status) /\ Fine
       \/ row' = row /\ Fault
    /\ UNCHANGED <<calls, events, accepted>>

MarkFailedMisspelt(j) ==  \* mutant
    /\ j.pc = "fail"
    /\ row' = Counted(j.mail, "failed") /\ Goes(j, "announceFail") /\ Fine
    /\ UNCHANGED <<calls, events, accepted>>

MarkFailedQuietly(j) ==  \* mutant
    /\ j.pc = "fail"
    /\ \/ row' = Counted(j.mail, "permanently_failed") /\ Goes(j, "announceFail") /\ Fine
       \/ row' = row /\ Goes(j, "done") /\ Fault
    /\ UNCHANGED <<calls, events, accepted>>

MarkPermanentlyFailed(j) ==
    /\ j.pc = "fail"
    /\ \/ row' = Counted(j.mail, "permanently_failed") /\ Goes(j, "announceFail") /\ Fine
       \/ row' = row /\ Throws(j) /\ Fault
    /\ UNCHANGED <<calls, events, accepted>>

EmitPermanentlyFailed(j) ==
    /\ j.pc = "announceFail"
    /\ \/ events' = Emitted(j.mail, "permanently_failed") /\ Goes(j, "done") /\ Fine
       \/ events' = events /\ Throws(j) /\ Fault
    /\ UNCHANGED <<row, calls, accepted>>

-----------------------------------------------------------------------------

CallStep(c) == Upsert(c) \/ EmitQueued(c) \/ AddJob(c)
JobStep(j) ==
    \/ Fetch(j) \/ FindById(j) \/ Prepare(j) \/ Send(j) \/ MarkSent(j) \/ EmitSent(j)
    \/ MarkFailedTransient(j) \/ MarkPermanentlyFailed(j) \/ EmitPermanentlyFailed(j)
    \/ Complete(j) \/ LockExpires(j)

Next ==
    \/ \E c \in Calls : CallStep(c) \/ CallFails(c)
    \/ \E j \in jobs : JobStep(j)
    \/ ServerCrash \/ WorkerCrash

Spec == Init /\ [][Next]_vars

\* The worker runs the jobs and goes on with those of a dead worker; nobody has to
\* send anything.
Fairness == \A m \in Mails : WF_vars(\E j \in jobs : j.mail = m /\ JobStep(j))
FairSpec == Spec /\ Fairness

-----------------------------------------------------------------------------
(* Properties.                                                             *)

\* Tasks never hand a settled mail to the transport again, nor settle it again,
\* however calls, retries and restarts meet (MailDelivery).
Fate == [m \in Mails |-> row[m].status]
Delivery == INSTANCE MailDelivery WITH fate <- Fate
Delivers == Delivery!Spec

\* A mail is delivered twice only if something failed: redelivered requests for
\* one key do not do it (mailer.ts, deduped).
TwiceOnlyByFault == \A m \in Mails : accepted[m] <= 1 + spent["fault"] + spent["crash"]

Abandoned(m) == \E c \in Calls : Key[c] = m /\ calls[c].fresh /\ calls[c].pc = "failed"
Coming(m) == \E c \in Calls : Key[c] = m /\ calls[c].fresh /\ calls[c].pc \in {"upserted", "emitted"}

\* A pending mail has a job, unless the one call that inserted it failed before it
\* added the job: later calls for the key find the row and add none.
PendingHasJob ==
    \A m \in Mails :
        row[m].status = "pending" => Coming(m) \/ Abandoned(m) \/ \E j \in jobs : j.mail = m

\* The outcome of a mail is announced at most once, and only the recorded one.
OneOutcome ==
    \A m \in Mails :
        /\ events[m]["sent"] + events[m]["permanently_failed"] <= 1
        /\ \A k \in Settled : events[m][k] > 0 => row[m].status = k

\* The attempts of a row count each try once, and one of them twice if its mail was
\* sent and the announcement then failed (worker.ts, the one try around both).
AttemptsFollowTries ==
    \A j \in jobs :
        row[j.mail].attempts <= j.tries + (IF row[j.mail].status = "sent" THEN 1 ELSE 0)

\* A mail with a job is settled, or its tries are used up.
Exhausted(m) == \E j \in jobs : j.mail = m /\ j.pc = "ready" /\ j.tries = MaxAttempts
JobSettles ==
    \A m \in Mails :
        (\E j \in jobs : j.mail = m) ~> (row[m].status \in Settled \/ Exhausted(m))
=============================================================================
