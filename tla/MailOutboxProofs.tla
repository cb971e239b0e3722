-------------------------- MODULE MailOutboxProofs --------------------------
(***************************************************************************)
(* Theorems about MailOutbox, for any mails, calls, tries, faults and      *)
(* restarts.  The invariant relates the three systems a mail lives in: at  *)
(* most one job, or one call that will add it, stands for a mail; and the  *)
(* place its task is at says what the row, the event log and the transport *)
(* have been told.                                                         *)
(***************************************************************************)
EXTENDS MailOutbox, TLAPS

LEMMA GoesTyped ==
    ASSUME TypeOK, NEW j \in jobs, NEW pc \in {"ready", "stale"} \cup Running, Goes(j, pc)
    PROVE  jobs' \subseteq Job
<1>1. j \in Job
  BY DEF TypeOK
<1>2. [j EXCEPT !.pc = pc] \in Job
  BY <1>1 DEF Job
<1>3. QED
  BY <1>2 DEF Goes, TypeOK

LEMMA CountedTyped ==
    ASSUME TypeOK, NEW m \in Mails, NEW status \in Settled \cup {"absent", "pending"}
    PROVE  Counted(m, status) \in [Mails -> Row]
<1>1. row[m].attempts + 1 \in Nat
  BY DEF TypeOK, Row
<1>2. [status |-> status, attempts |-> row[m].attempts + 1] \in Row
  BY <1>1 DEF Row
<1>3. QED
  BY <1>2 DEF Counted, TypeOK

LEMMA EmittedTyped ==
    ASSUME TypeOK, NEW m \in Mails, NEW k \in Kinds
    PROVE  Emitted(m, k) \in [Mails -> [Kinds -> Nat]]
  BY DEF Emitted, TypeOK

LEMMA SpendTyped ==
    ASSUME TypeOK, NEW what \in {"fault", "crash"}, NEW bound, Spend(what, bound)
    PROVE  spent' \in [{"fault", "crash"} -> Nat]
  BY DEF Spend, TypeOK

LEMMA AcceptTyped ==
    ASSUME TypeOK, NEW m \in Mails
    PROVE  [accepted EXCEPT ![m] = @ + 1] \in [Mails -> Nat]
  BY DEF TypeOK

LEMMA JobsTyped ==
    ASSUME TypeOK, NEW j \in jobs
    PROVE  j \in Job /\ j.mail \in Mails
  BY DEF TypeOK, Job

THEOREM InitTyped == Init => TypeOK
  BY DEF Init, TypeOK, Row, Call

THEOREM NextTyped == TypeOK /\ [Next]_vars => TypeOK'
<1> SUFFICES ASSUME TypeOK, [Next]_vars PROVE TypeOK'
  OBVIOUS
<1> USE KeyIsFunction
<1>1. ASSUME NEW c \in Calls, CallStep(c) \/ CallFails(c)
      PROVE  TypeOK'
  <2>1. CASE Upsert(c)
    <3>1. Key[c] \in Mails
      OBVIOUS
    <3>2. calls' \in [Calls -> Call]
      <4>1. [pc |-> "upserted", fresh |-> row[Key[c]].status = "absent"] \in Call
        BY DEF Call
      <4>2. QED
        BY <2>1, <4>1 DEF Upsert, TypeOK
    <3>3. row' \in [Mails -> Row]
      <4>1. row[Key[c]] \in Row
        BY <3>1 DEF TypeOK
      <4>2. [row[Key[c]] EXCEPT !.status = IF row[Key[c]].status = "absent" THEN "pending"
                                          ELSE row[Key[c]].status] \in Row
        BY <4>1 DEF Row
      <4>3. QED
        BY <2>1, <3>1, <4>2 DEF Upsert, TypeOK
    <3>4. QED
      BY <2>1, <3>2, <3>3 DEF Upsert, TypeOK
  <2>2. CASE EmitQueued(c)
    <3>1. events' \in [Mails -> [Kinds -> Nat]]
      BY <2>2, EmittedTyped DEF EmitQueued, Kinds
    <3>2. calls' \in [Calls -> Call]
      BY <2>2 DEF EmitQueued, TypeOK, Call
    <3>3. QED
      BY <2>2, <3>1, <3>2 DEF EmitQueued, TypeOK
  <2>3. CASE AddJob(c)
    <3>1. NewJob(Key[c]) \in Job
      BY DEF NewJob, Job
    <3>2. calls' \in [Calls -> Call]
      BY <2>3 DEF AddJob, TypeOK, Call
    <3>3. QED
      BY <2>3, <3>1, <3>2 DEF AddJob, TypeOK
  <2>4. CASE CallFails(c)
    <3>1. calls' \in [Calls -> Call]
      BY <2>4 DEF CallFails, TypeOK, Call
    <3>2. QED
      BY <2>4, <3>1, SpendTyped DEF CallFails, Fault, TypeOK
  <2>5. QED
    BY <1>1, <2>1, <2>2, <2>3, <2>4 DEF CallStep
<1>2. ASSUME NEW j \in jobs, JobStep(j)
      PROVE  TypeOK'
  <2>1. j \in Job /\ j.mail \in Mails /\ j.tries \in Nat
    BY JobsTyped DEF Job
  <2>2. row[j.mail].status \in Settled \cup {"absent", "pending"}
    BY <2>1 DEF TypeOK, Row
  <2>3. Fault \/ Fine => spent' \in [{"fault", "crash"} -> Nat]
    BY SpendTyped DEF Fault, Fine, TypeOK
  <2>4. CASE Fetch(j)
    <3>1. [mail |-> j.mail, tries |-> j.tries + 1, pc |-> "read"] \in Job
      BY <2>1 DEF Job, Running
    <3>2. QED
      BY <2>4, <3>1 DEF Fetch, TypeOK
  <2>5. CASE FindById(j)
    BY <2>5, <2>3, GoesTyped DEF FindById, Throws, Running, TypeOK
  <2>6. CASE Prepare(j)
    BY <2>6, GoesTyped DEF Prepare, Throws, Running, TypeOK
  <2>7. CASE Send(j)
    <3>1. accepted' \in [Mails -> Nat]
      BY <2>7, <2>1, AcceptTyped DEF Send, TypeOK
    <3>2. QED
      BY <2>7, <2>3, <3>1, GoesTyped DEF Send, Running, TypeOK
  <2>8. CASE MarkSent(j)
    <3>1. row' \in [Mails -> Row]
      BY <2>8, <2>1, CountedTyped DEF MarkSent, Settled, TypeOK
    <3>2. QED
      BY <2>8, <2>3, <3>1, GoesTyped DEF MarkSent, Running, TypeOK
  <2>9. CASE EmitSent(j)
    <3>1. events' \in [Mails -> [Kinds -> Nat]]
      BY <2>9, <2>1, EmittedTyped DEF EmitSent, Kinds, TypeOK
    <3>2. QED
      BY <2>9, <2>3, <3>1, GoesTyped DEF EmitSent, Running, TypeOK
  <2>10. CASE MarkFailedTransient(j)
    <3>1. row' \in [Mails -> Row]
      BY <2>10, <2>1, <2>2, CountedTyped DEF MarkFailedTransient, TypeOK
    <3>2. QED
      BY <2>10, <2>3, <3>1, GoesTyped DEF MarkFailedTransient, Throws, TypeOK
  <2>11. CASE MarkPermanentlyFailed(j)
    <3>1. row' \in [Mails -> Row]
      BY <2>11, <2>1, CountedTyped DEF MarkPermanentlyFailed, Settled, TypeOK
    <3>2. QED
      BY <2>11, <2>3, <3>1, GoesTyped DEF MarkPermanentlyFailed, Throws, Running, TypeOK
  <2>12. CASE EmitPermanentlyFailed(j)
    <3>1. events' \in [Mails -> [Kinds -> Nat]]
      BY <2>12, <2>1, EmittedTyped DEF EmitPermanentlyFailed, Kinds, TypeOK
    <3>2. QED
      BY <2>12, <2>3, <3>1, GoesTyped DEF EmitPermanentlyFailed, Throws, Running, TypeOK
  <2>13. CASE Complete(j)
    BY <2>13 DEF Complete, TypeOK
  <2>14. CASE LockExpires(j)
    BY <2>14, GoesTyped DEF LockExpires, TypeOK
  <2>15. QED
    BY <1>2, <2>4, <2>5, <2>6, <2>7, <2>8, <2>9, <2>10, <2>11, <2>12, <2>13, <2>14 DEF JobStep
<1>3. CASE ServerCrash
  <2>1. calls' \in [Calls -> Call]
    BY <1>3 DEF ServerCrash, TypeOK, Call
  <2>2. QED
    BY <1>3, <2>1, SpendTyped DEF ServerCrash, TypeOK
<1>4. CASE WorkerCrash
  <2>1. \A j \in jobs : [j EXCEPT !.pc = "stale"] \in Job
    BY DEF TypeOK, Job
  <2>2. jobs' \subseteq Job
    BY <1>4, <2>1 DEF WorkerCrash, TypeOK
  <2>3. QED
    BY <1>4, <2>2, SpendTyped DEF WorkerCrash, TypeOK
<1>5. CASE UNCHANGED vars
  BY <1>5 DEF vars, TypeOK
<1>6. QED
  BY <1>1, <1>2, <1>3, <1>4, <1>5 DEF Next

\* Every reachable state is well typed.
THEOREM TypeCorrect == Spec => []TypeOK
  BY InitTyped, NextTyped, PTL DEF Spec

-----------------------------------------------------------------------------
(* The invariant.                                                          *)

\* At most one job, or one call still to add it, stands for a mail.
OwnerInv ==
    /\ \A i, j \in jobs : i.mail = j.mail => i = j
    /\ \A c, d \in Calls : Key[c] = Key[d] /\ calls[c].fresh /\ calls[d].fresh => c = d
    /\ \A c \in Calls : calls[c].pc = "emitted" => calls[c].fresh
    /\ \A c \in Calls : calls[c].fresh => calls[c].pc # "idle" /\ row[Key[c]].status # "absent"
    /\ \A c \in Calls, j \in jobs : calls[c].fresh /\ Key[c] = j.mail => calls[c].pc = "done"
    /\ \A c \in Calls : calls[c].fresh /\ calls[c].pc \in {"upserted", "emitted"}
                            => row[Key[c]].status = "pending" /\ row[Key[c]].attempts = 0
    /\ \A m \in Mails : row[m].status = "absent" => row[m].attempts = 0

Sent(m) == IF row[m].status = "sent" THEN 1 ELSE 0

\* What the place of a task says of its mail.
Place(j) ==
    /\ row[j.mail].status # "absent"
    /\ j.pc \in {"prepare", "send", "mark", "fail"} => row[j.mail].status = "pending"
    /\ j.pc = "mark" => accepted[j.mail] > 0
    /\ j.pc = "announce" => row[j.mail].status = "sent" /\ events[j.mail]["sent"] = 0
    /\ j.pc = "announceFail" => /\ row[j.mail].status = "permanently_failed"
                                /\ events[j.mail]["permanently_failed"] = 0
    /\ j.pc = "done" => row[j.mail].status \in Settled
    /\ row[j.mail].attempts <= j.tries + Sent(j.mail)
    /\ j.pc \in {"read", "prepare", "send", "mark", "fail", "note"}
         => row[j.mail].attempts + 1 <= j.tries + Sent(j.mail)
    /\ j.pc = "announce" => row[j.mail].attempts <= j.tries
PlaceInv == \A j \in jobs : Place(j)

Inv == OwnerInv /\ PlaceInv /\ OneOutcome /\ PendingHasJob

LEMMA InitInv == Init => Inv
<1> SUFFICES ASSUME Init PROVE Inv
  OBVIOUS
<1>1. OwnerInv /\ PlaceInv
  BY KeyIsFunction DEF Init, OwnerInv, PlaceInv
<1>2. OneOutcome
  <2>1. ASSUME NEW m \in Mails
        PROVE  events[m]["sent"] = 0 /\ events[m]["permanently_failed"] = 0
    BY DEF Init, Kinds
  <2>2. ASSUME NEW m \in Mails
        PROVE  /\ events[m]["sent"] + events[m]["permanently_failed"] <= 1
               /\ \A k \in Settled : events[m][k] > 0 => row[m].status = k
    BY <2>1 DEF Settled
  <2>3. QED
    BY <2>2 DEF OneOutcome
<1>3. PendingHasJob
  BY DEF Init, PendingHasJob
<1>4. QED
  BY <1>1, <1>2, <1>3 DEF Inv

\* A step that moves the job of one mail, and touches only that mail.
LEMMA MoveKeeps ==
    ASSUME TypeOK, Inv, NEW j \in jobs, NEW k, k.mail = j.mail,
           jobs' = (jobs \ {j}) \cup {k}, calls' = calls,
           \A m \in Mails \ {j.mail} :
               row'[m] = row[m] /\ events'[m] = events[m] /\ accepted'[m] = accepted[m],
           Place(k)', OneOutcome'
    PROVE  Inv'
<1> USE KeyIsFunction
<1>1. j.mail \in Mails /\ \A i \in jobs : i.mail \in Mails
  BY JobsTyped
<1>2. row'[j.mail].status # "absent"
  BY DEF Place
<1>3. OwnerInv'
  BY <1>1, <1>2 DEF Inv, OwnerInv
<1>4. PlaceInv'
  <2>1. ASSUME NEW i \in jobs, i # j
        PROVE  Place(i)'
    <3>1. i.mail \in Mails \ {j.mail}
      BY <1>1, <2>1 DEF Inv, OwnerInv
    <3>2. row'[i.mail] = row[i.mail] /\ events'[i.mail] = events[i.mail]
            /\ accepted'[i.mail] = accepted[i.mail]
      BY <3>1
    <3>3. Place(i)
      BY DEF Inv, PlaceInv
    <3>4. QED
      BY <3>2, <3>3 DEF Place, Sent
  <2>2. QED
    BY <2>1 DEF PlaceInv
<1>5. PendingHasJob'
  <2>1. SUFFICES ASSUME NEW m \in Mails, row'[m].status = "pending", m # j.mail
                 PROVE  Coming(m)' \/ Abandoned(m)' \/ \E i \in jobs' : i.mail = m
    BY <1>1 DEF PendingHasJob
  <2>2. Coming(m) \/ Abandoned(m) \/ \E i \in jobs : i.mail = m
    BY <2>1 DEF Inv, PendingHasJob
  <2>3. QED
    BY <2>1, <2>2 DEF Coming, Abandoned
<1>6. QED
  BY <1>3, <1>4, <1>5 DEF Inv

LEMMA GoesMoves ==
    ASSUME TypeOK, NEW j \in jobs, NEW pc, Goes(j, pc)
    PROVE  \E k : /\ k.mail = j.mail /\ k.tries = j.tries /\ k.pc = pc
                  /\ jobs' = (jobs \ {j}) \cup {k}
<1> DEFINE k == [j EXCEPT !.pc = pc]
<1>1. j \in Job
  BY DEF TypeOK
<1>2. k.mail = j.mail /\ k.tries = j.tries /\ k.pc = pc
  BY <1>1 DEF Job
<1>3. QED
  BY <1>2 DEF Goes

\* Numbers and statuses of the mail of a job.
LEMMA MailTyped ==
    ASSUME TypeOK, NEW j \in jobs
    PROVE  /\ j.mail \in Mails /\ j.tries \in Nat
           /\ row[j.mail].attempts \in Nat /\ accepted[j.mail] \in Nat
           /\ \A k \in Kinds : events[j.mail][k] \in Nat
           /\ row[j.mail].status \in {"absent", "pending", "sent", "permanently_failed"}
<1>1. j \in Job
  BY DEF TypeOK
<1>2. j.mail \in Mails /\ j.tries \in Nat
  BY <1>1 DEF Job
<1>3. row[j.mail] \in Row
  BY <1>2 DEF TypeOK
<1>4. QED
  BY <1>2, <1>3 DEF TypeOK, Row, Settled

\* A job that moves while its row, its events and its acceptances stay.
LEMMA QuietMove ==
    ASSUME TypeOK, Inv, NEW j \in jobs, NEW pc, Goes(j, pc),
           UNCHANGED <<row, calls, events>>,
           accepted' \in [Mails -> Nat], accepted'[j.mail] >= accepted[j.mail],
           \A m \in Mails \ {j.mail} : accepted'[m] = accepted[m],
           \A k : k.mail = j.mail /\ k.tries = j.tries /\ k.pc = pc => Place(k)'
    PROVE  Inv'
<1>1. PICK k : /\ k.mail = j.mail /\ k.tries = j.tries /\ k.pc = pc
               /\ jobs' = (jobs \ {j}) \cup {k}
  BY GoesMoves
<1>2. OneOutcome'
  BY DEF Inv, OneOutcome
<1>3. Place(k)'
  BY <1>1
<1>4. QED
  BY <1>1, <1>2, <1>3, MoveKeeps

\* A row that counts a try keeps the other rows.
LEMMA CountedRow ==
    ASSUME TypeOK, NEW m \in Mails, NEW status, row' = Counted(m, status)
    PROVE  /\ row'[m].status = status /\ row'[m].attempts = row[m].attempts + 1
           /\ \A n \in Mails \ {m} : row'[n] = row[n]
  BY DEF Counted, TypeOK

LEMMA EmittedKind ==
    ASSUME TypeOK, NEW m \in Mails, NEW kind \in Kinds, events' = Emitted(m, kind)
    PROVE  /\ events'[m][kind] = events[m][kind] + 1
           /\ \A k \in Kinds \ {kind} : events'[m][k] = events[m][k]
           /\ \A n \in Mails \ {m} : events'[n] = events[n]
  BY DEF Emitted, TypeOK

LEMMA CallFields ==
    ASSUME NEW call, NEW p, NEW b \in BOOLEAN, call = [pc |-> p, fresh |-> b]
    PROVE  call.pc = p /\ call.fresh = b
  OBVIOUS

LEMMA CallInv == ASSUME TypeOK, Inv, NEW c \in Calls, CallStep(c) \/ CallFails(c) PROVE Inv'
<1> USE KeyIsFunction
<1>1. CASE Upsert(c)
  <2>1. Key[c] \in Mails /\ calls[c].pc = "idle" /\ ~ calls[c].fresh
    BY <1>1 DEF Upsert, Inv, OwnerInv
  <2>2. /\ calls'[c].pc = "upserted" /\ calls'[c].fresh = (row[Key[c]].status = "absent")
        /\ \A d \in Calls \ {c} : calls'[d] = calls[d]
    <3>1. /\ calls'[c] = [pc |-> "upserted", fresh |-> row[Key[c]].status = "absent"]
          /\ \A d \in Calls \ {c} : calls'[d] = calls[d]
      BY <1>1 DEF Upsert, TypeOK
    <3>2. calls'[c].pc = "upserted" /\ calls'[c].fresh = (row[Key[c]].status = "absent")
      BY <3>1, CallFields
    <3>3. QED
      BY <3>1, <3>2
  <2>3. /\ \A m \in Mails \ {Key[c]} : row'[m] = row[m]
        /\ row'[Key[c]].attempts = row[Key[c]].attempts
        /\ row'[Key[c]].status = IF row[Key[c]].status = "absent" THEN "pending"
                                ELSE row[Key[c]].status
    <3>1. row[Key[c]] \in Row
      BY <2>1 DEF TypeOK
    <3>2. row'[Key[c]] = [row[Key[c]] EXCEPT !.status = IF row[Key[c]].status = "absent"
                              THEN "pending" ELSE row[Key[c]].status]
      BY <1>1, <2>1 DEF Upsert, TypeOK
    <3>3. QED
      BY <1>1, <2>1, <3>1, <3>2 DEF Upsert, TypeOK, Row
  <2>4. UNCHANGED <<jobs, events, accepted>>
    BY <1>1 DEF Upsert
  <2>5. OwnerInv'
    <3>1. calls'[c].pc = "upserted" /\ (calls'[c].fresh <=> row[Key[c]].status = "absent")
      BY <2>2
    <3>2. calls'[c].fresh =>
            /\ \A j \in jobs : j.mail # Key[c]
            /\ \A d \in Calls : Key[d] = Key[c] => ~ calls[d].fresh
            /\ row'[Key[c]].status = "pending" /\ row'[Key[c]].attempts = 0
      BY <2>1, <2>3, <3>1 DEF Inv, OwnerInv, PlaceInv, Place
    <3>3. \A m \in Mails :
            /\ row[m].status # "absent" =>
                 row'[m].status = row[m].status /\ row'[m].attempts = row[m].attempts
            /\ row'[m].status = "absent" => row[m] = row'[m]
      BY <2>1, <2>3
    <3>4. \A d \in Calls : calls[d].fresh => row[Key[d]].status # "absent" /\ Key[d] \in Mails
      BY DEF Inv, OwnerInv
    <3>5. \A d \in Calls : calls'[d].fresh => calls'[d].pc # "idle" /\ row'[Key[d]].status # "absent"
      BY <2>1, <2>2, <3>1, <3>2, <3>3, <3>4 DEF Inv, OwnerInv
    <3>6. \A d \in Calls : calls'[d].fresh /\ calls'[d].pc \in {"upserted", "emitted"}
             => row'[Key[d]].status = "pending" /\ row'[Key[d]].attempts = 0
      BY <2>1, <2>2, <3>1, <3>2, <3>3, <3>4 DEF Inv, OwnerInv
    <3>7. \A d, e \in Calls : Key[d] = Key[e] /\ calls'[d].fresh /\ calls'[e].fresh => d = e
      BY <2>2, <3>2 DEF Inv, OwnerInv
    <3>8. \A d \in Calls, j \in jobs' : calls'[d].fresh /\ Key[d] = j.mail => calls'[d].pc = "done"
      BY <2>2, <2>4, <3>2 DEF Inv, OwnerInv
    <3>9. QED
      BY <2>2, <2>4, <3>1, <3>3, <3>5, <3>6, <3>7, <3>8 DEF Inv, OwnerInv
  <2>6. PlaceInv'
    <3>1. ASSUME NEW j \in jobs
          PROVE  Place(j)'
      <4>1. row'[j.mail] = row[j.mail] \/ (j.mail = Key[c] /\ row'[Key[c]].status = row[Key[c]].status)
        BY <2>3, JobsTyped DEF Inv, PlaceInv, Place
      <4>2. row'[j.mail].status = row[j.mail].status /\ row'[j.mail].attempts = row[j.mail].attempts
        BY <2>3, <4>1
      <4>3. QED
        BY <2>4, <4>2 DEF Inv, PlaceInv, Place, Sent
    <3>2. QED
      BY <2>4, <3>1 DEF PlaceInv
  <2>7. OneOutcome'
    BY <2>3, <2>4 DEF Inv, OneOutcome, Settled
  <2>8. PendingHasJob'
    <3>1. SUFFICES ASSUME NEW m \in Mails, row'[m].status = "pending"
                   PROVE  Coming(m)' \/ Abandoned(m)' \/ \E j \in jobs' : j.mail = m
      BY DEF PendingHasJob
    <3>2. CASE row[m].status = "pending"
      BY <2>1, <2>2, <2>4, <3>2 DEF Inv, PendingHasJob, Coming, Abandoned
    <3>3. CASE row[m].status # "pending"
      <4>1. m = Key[c] /\ row[m].status = "absent"
        BY <2>3, <3>1, <3>3
      <4>2. calls'[c].fresh /\ calls'[c].pc = "upserted"
        BY <2>2, <4>1
      <4>3. QED
        BY <4>1, <4>2 DEF Coming
    <3>4. QED
      BY <3>2, <3>3
  <2>9. QED
    BY <2>5, <2>6, <2>7, <2>8 DEF Inv
<1>2. ASSUME UNCHANGED <<row, accepted>>,
             \A m \in Mails, k \in Settled : events'[m][k] = events[m][k],
             NEW pc, calls' = [calls EXCEPT ![c].pc = pc],
             calls[c].pc \in {"upserted", "emitted"},
             \/ jobs' = jobs /\ pc = (IF calls[c].fresh THEN "emitted" ELSE "done")
             \/ jobs' = jobs \cup {NewJob(Key[c])} /\ pc = "done" /\ calls[c].pc = "emitted"
             \/ jobs' = jobs /\ pc = "failed"
      PROVE  Inv'
  <2>1. /\ calls'[c].pc = pc /\ calls'[c].fresh = calls[c].fresh
        /\ \A d \in Calls \ {c} : calls'[d] = calls[d]
    <3>1. calls[c] \in Call
      BY DEF TypeOK
    <3>2. calls'[c] = [calls[c] EXCEPT !.pc = pc] /\ \A d \in Calls \ {c} : calls'[d] = calls[d]
      BY <1>2 DEF TypeOK
    <3>3. QED
      BY <3>1, <3>2 DEF Call
  <2>2. NewJob(Key[c]).mail = Key[c] /\ NewJob(Key[c]).pc = "ready" /\ NewJob(Key[c]).tries = 0
    BY DEF NewJob
  <2>3. OwnerInv'
    BY <1>2, <2>1, <2>2 DEF Inv, OwnerInv
  <2>4. PlaceInv'
    <3>1. ASSUME NEW j \in jobs
          PROVE  Place(j)'
      BY <1>2, JobsTyped DEF Inv, PlaceInv, Place, Sent, Settled
    <3>2. ASSUME calls[c].pc = "emitted"
          PROVE  Place(NewJob(Key[c]))'
      <4>1. calls[c].fresh
        BY <3>2 DEF Inv, OwnerInv
      <4>2. row[Key[c]].status = "pending" /\ row[Key[c]].attempts = 0
        BY <3>2, <4>1 DEF Inv, OwnerInv
      <4>3. QED
        BY <1>2, <2>2, <4>2 DEF Place, Sent
    <3>3. QED
      BY <1>2, <3>1, <3>2 DEF PlaceInv
  <2>5. OneOutcome'
    BY <1>2 DEF Inv, OneOutcome, Settled
  <2>6. PendingHasJob'
    BY <1>2, <2>1, <2>2 DEF Inv, PendingHasJob, Coming, Abandoned
  <2>7. QED
    BY <2>3, <2>4, <2>5, <2>6 DEF Inv
<1>3. CASE EmitQueued(c)
  <2>1. \A m \in Mails, k \in Settled : events'[m][k] = events[m][k]
    BY <1>3 DEF EmitQueued, Emitted, TypeOK, Settled, Kinds
  <2>2. QED
    BY <1>2, <1>3, <2>1 DEF EmitQueued
<1>4. CASE AddJob(c)
  BY <1>2, <1>4 DEF AddJob
<1>5. CASE CallFails(c)
  BY <1>2, <1>5 DEF CallFails
<1>6. QED
  BY <1>1, <1>3, <1>4, <1>5 DEF CallStep

LEMMA JobInv == ASSUME TypeOK, Inv, NEW j \in jobs, JobStep(j) PROVE Inv'
<1>1. /\ j.mail \in Mails /\ j.tries \in Nat
      /\ row[j.mail].attempts \in Nat /\ accepted[j.mail] \in Nat
      /\ \A k \in Kinds : events[j.mail][k] \in Nat
      /\ row[j.mail].status \in {"absent", "pending", "sent", "permanently_failed"}
  BY MailTyped
<1>2. Place(j)
  BY DEF Inv, PlaceInv
<1>3. accepted \in [Mails -> Nat]
  BY DEF TypeOK
\* A move that changes nothing but the job.
<1>4. ASSUME NEW pc, Goes(j, pc), UNCHANGED <<row, calls, events, accepted>>,
             \A k : k.mail = j.mail /\ k.tries = j.tries /\ k.pc = pc => Place(k)
      PROVE  Inv'
  <2>1. \A k : k.mail = j.mail /\ k.tries = j.tries /\ k.pc = pc => Place(k)'
    BY <1>4 DEF Place, Sent
  <2>2. QED
    BY <1>1, <1>3, <1>4, <2>1, QuietMove
\* A move that counts a try on the row.
<1>5. ASSUME NEW pc, Goes(j, pc), NEW status, row' = Counted(j.mail, status),
             UNCHANGED <<calls, events, accepted>>,
             status = row[j.mail].status
               \/ (status \in Settled /\ row[j.mail].status = "pending"),
             \A k : /\ k.mail = j.mail /\ k.tries = j.tries /\ k.pc = pc
                    /\ row'[j.mail].status = status
                    /\ row'[j.mail].attempts = row[j.mail].attempts + 1
                    => Place(k)'
      PROVE  Inv'
  <2>1. /\ row'[j.mail].status = status /\ row'[j.mail].attempts = row[j.mail].attempts + 1
        /\ \A n \in Mails \ {j.mail} : row'[n] = row[n]
    BY <1>1, <1>5, CountedRow
  <2>2. PICK k : /\ k.mail = j.mail /\ k.tries = j.tries /\ k.pc = pc
                 /\ jobs' = (jobs \ {j}) \cup {k}
    BY <1>5, GoesMoves
  <2>3. Place(k)'
    BY <1>5, <2>1, <2>2
  <2>4. OneOutcome'
    <3>1. ASSUME NEW m \in Mails
          PROVE  /\ events'[m]["sent"] + events'[m]["permanently_failed"] <= 1
                 /\ \A o \in Settled : events'[m][o] > 0 => row'[m].status = o
      BY <1>5, <2>1 DEF Inv, OneOutcome, Settled
    <3>2. QED
      BY <3>1 DEF OneOutcome
  <2>5. QED
    BY <1>5, <2>1, <2>2, <2>3, <2>4, MoveKeeps
\* A move that announces the outcome of the row.
<1>6. ASSUME NEW kind \in Settled, row[j.mail].status = kind, events[j.mail][kind] = 0,
             Goes(j, "done"), events' = Emitted(j.mail, kind), UNCHANGED <<row, calls, accepted>>,
             j.pc \in {"announce", "announceFail"}
      PROVE  Inv'
  <2>1. /\ events'[j.mail][kind] = events[j.mail][kind] + 1
        /\ \A o \in Kinds \ {kind} : events'[j.mail][o] = events[j.mail][o]
        /\ \A n \in Mails \ {j.mail} : events'[n] = events[n]
    BY <1>1, <1>6, EmittedKind DEF Settled, Kinds
  <2>2. PICK k : /\ k.mail = j.mail /\ k.tries = j.tries /\ k.pc = "done"
                 /\ jobs' = (jobs \ {j}) \cup {k}
    BY <1>6, GoesMoves
  <2>3. Place(k)'
    BY <1>1, <1>2, <1>6, <2>2 DEF Place, Sent, Settled
  <2>4. OneOutcome'
    <3>1. \A o \in Settled : events'[j.mail][o] = IF o = kind THEN 1 ELSE 0
      <4>1. \A o \in Settled \ {kind} : events[j.mail][o] = 0
        BY <1>1, <1>6 DEF Inv, OneOutcome, Settled, Kinds
      <4>2. QED
        BY <1>6, <2>1, <4>1 DEF Settled, Kinds
    <3>2. ASSUME NEW m \in Mails
          PROVE  /\ events'[m]["sent"] + events'[m]["permanently_failed"] <= 1
                 /\ \A o \in Settled : events'[m][o] > 0 => row'[m].status = o
      <4>1. CASE m = j.mail
        BY <1>6, <3>1, <4>1 DEF Settled
      <4>2. CASE m # j.mail
        BY <1>6, <2>1, <4>2 DEF Inv, OneOutcome, Settled
      <4>3. QED
        BY <4>1, <4>2
    <3>3. QED
      BY <3>2 DEF OneOutcome
  <2>5. QED
    BY <1>6, <2>1, <2>2, <2>3, <2>4, MoveKeeps
<1>7. CASE Fetch(j)
  <2>1. PICK k : /\ k.mail = j.mail /\ k.tries = j.tries + 1 /\ k.pc = "read"
                 /\ jobs' = (jobs \ {j}) \cup {k}
    BY <1>7 DEF Fetch
  <2>2. Place(k)'
    BY <1>1, <1>2, <1>7, <2>1 DEF Fetch, Place, Sent
  <2>3. OneOutcome'
    BY <1>7 DEF Fetch, Inv, OneOutcome
  <2>4. QED
    BY <1>7, <2>1, <2>2, <2>3, MoveKeeps DEF Fetch
<1>8. CASE FindById(j)
  <2>1. ASSUME NEW pc, NEW k, k.mail = j.mail, k.tries = j.tries, k.pc = pc,
               \/ pc = "done" /\ row[j.mail].status \in Over
               \/ pc = "prepare" /\ row[j.mail].status \notin Over
               \/ pc = "ready"
        PROVE  Place(k)
    BY <1>1, <1>2, <1>8, <2>1 DEF FindById, Place, Sent, Over, Settled
  <2>2. QED
    BY <1>4, <1>8, <2>1 DEF FindById, Throws
<1>9. CASE Prepare(j)
  <2>1. ASSUME NEW pc \in {"send", "ready"}, NEW k, k.mail = j.mail, k.tries = j.tries, k.pc = pc
        PROVE  Place(k)
    BY <1>1, <1>2, <1>9, <2>1 DEF Prepare, Place, Sent
  <2>2. QED
    BY <1>4, <1>9, <2>1 DEF Prepare, Throws
<1>10. CASE Send(j)
  <2>1. /\ accepted' \in [Mails -> Nat]
        /\ accepted' = accepted \/ accepted'[j.mail] = accepted[j.mail] + 1
        /\ \A m \in Mails \ {j.mail} : accepted'[m] = accepted[m]
    BY <1>1, <1>3, <1>10 DEF Send
  <2>2. ASSUME NEW pc \in {"mark", "note", "fail"},
               pc = "mark" => accepted'[j.mail] = accepted[j.mail] + 1,
               NEW k, k.mail = j.mail, k.tries = j.tries, k.pc = pc
        PROVE  Place(k)'
    BY <1>1, <1>2, <1>10, <2>1, <2>2 DEF Send, Place, Sent
  <2>3. PICK pc \in {"mark", "note", "fail"} :
            Goes(j, pc) /\ (pc = "mark" => accepted'[j.mail] = accepted[j.mail] + 1)
    BY <1>1, <1>3, <1>10 DEF Send
  <2>4. accepted'[j.mail] >= accepted[j.mail]
    BY <1>1, <2>1
  <2>5. QED
    BY <1>10, <2>1, <2>2, <2>3, <2>4, QuietMove DEF Send
<1>11. CASE MarkSent(j)
  <2>1. CASE row' = Counted(j.mail, "sent") /\ Goes(j, "announce")
    <3>1. events[j.mail]["sent"] = 0
      BY <1>1, <1>2, <1>11 DEF MarkSent, Place, Inv, OneOutcome, Settled, Kinds
    <3>2. ASSUME NEW k, k.mail = j.mail, k.tries = j.tries, k.pc = "announce",
                 row'[j.mail].status = "sent",
                 row'[j.mail].attempts = row[j.mail].attempts + 1
          PROVE  Place(k)'
      BY <1>1, <1>2, <1>11, <3>1, <3>2 DEF MarkSent, Place, Sent
    <3>3. QED
      BY <1>2, <1>5, <1>11, <2>1, <3>2 DEF MarkSent, Place, Settled
  <2>2. CASE row' = row /\ Goes(j, "note")
    <3>1. ASSUME NEW k, k.mail = j.mail, k.tries = j.tries, k.pc = "note"
          PROVE  Place(k)
      BY <1>1, <1>2, <1>11, <3>1 DEF MarkSent, Place, Sent
    <3>2. QED
      BY <1>4, <1>11, <2>2, <3>1 DEF MarkSent
  <2>3. QED
    BY <1>11, <2>1, <2>2 DEF MarkSent
<1>12. CASE EmitSent(j)
  <2>1. CASE events' = Emitted(j.mail, "sent") /\ Goes(j, "done")
    BY <1>2, <1>6, <1>12, <2>1 DEF EmitSent, Place, Settled
  <2>2. CASE events' = events /\ Goes(j, "note")
    <3>1. ASSUME NEW k, k.mail = j.mail, k.tries = j.tries, k.pc = "note"
          PROVE  Place(k)
      BY <1>1, <1>2, <1>12, <3>1 DEF EmitSent, Place, Sent
    <3>2. QED
      BY <1>4, <1>12, <2>2, <3>1 DEF EmitSent
  <2>3. QED
    BY <1>12, <2>1, <2>2 DEF EmitSent
<1>13. CASE MarkFailedTransient(j)
  <2>1. CASE row' = Counted(j.mail, row[j.mail].status)
    <3>1. ASSUME NEW k, k.mail = j.mail, k.tries = j.tries, k.pc = "ready",
                 row'[j.mail].status = row[j.mail].status,
                 row'[j.mail].attempts = row[j.mail].attempts + 1
          PROVE  Place(k)'
      BY <1>1, <1>2, <1>13, <3>1 DEF MarkFailedTransient, Place, Sent
    <3>2. QED
      BY <1>5, <1>13, <2>1, <3>1 DEF MarkFailedTransient, Throws
  <2>2. CASE row' = row
    <3>1. ASSUME NEW k, k.mail = j.mail, k.tries = j.tries, k.pc = "ready"
          PROVE  Place(k)
      BY <1>1, <1>2, <1>13, <3>1 DEF MarkFailedTransient, Place, Sent
    <3>2. QED
      BY <1>4, <1>13, <2>2, <3>1 DEF MarkFailedTransient, Throws
  <2>3. QED
    BY <1>13, <2>1, <2>2 DEF MarkFailedTransient
<1>14. CASE MarkPermanentlyFailed(j)
  <2>1. CASE row' = Counted(j.mail, "permanently_failed") /\ Goes(j, "announceFail")
    <3>1. events[j.mail]["permanently_failed"] = 0
      BY <1>1, <1>2, <1>14 DEF MarkPermanentlyFailed, Place, Inv, OneOutcome, Settled, Kinds
    <3>2. ASSUME NEW k, k.mail = j.mail, k.tries = j.tries, k.pc = "announceFail",
                 row'[j.mail].status = "permanently_failed",
                 row'[j.mail].attempts = row[j.mail].attempts + 1
          PROVE  Place(k)'
      BY <1>1, <1>2, <1>14, <3>1, <3>2 DEF MarkPermanentlyFailed, Place, Sent
    <3>3. QED
      BY <1>2, <1>5, <1>14, <2>1, <3>2 DEF MarkPermanentlyFailed, Place, Settled
  <2>2. CASE row' = row /\ Throws(j)
    <3>1. ASSUME NEW k, k.mail = j.mail, k.tries = j.tries, k.pc = "ready"
          PROVE  Place(k)
      BY <1>1, <1>2, <1>14, <3>1 DEF MarkPermanentlyFailed, Place, Sent
    <3>2. QED
      BY <1>4, <1>14, <2>2, <3>1 DEF MarkPermanentlyFailed, Throws
  <2>3. QED
    BY <1>14, <2>1, <2>2 DEF MarkPermanentlyFailed
<1>15. CASE EmitPermanentlyFailed(j)
  <2>1. CASE events' = Emitted(j.mail, "permanently_failed") /\ Goes(j, "done")
    BY <1>2, <1>6, <1>15, <2>1 DEF EmitPermanentlyFailed, Place, Settled
  <2>2. CASE events' = events /\ Throws(j)
    <3>1. ASSUME NEW k, k.mail = j.mail, k.tries = j.tries, k.pc = "ready"
          PROVE  Place(k)
      BY <1>1, <1>2, <1>15, <3>1 DEF EmitPermanentlyFailed, Place, Sent
    <3>2. QED
      BY <1>4, <1>15, <2>2, <3>1 DEF EmitPermanentlyFailed, Throws
  <2>3. QED
    BY <1>15, <2>1, <2>2 DEF EmitPermanentlyFailed
<1>16. CASE Complete(j)
  <2>1. OwnerInv' /\ PlaceInv'
    BY <1>16 DEF Complete, Inv, OwnerInv, PlaceInv, Place, Sent
  <2>2. OneOutcome'
    BY <1>16 DEF Complete, Inv, OneOutcome
  <2>3. row[j.mail].status # "pending"
    BY <1>2, <1>16 DEF Complete, Place, Settled
  <2>4. PendingHasJob'
    BY <1>16, <2>3 DEF Complete, Inv, PendingHasJob, Coming, Abandoned
  <2>5. QED
    BY <2>1, <2>2, <2>4 DEF Inv
<1>17. CASE LockExpires(j)
  <2>1. ASSUME NEW k, k.mail = j.mail, k.tries = j.tries, k.pc = "ready"
        PROVE  Place(k)
    BY <1>1, <1>2, <1>17, <2>1 DEF LockExpires, Place, Sent
  <2>2. QED
    BY <1>4, <1>17, <2>1 DEF LockExpires
<1>18. QED
  BY <1>7, <1>8, <1>9, <1>10, <1>11, <1>12, <1>13, <1>14, <1>15, <1>16, <1>17 DEF JobStep

LEMMA ServerCrashInv == ASSUME TypeOK, Inv, ServerCrash PROVE Inv'
<1>1. \A c \in Calls :
         /\ calls'[c].fresh = calls[c].fresh
         /\ calls'[c].pc = IF calls[c].pc \in {"upserted", "emitted"} THEN "failed" ELSE calls[c].pc
  <2>1. ASSUME NEW c \in Calls
        PROVE  /\ calls'[c].fresh = calls[c].fresh
               /\ calls'[c].pc = IF calls[c].pc \in {"upserted", "emitted"} THEN "failed"
                                 ELSE calls[c].pc
    <3>1. calls[c] \in Call
      BY DEF TypeOK
    <3>2. calls'[c] = IF calls[c].pc \in {"upserted", "emitted"}
                      THEN [calls[c] EXCEPT !.pc = "failed"] ELSE calls[c]
      BY DEF ServerCrash
    <3>3. QED
      BY <3>1, <3>2 DEF Call
  <2>2. QED
    BY <2>1
<1>2. UNCHANGED <<row, jobs, events, accepted>>
  BY DEF ServerCrash
<1>3. OwnerInv'
  BY <1>1, <1>2 DEF Inv, OwnerInv
<1>4. PlaceInv' /\ OneOutcome'
  BY <1>2 DEF Inv, PlaceInv, Place, Sent, OneOutcome
<1>5. PendingHasJob'
  BY <1>1, <1>2 DEF Inv, PendingHasJob, Coming, Abandoned
<1>6. QED
  BY <1>3, <1>4, <1>5 DEF Inv

LEMMA WorkerCrashInv == ASSUME TypeOK, Inv, WorkerCrash PROVE Inv'
<1>1. \A k \in jobs' : \E j \in jobs :
         k.mail = j.mail /\ k.tries = j.tries /\ (k = j \/ k.pc = "stale")
  <2>1. ASSUME NEW j \in jobs
        PROVE  LET k == [j EXCEPT !.pc = "stale"]
               IN  k.mail = j.mail /\ k.tries = j.tries /\ k.pc = "stale"
    BY JobsTyped DEF Job
  <2>2. QED
    BY <2>1 DEF WorkerCrash
<1>2. \A j \in jobs : \E k \in jobs' : k.mail = j.mail
  <2>1. ASSUME NEW j \in jobs
        PROVE  \E k \in jobs' : k.mail = j.mail
    <3>1. [j EXCEPT !.pc = "stale"].mail = j.mail
      BY JobsTyped DEF Job
    <3>2. (IF j.pc \in Running THEN [j EXCEPT !.pc = "stale"] ELSE j) \in jobs'
      BY DEF WorkerCrash
    <3>3. QED
      BY <3>1, <3>2
  <2>2. QED
    BY <2>1
<1>3. \A k, l \in jobs' : k.mail = l.mail => k = l
  <2> DEFINE crashed(j) == IF j.pc \in Running THEN [j EXCEPT !.pc = "stale"] ELSE j
  <2>1. jobs' = {crashed(j) : j \in jobs}
    BY DEF WorkerCrash
  <2>2. \A j \in jobs : crashed(j).mail = j.mail
    BY JobsTyped DEF Job
  <2> HIDE DEF crashed
  <2>3. QED
    BY <2>1, <2>2 DEF Inv, OwnerInv
<1>4. UNCHANGED <<row, calls, events, accepted>>
  BY DEF WorkerCrash
<1>5. OwnerInv'
  BY <1>1, <1>3, <1>4 DEF Inv, OwnerInv
<1>6. PlaceInv'
  <2>1. ASSUME NEW k \in jobs'
        PROVE  Place(k)'
    <3>1. PICK j \in jobs : k.mail = j.mail /\ k.tries = j.tries /\ (k = j \/ k.pc = "stale")
      BY <1>1
    <3>2. Place(j) /\ row[j.mail].attempts \in Nat /\ j.tries \in Nat
      BY MailTyped DEF Inv, PlaceInv
    <3>3. QED
      BY <1>4, <3>1, <3>2 DEF Place, Sent
  <2>2. QED
    BY <2>1 DEF PlaceInv
<1>7. OneOutcome'
  BY <1>4 DEF Inv, OneOutcome
<1>8. PendingHasJob'
  BY <1>2, <1>4 DEF Inv, PendingHasJob, Coming, Abandoned
<1>9. QED
  BY <1>5, <1>6, <1>7, <1>8 DEF Inv

THEOREM NextInv == TypeOK /\ Inv /\ [Next]_vars => Inv'
<1>1. ASSUME UNCHANGED vars, Inv
      PROVE  Inv'
  BY <1>1 DEF vars, Inv, OwnerInv, PlaceInv, Place, Sent, OneOutcome, PendingHasJob, Coming, Abandoned
<1>2. QED
  BY <1>1, CallInv, JobInv, ServerCrashInv, WorkerCrashInv DEF Next

THEOREM Invariant == Spec => [](TypeOK /\ Inv)
  BY InitTyped, NextTyped, InitInv, NextInv, PTL DEF Spec

\* A pending mail has a job, unless the one call that inserted it failed half way.
THEOREM PendingMailHasJob == Spec => []PendingHasJob
<1>1. Inv => PendingHasJob
  BY DEF Inv
<1>2. QED
  BY <1>1, Invariant, PTL

\* The outcome of a mail is announced at most once, and is the recorded one.
THEOREM OutcomeOnce == Spec => []OneOutcome
<1>1. Inv => OneOutcome
  BY DEF Inv
<1>2. QED
  BY <1>1, Invariant, PTL

\* A row's attempts follow the tries of its job.
THEOREM AttemptsCounted == Spec => []AttemptsFollowTries
<1>1. Inv => AttemptsFollowTries
  BY DEF Inv, PlaceInv, Place, Sent, AttemptsFollowTries
<1>2. QED
  BY <1>1, Invariant, PTL

-----------------------------------------------------------------------------
(* The outbox implements MailDelivery.                                     *)

LEMMA SameFate ==
    ASSUME \A m \in Mails : row'[m].status = row[m].status
    PROVE  Fate' = Fate
  BY DEF Fate

\* A row that settles is the abstract settlement of its mail.
LEMMA CountedFate ==
    ASSUME TypeOK, NEW m \in Mails, NEW status, row' = Counted(m, status)
    PROVE  Fate' = [Fate EXCEPT ![m] = status]
<1>1. row'[m].status = status /\ \A n \in Mails \ {m} : row'[n] = row[n]
  BY CountedRow
<1>2. QED
  BY <1>1 DEF Fate

LEMMA JobRefines ==
    ASSUME TypeOK, Inv, NEW j \in jobs, JobStep(j)
    PROVE  Delivery!Next \/ UNCHANGED <<Fate, accepted>>
<1>1. j.mail \in Mails /\ accepted[j.mail] \in Nat
  BY MailTyped
<1>2. Place(j)
  BY DEF Inv, PlaceInv
<1>3. Fate[j.mail] = row[j.mail].status
  BY <1>1 DEF Fate
<1>4. CASE UNCHANGED <<row, accepted>>
  BY <1>4 DEF Fate
<1>5. CASE Send(j)
  <2>1. row' = row /\ Fate[j.mail] = "pending"
    BY <1>2, <1>3, <1>5 DEF Send, Place
  <2>2. accepted' = accepted \/ accepted' = [accepted EXCEPT ![j.mail] = accepted[j.mail] + 1]
    BY <1>5 DEF Send
  <2>3. Fate' = Fate
    BY <2>1 DEF Fate
  <2>4. QED
    BY <1>1, <2>1, <2>2, <2>3 DEF Delivery!Next, Delivery!Accept
<1>6. CASE row' = Counted(j.mail, "sent") /\ MarkSent(j)
  <2>1. Fate' = [Fate EXCEPT ![j.mail] = "sent"]
    BY <1>1, <1>6, CountedFate
  <2>2. Fate[j.mail] = "pending" /\ accepted[j.mail] > 0 /\ accepted' = accepted
    BY <1>2, <1>3, <1>6 DEF MarkSent, Place
  <2>3. QED
    BY <1>1, <2>1, <2>2 DEF Delivery!Next, Delivery!SettleSent
<1>7. CASE row' = Counted(j.mail, "permanently_failed") /\ MarkPermanentlyFailed(j)
  <2>1. Fate' = [Fate EXCEPT ![j.mail] = "permanently_failed"]
    BY <1>1, <1>7, CountedFate
  <2>2. Fate[j.mail] = "pending" /\ accepted' = accepted
    BY <1>2, <1>3, <1>7 DEF MarkPermanentlyFailed, Place
  <2>3. QED
    BY <1>1, <2>1, <2>2 DEF Delivery!Next, Delivery!SettleFailed
<1>8. CASE row' = Counted(j.mail, row[j.mail].status) /\ MarkFailedTransient(j)
  <2>1. \A m \in Mails : row'[m].status = row[m].status
    BY <1>1, <1>8, CountedRow
  <2>2. QED
    BY <1>8, <2>1, SameFate DEF MarkFailedTransient
<1>9. QED
  BY <1>4, <1>5, <1>6, <1>7, <1>8
     DEF JobStep, Fetch, FindById, Prepare, MarkSent, EmitSent, MarkFailedTransient,
         MarkPermanentlyFailed, EmitPermanentlyFailed, Complete, LockExpires

LEMMA CallRefines ==
    ASSUME TypeOK, NEW c \in Calls, CallStep(c) \/ CallFails(c)
    PROVE  Delivery!Next \/ UNCHANGED <<Fate, accepted>>
<1> USE KeyIsFunction
<1>1. CASE Upsert(c)
  <2>1. Key[c] \in Mails /\ row[Key[c]] \in Row
    BY DEF TypeOK
  <2>2. row' = [row EXCEPT ![Key[c]] = [row[Key[c]] EXCEPT !.status =
                  IF row[Key[c]].status = "absent" THEN "pending" ELSE row[Key[c]].status]]
    BY <1>1 DEF Upsert, TypeOK
  <2>3. Fate' = [Fate EXCEPT ![Key[c]] =
                  IF row[Key[c]].status = "absent" THEN "pending" ELSE row[Key[c]].status]
    BY <2>1, <2>2 DEF Fate, TypeOK, Row
  <2>4. Fate[Key[c]] = row[Key[c]].status /\ accepted' = accepted
    BY <1>1, <2>1 DEF Fate, Upsert
  <2>5. CASE row[Key[c]].status = "absent"
    BY <2>1, <2>3, <2>4, <2>5 DEF Delivery!Next, Delivery!Request
  <2>6. CASE row[Key[c]].status # "absent"
    <3>1. Fate' = Fate
      BY <2>1, <2>3, <2>4, <2>6 DEF Fate
    <3>2. QED
      BY <2>4, <3>1
  <2>7. QED
    BY <2>5, <2>6
<1>2. CASE UNCHANGED <<row, accepted>>
  BY <1>2 DEF Fate
<1>3. QED
  BY <1>1, <1>2 DEF CallStep, EmitQueued, AddJob, CallFails

\* Whatever calls, tries, faults and restarts: the transport gets a mail only while it
\* is pending, a sent mail was accepted, and a settled mail is left alone.
THEOREM OutboxDelivers == Spec => Delivers
<1>1. Init => Delivery!Init
  BY DEF Init, Delivery!Init, Fate
<1>2. TypeOK /\ Inv /\ [Next]_vars => [Delivery!Next]_<<Fate, accepted>>
  <2>1. ServerCrash \/ WorkerCrash \/ UNCHANGED vars => UNCHANGED <<Fate, accepted>>
    BY DEF ServerCrash, WorkerCrash, vars, Fate
  <2>2. QED
    BY <2>1, JobRefines, CallRefines DEF Next
<1>3. QED
  BY <1>1, <1>2, Invariant, PTL DEF Spec, Delivers, Delivery!Spec

-----------------------------------------------------------------------------
(* Every delivery but one is paid for by a fault or a restart.             *)

Trouble == spent["fault"] + spent["crash"]

\* The one that is not: the mail is sent, or its task is about to record it.
Recorded(m) == row[m].status = "sent" \/ \E j \in jobs : j.mail = m /\ j.pc = "mark"
AcceptInv ==
    \A m \in Mails : accepted[m] <= Trouble + (IF Recorded(m) THEN 1 ELSE 0)

LEMMA TroubleGrows ==
    ASSUME TypeOK
    PROVE  /\ Trouble \in Nat
           /\ Fine => Trouble' = Trouble
           /\ Fault => Trouble' = Trouble + 1
           /\ \A bound : Spend("crash", bound) => Trouble' = Trouble + 1
<1>1. spent \in [{"fault", "crash"} -> Nat]
  BY DEF TypeOK
<1>2. QED
  BY <1>1 DEF Fine, Fault, Spend, Trouble

\* A mail that is not accepted now, and either stays recorded or pays.
LEMMA AcceptKeeps ==
    ASSUME TypeOK, AcceptInv, UNCHANGED accepted, Trouble' \in Nat, Trouble' >= Trouble,
           \A m \in Mails : Recorded(m) => Recorded(m)' \/ Trouble' >= Trouble + 1
    PROVE  AcceptInv'
<1>1. Trouble \in Nat /\ \A m \in Mails : accepted[m] \in Nat
  BY TroubleGrows DEF TypeOK
<1>2. ASSUME NEW m \in Mails
      PROVE  accepted'[m] <= Trouble' + (IF Recorded(m)' THEN 1 ELSE 0)
  BY <1>1, <1>2 DEF AcceptInv
<1>3. QED
  BY <1>2 DEF AcceptInv

LEMMA JobAccepts == ASSUME TypeOK, Inv, AcceptInv, NEW j \in jobs, JobStep(j) PROVE AcceptInv'
<1>1. j.mail \in Mails /\ accepted[j.mail] \in Nat /\ Trouble \in Nat
  BY MailTyped, TroubleGrows
<1>2. Place(j) /\ \A i \in jobs : i.mail = j.mail => i = j
  BY DEF Inv, PlaceInv, OwnerInv
<1>3. Fine => Trouble' = Trouble
  BY TroubleGrows
<1>4. Fault => Trouble' = Trouble + 1
  BY TroubleGrows
\* The job was not about to record its mail, or has just recorded it.
<1>5. ASSUME NEW k, jobs' = (jobs \ {j}) \cup {k} \/ jobs' = jobs \ {j},
             \A m \in Mails : row[m].status = "sent" => row'[m].status = "sent",
             j.pc # "mark" \/ row'[j.mail].status = "sent", UNCHANGED accepted, Fine \/ Fault
      PROVE  AcceptInv'
  <2>1. \A m \in Mails : Recorded(m) => Recorded(m)'
    BY <1>5 DEF Recorded
  <2>2. QED
    BY <1>1, <1>3, <1>4, <1>5, <2>1, AcceptKeeps
<1>6. CASE Fetch(j)
  BY <1>5, <1>6 DEF Fetch, Fine
<1>7. CASE Complete(j)
  BY <1>5, <1>7 DEF Complete, Fine
<1>8. ASSUME j.pc # "mark", \E pc : Goes(j, pc), UNCHANGED <<row, accepted>>, Fine \/ Fault
      PROVE  AcceptInv'
  BY <1>5, <1>8 DEF Goes
<1>9. CASE FindById(j) \/ Prepare(j) \/ EmitSent(j) \/ EmitPermanentlyFailed(j) \/ LockExpires(j)
  BY <1>8, <1>9
     DEF FindById, Prepare, EmitSent, EmitPermanentlyFailed, LockExpires, Throws, Fine
<1>10. CASE MarkFailedTransient(j)
  <2>1. \A m \in Mails : row[m].status = "sent" => row'[m].status = "sent"
    BY <1>1, <1>10, CountedRow DEF MarkFailedTransient
  <2>2. QED
    BY <1>5, <1>10, <2>1 DEF MarkFailedTransient, Throws, Goes
<1>11. CASE MarkPermanentlyFailed(j)
  <2>1. row[j.mail].status # "sent"
    BY <1>2, <1>11 DEF MarkPermanentlyFailed, Place
  <2>2. \A m \in Mails : row[m].status = "sent" => row'[m].status = "sent"
    BY <1>1, <1>11, <2>1, CountedRow DEF MarkPermanentlyFailed
  <2>3. QED
    BY <1>5, <1>11, <2>2 DEF MarkPermanentlyFailed, Throws, Goes
<1>12. CASE MarkSent(j)
  <2>1. CASE row' = Counted(j.mail, "sent") /\ Goes(j, "announce") /\ Fine
    <3>1. row'[j.mail].status = "sent" /\ \A m \in Mails \ {j.mail} : row'[m] = row[m]
      BY <1>1, <2>1, CountedRow
    <3>2. QED
      BY <1>5, <1>12, <2>1, <3>1 DEF MarkSent, Goes
  <2>2. CASE row' = row /\ Goes(j, "note") /\ Fault
    <3>1. accepted' = accepted
      BY <1>12 DEF MarkSent
    <3>2. QED
      BY <1>1, <1>4, <2>2, <3>1, AcceptKeeps
  <2>3. QED
    BY <1>12, <2>1, <2>2 DEF MarkSent
<1>13. CASE Send(j)
  <2>1. CASE UNCHANGED accepted /\ Fine
    BY <1>8, <1>13, <2>1 DEF Send
  <2>2. CASE /\ accepted' = [accepted EXCEPT ![j.mail] = accepted[j.mail] + 1]
             /\ (Goes(j, "mark") /\ Fine) \/ (Goes(j, "note") /\ Fault)
    <3>1. row' = row /\ row[j.mail].status = "pending" /\ j.pc = "send"
      BY <1>2, <1>13 DEF Send, Place
    <3>2. ~ Recorded(j.mail)
      BY <1>2, <3>1 DEF Recorded
    <3>3. accepted[j.mail] <= Trouble
      BY <1>1, <3>2 DEF AcceptInv
    <3>4. /\ accepted'[j.mail] = accepted[j.mail] + 1
          /\ \A m \in Mails \ {j.mail} : accepted'[m] = accepted[m]
      BY <1>1, <2>2 DEF TypeOK
    <3>5. \E k : /\ jobs' = (jobs \ {j}) \cup {k}
                 /\ (k.mail = j.mail /\ k.pc = "mark" /\ Fine) \/ Fault
      BY <2>2, GoesMoves
    <3>6. accepted'[j.mail] <= Trouble' + (IF Recorded(j.mail)' THEN 1 ELSE 0)
      <4>1. CASE Fault
        BY <1>1, <1>4, <3>3, <3>4, <4>1
      <4>2. CASE ~ Fault
        <5>1. Recorded(j.mail)' /\ Trouble' = Trouble
          BY <1>3, <3>5, <4>2 DEF Recorded
        <5>2. QED
          BY <1>1, <3>3, <3>4, <5>1
      <4>3. QED
        BY <4>1, <4>2
    <3>7. ASSUME NEW m \in Mails \ {j.mail}
          PROVE  accepted'[m] <= Trouble' + (IF Recorded(m)' THEN 1 ELSE 0)
      <4>1. Recorded(m) => Recorded(m)'
        BY <3>1, <3>5 DEF Recorded
      <4>2. accepted[m] <= Trouble + (IF Recorded(m) THEN 1 ELSE 0) /\ accepted[m] \in Nat
        BY DEF AcceptInv, TypeOK
      <4>3. Trouble' = Trouble \/ Trouble' = Trouble + 1
        BY <1>3, <1>4, <2>2
      <4>4. QED
        BY <1>1, <3>4, <4>1, <4>2, <4>3
    <3>8. QED
      BY <3>6, <3>7 DEF AcceptInv
  <2>3. QED
    BY <1>13, <2>1, <2>2 DEF Send
<1>14. QED
  BY <1>6, <1>7, <1>9, <1>10, <1>11, <1>12, <1>13 DEF JobStep

LEMMA CallAccepts ==
    ASSUME TypeOK, Inv, AcceptInv, NEW c \in Calls, CallStep(c) \/ CallFails(c)
    PROVE  AcceptInv'
<1>1. UNCHANGED accepted /\ Trouble \in Nat /\ (Trouble' = Trouble \/ Trouble' = Trouble + 1)
  BY TroubleGrows DEF CallStep, Upsert, EmitQueued, AddJob, CallFails, Fine
<1>2. \A m \in Mails : row[m].status = "sent" => row'[m].status = "sent"
  <2>1. CASE Upsert(c)
    <3>1. Key[c] \in Mails /\ row[Key[c]] \in Row
      BY KeyIsFunction DEF TypeOK
    <3>2. row' = [row EXCEPT ![Key[c]] = [row[Key[c]] EXCEPT !.status =
                    IF row[Key[c]].status = "absent" THEN "pending" ELSE row[Key[c]].status]]
      BY <2>1, <3>1 DEF Upsert, TypeOK
    <3>3. QED
      BY <3>1, <3>2 DEF TypeOK, Row
  <2>2. CASE row' = row
    BY <2>2
  <2>3. QED
    BY <2>1, <2>2 DEF CallStep, EmitQueued, AddJob, CallFails
<1>3. jobs \subseteq jobs'
  BY DEF CallStep, Upsert, EmitQueued, AddJob, CallFails
<1>4. \A m \in Mails : Recorded(m) => Recorded(m)'
  BY <1>2, <1>3 DEF Recorded
<1>5. QED
  BY <1>1, <1>4, AcceptKeeps

THEOREM NextAccepts == TypeOK /\ Inv /\ AcceptInv /\ [Next]_vars => AcceptInv'
<1> SUFFICES ASSUME TypeOK, Inv, AcceptInv, [Next]_vars PROVE AcceptInv'
  OBVIOUS
<1>1. CASE ServerCrash \/ WorkerCrash
  <2>1. UNCHANGED accepted /\ Trouble' = Trouble + 1 /\ Trouble \in Nat
    BY <1>1, TroubleGrows DEF ServerCrash, WorkerCrash
  <2>2. QED
    BY <2>1, AcceptKeeps
<1>2. CASE UNCHANGED vars
  BY <1>2 DEF vars, AcceptInv, Trouble, Recorded
<1>3. QED
  BY <1>1, <1>2, JobAccepts, CallAccepts DEF Next

\* A mail is delivered more than once only if something failed or restarted.
THEOREM OnceUnlessFault == Spec => []TwiceOnlyByFault
<1>1. Init => AcceptInv
  <2>1. Init => Trouble = 0 /\ \A m \in Mails : accepted[m] = 0
    BY DEF Init, Trouble
  <2>2. ASSUME Init, NEW m \in Mails
        PROVE  accepted[m] <= Trouble + (IF Recorded(m) THEN 1 ELSE 0)
    <3>1. accepted[m] = 0 /\ Trouble = 0
      BY <2>1, <2>2
    <3>2. QED
      BY <3>1
  <2>3. QED
    BY <2>2 DEF AcceptInv
<1>2. TypeOK /\ AcceptInv => TwiceOnlyByFault
  <2>1. ASSUME TypeOK, AcceptInv, NEW m \in Mails
        PROVE  accepted[m] <= 1 + spent["fault"] + spent["crash"]
    <3>1. accepted[m] \in Nat /\ spent["fault"] \in Nat /\ spent["crash"] \in Nat
      BY <2>1 DEF TypeOK
    <3>2. QED
      BY <2>1, <3>1 DEF AcceptInv, Trouble
  <2>2. QED
    BY <2>1 DEF TwiceOnlyByFault
<1>3. QED
  BY <1>1, <1>2, NextAccepts, Invariant, InitTyped, NextTyped, InitInv, NextInv, PTL DEF Spec
=============================================================================
