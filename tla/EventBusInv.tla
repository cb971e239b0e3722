---------------------------- MODULE EventBusInv ----------------------------
(***************************************************************************)
(* The inductive invariant of EventBus: what holds of the log, of each     *)
(* subscription's committed rows, and of each open drain, such that every  *)
(* step preserves it and the safety properties follow.                     *)
(***************************************************************************)
EXTENDS EventBus

\* Only emitted events are committed, and an event a producer emitted has no cause.
LogInv ==
  /\ table \subseteq drawn
  /\ \A p \in Txns : \A e \in tx[p].ids : e \in drawn /\ row[e].cause = None

\* FOR UPDATE SKIP LOCKED: one open drain per subscription.
LockExclusive ==
  \A l, m \in Loops : Draining(l) /\ Draining(m) /\ SubOf[l] = SubOf[m] => l = m

\* The committed rows of subscription s.  The cursor separates what is settled from what
\* is not; the failure row is about an event ahead of the cursor and counts no attempt
\* that was not made.
SubInv(s) ==
  /\ \A e \in SettledBy(s) : e \in table /\ ~Before(cursor[s], KeyOf(e))
  /\ \A e \in EventIds : applied[s][e] <= 1 /\ (applied[s][e] = 1 => e \notin dead[s])
  /\ \A e \in Relevant(s) :
       ~Before(cursor[s], KeyOf(e)) => e \in SettledBy(s) \cup overtaken[s]
  /\ \A e \in dead[s] : failures[s][e] >= MaxAttempts
  /\ failure[s] # None =>
       /\ failure[s].of \in Relevant(s)
       /\ Before(cursor[s], KeyOf(failure[s].of))
       /\ failures[s][failure[s].of] >= failure[s].attempts

\* What is done in drain d of s lies between the cursor and d.pos, what is left lies
\* beyond d.pos, and whatever else lies in between was overtaken.
DrainPlaces(s, d) ==
  /\ ~Before(d.pos, cursor[s])
  /\ \A e \in d.ok \cup d.lost :
       e \in table /\ Before(cursor[s], KeyOf(e)) /\ ~Before(d.pos, KeyOf(e))
  /\ d.pos = cursor[s] \/ \E e \in d.ok \cup d.lost : d.pos = KeyOf(e)
  /\ \A e \in d.todo : e \in Relevant(s) /\ Before(d.pos, KeyOf(e))
  /\ d.ok \cap d.lost = {}

DrainSkipsNone(s, d) ==
  \A e \in Relevant(s) \ overtaken[s] :
    /\ Before(cursor[s], KeyOf(e)) /\ ~Before(d.pos, KeyOf(e)) => e \in d.ok \cup d.lost
    /\ Before(d.pos, KeyOf(e)) /\ (\E f \in d.todo : Before(KeyOf(e), KeyOf(f)))
         => e \in d.todo

\* Attempts counted in the open transaction are failed runs, committed or in d.failed.
DrainCounts(s, d) ==
  /\ d.failed \cap d.todo = {}
  /\ \A e \in d.lost : e \in d.failed /\ failures[s][e] + 1 >= MaxAttempts
  /\ d.fail # None =>
       /\ d.fail.of \in Relevant(s)
       /\ Before(d.pos, KeyOf(d.fail.of))
       /\ IF d.fail.of \in d.failed
          THEN failures[s][d.fail.of] + 1 >= d.fail.attempts
          ELSE failures[s][d.fail.of] >= d.fail.attempts

DrainEmits(s, d) ==
  \A n \in d.out : n \in drawn /\ row[n].cause = s /\ row[n].of \in d.ok

DrainInv(l) ==
  Draining(l) =>
    /\ DrainPlaces(SubOf[l], drain[l])
    /\ DrainSkipsNone(SubOf[l], drain[l])
    /\ DrainCounts(SubOf[l], drain[l])
    /\ DrainEmits(SubOf[l], drain[l])

\* The conjunction that every step preserves.
BusInv ==
  /\ TypeOK
  /\ LogInv
  /\ LockExclusive
  /\ \A s \in Subs : SubInv(s)
  /\ \A l \in Loops : DrainInv(l)
  /\ NoPhantomCascade
=============================================================================
