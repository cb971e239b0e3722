--------------------------- MODULE EventBusProofs ---------------------------
(***************************************************************************)
(* Theorems about EventBus: its types, that BusInv is inductive, and with  *)
(* it the safety properties, for any number of events, transactions,       *)
(* subscriptions and replicas.                                             *)
(***************************************************************************)
EXTENDS EventBus, EventBusInv, FiniteSetTheorems, TLAPS

-----------------------------------------------------------------------------
(* Types *)

LEMMA DrainTyped ==
  ASSUME TypeOK, NEW l \in Loops
  PROVE  /\ SubOf[l] \in Subs
         /\ drain[l] \in Drain
         /\ IdleDrain \in Drain
  BY SubsAssumption DEF TypeOK, Drain, IdleDrain, NilKey, Key

\* What one event of a batch does to the open transaction of a drain.
LEMMA StepsTyped ==
  ASSUME TypeOK, NEW d \in Drain, NEW e \in EventIds, NEW N \in SUBSET EventIds
  PROVE  /\ Handled(d, e, N) \in Drain
         /\ Halted(d, e) \in Drain
         /\ Buried(d, e) \in Drain
<1>1. KeyOf(e) \in Key
  BY IdsAssumption DEF TypeOK, KeyOf, Key, Row
<1>2. Bumped(d.fail, e) \in Nat
  BY DEF Bumped, Drain, Failure
<1> QED BY <1>1, <1>2 DEF Handled, Halted, Buried, Drain, Failure

LEMMA InitTyped == Init => TypeOK
  BY DEF Init, TypeOK, Row, TxnState, Key, NilKey, Drain, IdleDrain

LEMMA NextTyped ==
  ASSUME TypeOK, [Next]_vars
  PROVE  TypeOK'
<1> USE SubsAssumption, BoundsAssumption, NoneAssumption DEF TypeOK
<1>1. ASSUME NEW p \in Txns, Begin(p) PROVE TypeOK'
  BY <1>1 DEF Begin, TxnState, subVars
<1>2. ASSUME NEW p \in Txns, NEW e \in Fresh, NEW t \in Types, Emit(p, e, t) PROVE TypeOK'
  <2>1. tx[p] \in TxnState /\ e \in EventIds
    BY DEF Fresh
  <2>2. [tx[p] EXCEPT !.ids = @ \cup {e}] \in TxnState
    BY <2>1 DEF TxnState
  <2>3. row' \in [EventIds -> Row]
    BY <1>2, <2>1 DEF Emit, Draw, Row, TxnState
  <2> QED BY <1>2, <2>1, <2>2, <2>3 DEF Emit, Draw, subVars
<1>3. ASSUME NEW p \in Txns, Commit(p) PROVE TypeOK'
  BY <1>3 DEF Commit, Publish, TxnState, subVars
<1>4. ASSUME NEW p \in Txns, Rollback(p) PROVE TypeOK'
  BY <1>4 DEF Rollback, TxnState, subVars
<1>5. ASSUME NEW l \in Loops, Check(l) PROVE TypeOK'
  <2>0. drain[l] \in Drain /\ Now(l) \in Nat
    BY DEF Now
  <2>1. [drain[l] EXCEPT !.stage = "checked", !.began = Now(l)] \in Drain
    BY <2>0 DEF Drain
  <2>2. drain' = [drain EXCEPT ![l] =
                    [drain[l] EXCEPT !.stage = "checked", !.began = Now(l)]]
    BY <1>5 DEF Check
  <2> QED BY <1>5, <2>1, <2>2 DEF Check, subVars, producerVars
<1>6. ASSUME NEW l \in Loops, Miss(l) PROVE TypeOK'
  <2>0. drain[l] \in Drain
    OBVIOUS
  <2>1. [drain[l] EXCEPT !.stage = "missed"] \in Drain
    BY <2>0 DEF Drain
  <2>2. drain' = [drain EXCEPT ![l] = [drain[l] EXCEPT !.stage = "missed"]]
    BY <1>6 DEF Miss
  <2> QED BY <1>6, <2>1, <2>2 DEF Miss, subVars, producerVars
<1>7. ASSUME NEW l \in Loops, Seed(l) PROVE TypeOK'
  BY <1>7, DrainTyped DEF Seed, producerVars
<1>8. ASSUME NEW l \in Loops, Open(l) PROVE TypeOK'
  <2> DEFINE s == SubOf[l]
  <2>1. s \in Subs /\ drain[l] \in Drain
    BY DrainTyped
  <2>2. PICK b \in BeginInstants(l) :
          /\ clock' = IF b > clock THEN b ELSE clock
          /\ drain' = [drain EXCEPT ![l] =
               [IdleDrain EXCEPT !.stage = "draining", !.began = b, !.pos = cursor[s],
                                 !.todo = Batch(s), !.fail = failure[s]]]
    BY <1>8 DEF Open
  <2>3. b \in Nat
    BY <2>1 DEF BeginInstants, Drain
  <2>4. Batch(s) \subseteq EventIds
    BY DEF Batch, Eligible
  <2>5. [IdleDrain EXCEPT !.stage = "draining", !.began = b, !.pos = cursor[s],
                          !.todo = Batch(s), !.fail = failure[s]] \in Drain
    BY <2>1, <2>3, <2>4 DEF Drain, IdleDrain
  <2> QED BY <1>8, <2>2, <2>3, <2>5 DEF Open, subVars
<1>9. ASSUME NEW l \in Loops, NothingToDo(l) PROVE TypeOK'
  BY <1>9, DrainTyped DEF NothingToDo, subVars, producerVars
<1>10. ASSUME NEW l \in Loops, NEW e \in drain[l].todo, Handle(l, e) PROVE TypeOK'
  <2>1. drain[l] \in Drain /\ SubOf[l] \in Subs /\ e \in EventIds
    BY DrainTyped DEF Drain
  <2>2. CASE /\ drain' = [drain EXCEPT ![l] = Handled(drain[l], e, {})]
             /\ UNCHANGED <<row, drawn>>
    BY <1>10, <2>1, <2>2, StepsTyped DEF Handle, subVars
  <2>3. ASSUME NEW n \in Fresh, NEW t \in Cascades[SubOf[l]],
               Draw(n, drain[l].began, t, SubOf[l], e),
               drain' = [drain EXCEPT ![l] = Handled(drain[l], e, {n})]
        PROVE  TypeOK'
    <3>1. t \in Types /\ n \in EventIds
      BY <2>1 DEF Fresh
    <3>2. Handled(drain[l], e, {n}) \in Drain
      BY <2>1, <3>1, StepsTyped
    <3>3. row' \in [EventIds -> Row]
      BY <2>1, <2>3, <3>1 DEF Draw, Drain, Row
    <3> QED BY <1>10, <2>3, <3>1, <3>2, <3>3 DEF Handle, Draw, subVars
  <2> QED BY <1>10, <2>2, <2>3 DEF Handle
<1>11. ASSUME NEW l \in Loops, NEW e \in drain[l].todo, FailAndHalt(l, e) PROVE TypeOK'
  <2>1. drain[l] \in Drain /\ e \in EventIds
    BY DrainTyped DEF Drain
  <2> QED BY <1>11, <2>1, StepsTyped DEF FailAndHalt, subVars, producerVars
<1>12. ASSUME NEW l \in Loops, NEW e \in drain[l].todo, FailForGood(l, e) PROVE TypeOK'
  <2>1. drain[l] \in Drain /\ e \in EventIds
    BY DrainTyped DEF Drain
  <2> QED BY <1>12, <2>1, StepsTyped DEF FailForGood, subVars, producerVars
<1>13. ASSUME NEW l \in Loops, Settle(l) PROVE TypeOK'
  <2>1. drain[l] \in Drain /\ SubOf[l] \in Subs /\ IdleDrain \in Drain
    BY DrainTyped
  <2> QED BY <1>13, <2>1 DEF Settle, Publish, Drain, producerVars
<1>14. ASSUME NEW s \in Subs, BackoffElapses(s) PROVE TypeOK'
  <2>1. failure[s] \in Failure
    BY <1>14 DEF BackoffElapses
  <2>2. [failure[s] EXCEPT !.waiting = FALSE] \in Failure
    BY <2>1 DEF Failure
  <2> QED BY <1>14, <2>2 DEF BackoffElapses, producerVars
<1>15. ASSUME NEW l \in Loops, Abort(l) PROVE TypeOK'
  BY <1>15, DrainTyped DEF Abort, subVars, producerVars
<1>16. ASSUME NEW l \in Loops, Shutdown(l) PROVE TypeOK'
  BY <1>16 DEF Shutdown, subVars, producerVars
<1>17. ASSUME NEW l \in Loops, Start(l) PROVE TypeOK'
  BY <1>17 DEF Start, subVars, producerVars
<1>18. CASE UNCHANGED vars
  BY <1>18 DEF vars
<1> QED
  BY <1>1, <1>2, <1>3, <1>4, <1>5, <1>6, <1>7, <1>8, <1>9, <1>10, <1>11, <1>12, <1>13,
     <1>14, <1>15, <1>16, <1>17, <1>18 DEF Next, Produce, DrainStep

\* Every state of the bus has the types its variables are declared with.
THEOREM TypeCorrect == Spec => []TypeOK
  BY InitTyped, NextTyped, PTL DEF Spec

-----------------------------------------------------------------------------
(* Keys *)

LEMMA BeforeOrder ==
  ASSUME NEW k \in Key, NEW m \in Key, NEW n \in Key
  PROVE  /\ ~Before(k, k)
         /\ Before(k, m) => ~Before(m, k)
         /\ Before(k, m) /\ Before(m, n) => Before(k, n)
         /\ Before(k, m) \/ Before(m, k) \/ k = m
  BY DEF Before, Key

LEMMA KeyTyped ==
  ASSUME TypeOK, NEW e \in EventIds
  PROVE  KeyOf(e) \in Key
  BY IdsAssumption DEF TypeOK, KeyOf, Key, Row

LEMMA KeyInjective ==
  ASSUME NEW e, NEW f, KeyOf(e) = KeyOf(f)
  PROVE  e = f
  BY DEF KeyOf

-----------------------------------------------------------------------------
(* How the log changes under the feet of subscriptions and drains. *)

\* Emitted events keep their columns, committed ones stay, and a newly committed event
\* that a subscription has read past is marked.
Evolve ==
  /\ drawn \subseteq drawn'
  /\ table \subseteq table'
  /\ \A e \in drawn : row'[e] = row[e]
  /\ \A s \in Subs : overtaken[s] \subseteq overtaken'[s]
  /\ \A s \in Subs : \A e \in table' \ table :
       row'[e].type = TypeOf[s] /\ ReadPast(s, e)' => e \in overtaken'[s]

LEMMA KeyStable ==
  ASSUME Evolve, LogInv
  PROVE  /\ \A e \in drawn : KeyOf(e)' = KeyOf(e)
         /\ \A e \in table : e \in table' /\ row'[e] = row[e] /\ KeyOf(e)' = KeyOf(e)
         /\ \A s \in Subs : Relevant(s) \subseteq Relevant(s)'
         /\ \A s \in Subs : \A e \in Relevant(s)' : e \in table => e \in Relevant(s)
  BY DEF Evolve, LogInv, KeyOf, Relevant

\* A drain that a step does not touch keeps its part of the invariant.
LEMMA DrainKept ==
  ASSUME TypeOK, TypeOK', LogInv, Evolve, NEW m \in Loops, DrainInv(m),
         drain'[m] = drain[m], cursor'[SubOf[m]] = cursor[SubOf[m]],
         failures'[SubOf[m]] = failures[SubOf[m]]
  PROVE  DrainInv(m)'
<1> DEFINE s == SubOf[m]
           d == drain[m]
<1> SUFFICES ASSUME Draining(m)
             PROVE  /\ DrainPlaces(s, d)'
                    /\ DrainSkipsNone(s, d)'
                    /\ DrainCounts(s, d)'
                    /\ DrainEmits(s, d)'
  BY DEF DrainInv, Draining
<1>1. s \in Subs /\ d \in Drain /\ d' = d
  BY SubsAssumption DEF TypeOK
<1>2. /\ DrainPlaces(s, d)
      /\ DrainSkipsNone(s, d)
      /\ DrainCounts(s, d)
      /\ DrainEmits(s, d)
  BY DEF DrainInv
<1>3. cursor[s] \in Key /\ d.pos \in Key
  BY <1>1 DEF TypeOK, Drain
<1>4. /\ \A e \in d.ok \cup d.lost \cup d.todo : e \in table
      /\ \A e \in d.ok \cup d.lost \cup d.todo : KeyOf(e)' = KeyOf(e)
      /\ \A e \in d.todo : e \in Relevant(s)'
  BY <1>1, <1>2, KeyStable DEF DrainPlaces, Relevant
<1>5. DrainPlaces(s, d)'
  BY <1>1, <1>2, <1>4, KeyStable DEF DrainPlaces
<1>6. DrainSkipsNone(s, d)'
  <2> SUFFICES ASSUME NEW e \in Relevant(s)' \ overtaken'[s]
               PROVE  /\ Before(cursor[s], KeyOf(e)') /\ ~Before(d.pos, KeyOf(e)')
                           => e \in d.ok \cup d.lost
                      /\ \A f \in d.todo :
                           Before(d.pos, KeyOf(e)') /\ Before(KeyOf(e)', KeyOf(f))
                             => e \in d.todo
    BY <1>1, <1>4 DEF DrainSkipsNone
  <2>1. CASE e \in table
    <3>1. e \in Relevant(s) \ overtaken[s] /\ KeyOf(e)' = KeyOf(e)
      BY <1>1, <2>1, KeyStable DEF Evolve
    <3> QED BY <1>2, <3>1 DEF DrainSkipsNone
  <2>2. CASE e \notin table
    <3>1. ~ReadPast(s, e)'
      BY <1>1, <2>2 DEF Evolve, Relevant
    <3>2. /\ Before(cursor[s], KeyOf(e)')
          /\ \A f \in d.todo \cup d.ok \cup d.lost : ~Before(KeyOf(e)', KeyOf(f))
      BY <1>1, <1>4, <3>1 DEF ReadPast, Draining
    <3>3. Before(d.pos, KeyOf(e)')
      <4>1. CASE d.pos = cursor[s]
        BY <3>2, <4>1
      <4>2. CASE d.pos # cursor[s]
        <5>1. PICK f \in d.ok \cup d.lost : d.pos = KeyOf(f)
          BY <1>2, <4>2 DEF DrainPlaces
        <5>2. f # e /\ KeyOf(f)' = KeyOf(f)
          BY <1>4, <2>2
        <5>3. KeyOf(e)' # KeyOf(f)
          BY <5>2 DEF KeyOf
        <5>4. KeyOf(e)' \in Key
          BY IdsAssumption DEF TypeOK, KeyOf, Key, Row, Relevant
        <5> QED BY <1>3, <3>2, <5>1, <5>3, <5>4, BeforeOrder
      <4> QED BY <4>1, <4>2
    <3> QED BY <3>2, <3>3
  <2> QED BY <2>1, <2>2
<1>7. DrainCounts(s, d)'
  BY <1>1, <1>2, KeyStable DEF DrainCounts, Relevant
<1>8. DrainEmits(s, d)'
  BY <1>1, <1>2 DEF DrainEmits, Evolve
<1> QED BY <1>5, <1>6, <1>7, <1>8

\* A subscription whose committed rows a step does not touch, but for nextRetryAt, keeps
\* its part of the invariant.
LEMMA SubKept ==
  ASSUME TypeOK, LogInv, Evolve, NEW s \in Subs, SubInv(s),
         cursor'[s] = cursor[s], applied'[s] = applied[s], dead'[s] = dead[s],
         failures'[s] = failures[s],
         failure'[s] # None =>
           /\ failure[s] # None
           /\ failure'[s].of = failure[s].of
           /\ failure'[s].attempts = failure[s].attempts
  PROVE  SubInv(s)'
<1>1. SettledBy(s)' = SettledBy(s)
  BY DEF SettledBy
<1>2. \A e \in SettledBy(s) : e \in table' /\ ~Before(cursor'[s], KeyOf(e)')
  BY KeyStable DEF SubInv
<1>3. \A e \in Relevant(s)' :
        ~Before(cursor'[s], KeyOf(e)') => e \in SettledBy(s) \cup overtaken'[s]
  <2> SUFFICES ASSUME NEW e \in Relevant(s)', ~Before(cursor[s], KeyOf(e)'),
                      e \notin SettledBy(s)
               PROVE  e \in overtaken'[s]
    OBVIOUS
  <2>1. CASE e \in table
    BY <2>1, KeyStable DEF SubInv, Evolve
  <2>2. CASE e \notin table
    BY <2>2 DEF Evolve, Relevant, ReadPast
  <2> QED BY <2>1, <2>2
<1>4. (failure[s] # None =>
         /\ failure[s].of \in Relevant(s)
         /\ Before(cursor[s], KeyOf(failure[s].of))
         /\ failures[s][failure[s].of] >= failure[s].attempts)'
  <2> SUFFICES ASSUME failure'[s] # None, NEW e, e = failure'[s].of
               PROVE  /\ e \in Relevant(s)'
                      /\ Before(cursor[s], KeyOf(e)')
                      /\ failures[s][e] >= failure[s].attempts
    OBVIOUS
  <2>1. e = failure[s].of /\ e \in Relevant(s) /\ Before(cursor[s], KeyOf(e))
        /\ failures[s][e] >= failure[s].attempts
    BY DEF SubInv
  <2>2. e \in table
    BY <2>1 DEF Relevant
  <2> QED BY <2>1, <2>2, KeyStable
<1> QED BY <1>1, <1>2, <1>3, <1>4 DEF SubInv

-----------------------------------------------------------------------------
(* Every step evolves the log. *)

LEMMA DrawEvolves ==
  ASSUME TypeOK, NEW e, NEW ts, NEW type, NEW cause, NEW of, Draw(e, ts, type, cause, of),
         table' = table, overtaken' = overtaken
  PROVE  Evolve
  BY DEF Draw, Evolve, Fresh, TypeOK

LEMMA PublishEvolves ==
  ASSUME TypeOK, NEW C, Publish(C), C \subseteq EventIds, row' = row, drawn' = drawn
  PROVE  Evolve
<1>1. \A s \in Subs : \A e \in table' \ table :
        row'[e].type = TypeOf[s] /\ ReadPast(s, e)' => e \in overtaken'[s]
  BY DEF Publish
<1> QED BY <1>1 DEF Publish, Evolve, TypeOK

LEMMA NextEvolves ==
  ASSUME TypeOK, [Next]_vars
  PROVE  Evolve
<1> USE DEF TypeOK
<1>1. CASE Produce
  <2>1. ASSUME NEW p \in Txns, NEW e \in Fresh, NEW t \in Types, Emit(p, e, t) PROVE Evolve
    BY <2>1, DrawEvolves DEF Emit
  <2>2. ASSUME NEW p \in Txns, Commit(p) PROVE Evolve
    <3>1. tx[p].ids \subseteq EventIds
      BY DEF TxnState
    <3> QED BY <2>2, <3>1, PublishEvolves DEF Commit
  <2>3. ASSUME NEW p \in Txns, Begin(p) \/ Rollback(p) PROVE Evolve
    BY <2>3 DEF Begin, Rollback, Evolve
  <2> QED BY <1>1, <2>1, <2>2, <2>3 DEF Produce
<1>2. ASSUME NEW l \in Loops, DrainStep(l) PROVE Evolve
  <2>1. CASE Check(l) \/ Miss(l) \/ Seed(l) \/ NothingToDo(l)
    BY <2>1 DEF Check, Miss, Seed, NothingToDo, Evolve, producerVars
  <2>2. CASE Open(l)
    BY <2>2 DEF Open, Evolve
  <2>3. ASSUME NEW e \in drain[l].todo, Handle(l, e) PROVE Evolve
    <3>1. CASE UNCHANGED <<row, drawn>>
      BY <2>3, <3>1 DEF Handle, Evolve
    <3>2. CASE \E n \in Fresh, t \in Cascades[SubOf[l]] : Draw(n, drain[l].began, t, SubOf[l], e)
      BY <2>3, <3>2, DrawEvolves DEF Handle
    <3> QED BY <2>3, <3>1, <3>2 DEF Handle
  <2>4. ASSUME NEW e \in drain[l].todo, FailAndHalt(l, e) \/ FailForGood(l, e) PROVE Evolve
    BY <2>4 DEF FailAndHalt, FailForGood, Evolve, producerVars
  <2>5. CASE Settle(l)
    <3>1. drain[l].out \subseteq EventIds
      BY DEF Drain
    <3> QED BY <2>5, <3>1, PublishEvolves DEF Settle, producerVars
  <2> QED BY <1>2, <2>1, <2>2, <2>3, <2>4, <2>5 DEF DrainStep
<1>3. ASSUME NEW l \in Loops, Abort(l) \/ Shutdown(l) \/ Start(l) PROVE Evolve
  BY <1>3 DEF Abort, Shutdown, Start, Evolve, producerVars
<1>4. ASSUME NEW s \in Subs, BackoffElapses(s) PROVE Evolve
  BY <1>4 DEF BackoffElapses, Evolve, producerVars
<1>5. CASE UNCHANGED vars
  BY <1>5 DEF vars, Evolve
<1> QED BY <1>1, <1>2, <1>3, <1>4, <1>5 DEF Next

-----------------------------------------------------------------------------
(* The invariant, one kind of step at a time. *)

\* The failure row of every subscription is kept, but for nextRetryAt, or deleted.
FailureKept ==
  \A s \in Subs : failure'[s] # None =>
    /\ failure[s] # None
    /\ failure'[s].of = failure[s].of
    /\ failure'[s].attempts = failure[s].attempts

\* Steps that commit nothing for a subscription.
LEMMA CommitsNothing ==
  ASSUME BusInv, TypeOK', Evolve, FailureKept, LogInv', LockExclusive', NoPhantomCascade',
         UNCHANGED <<cursor, applied, dead, failures>>,
         \A m \in Loops : drain'[m] = drain[m] \/ DrainInv(m)'
  PROVE  BusInv'
<1>1. \A s \in Subs : SubInv(s)'
  BY SubKept DEF BusInv, FailureKept
<1>2. ASSUME NEW m \in Loops PROVE DrainInv(m)'
  BY DrainKept DEF BusInv
<1> QED BY <1>1, <1>2 DEF BusInv

\* Steps of which the log and the drains see nothing, except that a drain may end.
LEMMA Quiet ==
  ASSUME BusInv, TypeOK', Evolve, FailureKept,
         UNCHANGED <<table, cursor, applied, dead, failures>>,
         \A p \in Txns : tx'[p].ids \subseteq tx[p].ids,
         \A m \in Loops : drain'[m] = drain[m] \/ ~Draining(m)'
  PROVE  BusInv'
<1>1. LogInv'
  BY DEF BusInv, LogInv, Evolve
<1>2. LockExclusive'
  BY DEF BusInv, LockExclusive, Draining
<1>3. NoPhantomCascade'
  BY DEF BusInv, NoPhantomCascade, LogInv, Evolve
<1>4. \A m \in Loops : drain'[m] = drain[m] \/ DrainInv(m)'
  BY DEF DrainInv
<1> QED BY <1>1, <1>2, <1>3, <1>4, CommitsNothing

LEMMA EmitInv ==
  ASSUME BusInv, TypeOK', Evolve, NEW p \in Txns, NEW e \in Fresh, NEW t \in Types,
         Emit(p, e, t)
  PROVE  BusInv'
<1> USE DEF BusInv
<1>1. LogInv'
  BY DEF LogInv, Emit, Draw, TypeOK, TxnState, Fresh
<1>2. LockExclusive' /\ FailureKept
  BY DEF LockExclusive, FailureKept, Emit, Draining, subVars
<1>3. NoPhantomCascade'
  BY DEF NoPhantomCascade, LogInv, Evolve, Emit, subVars
<1> QED BY <1>1, <1>2, <1>3, CommitsNothing DEF Emit, subVars

LEMMA CommitInv ==
  ASSUME BusInv, TypeOK', Evolve, NEW p \in Txns, Commit(p)
  PROVE  BusInv'
<1> USE DEF BusInv
<1>1. LogInv'
  BY DEF LogInv, Commit, Publish, TypeOK, TxnState
<1>2. LockExclusive' /\ FailureKept
  BY DEF LockExclusive, FailureKept, Commit, Draining, subVars
<1>3. NoPhantomCascade'
  BY DEF NoPhantomCascade, LogInv, Commit, Publish, subVars
<1> QED BY <1>1, <1>2, <1>3, CommitsNothing DEF Commit, subVars

\* A batch holds the first of the eligible events: what sorts before one of its events
\* and is eligible is in it too.
LEMMA BatchIsPrefix ==
  ASSUME TypeOK, NEW s \in Subs, NEW f \in Batch(s), NEW e \in Eligible(s),
         Before(KeyOf(e), KeyOf(f))
  PROVE  e \in Batch(s)
<1> DEFINE Ahead(g) == {h \in Eligible(s) : Before(KeyOf(h), KeyOf(g))}
<1>1. Eligible(s) \subseteq EventIds /\ f \in Eligible(s)
  BY DEF Batch, Eligible, TypeOK
<1>2. Ahead(e) \subseteq Ahead(f)
  BY <1>1, KeyTyped, BeforeOrder
<1>3. IsFiniteSet(Ahead(f)) /\ IsFiniteSet(Ahead(e))
  BY <1>1, IdsAssumption, FS_Subset
<1>4. Cardinality(Ahead(e)) <= Cardinality(Ahead(f))
  BY <1>2, <1>3, FS_Subset
<1>5. Cardinality(Ahead(f)) < BatchLimit
  BY DEF Batch
<1>6. Cardinality(Ahead(e)) \in Nat /\ Cardinality(Ahead(f)) \in Nat
  BY <1>3, FS_CardinalityType
<1>7. Cardinality(Ahead(e)) < BatchLimit
  BY <1>4, <1>5, <1>6, BoundsAssumption
<1> QED BY <1>7 DEF Batch

LEMMA OpenInv ==
  ASSUME BusInv, TypeOK', Evolve, NEW l \in Loops, Open(l)
  PROVE  BusInv'
<1> DEFINE s == SubOf[l]
           B == Batch(s)
<1> USE DEF BusInv
<1>1. s \in Subs /\ drain[l] \in Drain
  BY DrainTyped
<1>2. PICK d \in Drain :
        /\ drain' = [drain EXCEPT ![l] = d]
        /\ d.pos = cursor[s] /\ d.todo = B /\ d.ok = {} /\ d.lost = {} /\ d.failed = {}
        /\ d.out = {} /\ d.fail = failure[s] /\ d.stage = "draining"
  <2>1. PICK b \in BeginInstants(l) :
          drain' = [drain EXCEPT ![l] =
            [IdleDrain EXCEPT !.stage = "draining", !.began = b, !.pos = cursor[s],
                              !.todo = B, !.fail = failure[s]]]
    BY DEF Open
  <2> DEFINE d == [IdleDrain EXCEPT !.stage = "draining", !.began = b, !.pos = cursor[s],
                                    !.todo = B, !.fail = failure[s]]
  <2>2. b \in Nat /\ B \subseteq EventIds
    BY <1>1 DEF BeginInstants, Batch, Eligible, Drain, TypeOK
  <2>3. d \in Drain
    BY <1>1, <2>2 DEF IdleDrain, Drain, TypeOK
  <2>4. /\ d.pos = cursor[s] /\ d.todo = B /\ d.ok = {} /\ d.lost = {} /\ d.failed = {}
        /\ d.out = {} /\ d.fail = failure[s] /\ d.stage = "draining"
    BY DEF IdleDrain
  <2> HIDE DEF d
  <2> QED BY <2>1, <2>3, <2>4 DEF d
<1>3. /\ d.pos = cursor[s] /\ d.todo = B /\ d.ok = {} /\ d.lost = {} /\ d.failed = {}
      /\ d.out = {} /\ d.fail = failure[s] /\ d.stage = "draining"
  BY <1>2
<1>4. drain'[l] = d /\ \A m \in Loops \ {l} : drain'[m] = drain[m]
  BY <1>2 DEF TypeOK
<1>5. UNCHANGED <<row, drawn, tx, table, cursor, applied, dead, failure, failures, overtaken>>
  BY DEF Open, subVars
<1>6. LogInv' /\ NoPhantomCascade' /\ FailureKept
  BY <1>5 DEF LogInv, NoPhantomCascade, FailureKept
<1>7. LockExclusive'
  BY <1>4 DEF LockExclusive, Locked, Draining, Open
<1>8. cursor[s] \in Key /\ \A e \in EventIds : KeyOf(e) \in Key
  BY <1>1, KeyTyped DEF TypeOK
<1>9. B \subseteq Eligible(s)
  BY DEF Batch
<1>10. DrainPlaces(s, d)
  BY <1>3, <1>8, <1>9, BeforeOrder DEF DrainPlaces, Eligible, Relevant
<1>11. DrainSkipsNone(s, d)
  <2>1. ASSUME NEW e \in Relevant(s) \ overtaken[s], Before(cursor[s], KeyOf(e)),
               NEW f \in B, Before(KeyOf(e), KeyOf(f))
        PROVE  e \in B
    <3>1. e \in Eligible(s)
      BY <2>1 DEF Eligible, Relevant
    <3> QED BY <1>1, <2>1, <3>1, BatchIsPrefix
  <2> QED BY <1>3, <2>1 DEF DrainSkipsNone
<1>12. DrainCounts(s, d)
  BY <1>1, <1>3 DEF DrainCounts, SubInv
<1>13. DrainEmits(s, d)
  BY <1>3 DEF DrainEmits
<1>14. DrainInv(l)'
  <2>1. DrainPlaces(s, d)'
    BY <1>5, <1>10 DEF DrainPlaces, KeyOf, Relevant
  <2>2. DrainSkipsNone(s, d)'
    BY <1>5, <1>11 DEF DrainSkipsNone, KeyOf, Relevant
  <2>3. DrainCounts(s, d)'
    BY <1>5, <1>12 DEF DrainCounts, KeyOf, Relevant
  <2>4. DrainEmits(s, d)'
    BY <1>5, <1>13 DEF DrainEmits
  <2> QED BY <1>4, <2>1, <2>2, <2>3, <2>4 DEF DrainInv
<1> QED BY <1>4, <1>5, <1>6, <1>7, <1>14, CommitsNothing

\* The first event e of the batch is dealt with: the drain moves past it, and everything
\* the cursor would pass with it has an outcome or was overtaken.
LEMMA Advance ==
  ASSUME TypeOK, NEW s \in Subs, NEW d \in Drain, NEW d2 \in Drain,
         DrainPlaces(s, d), DrainSkipsNone(s, d),
         NEW e \in d.todo, IsFirst(e, d.todo),
         d2.todo = d.todo \ {e}, d2.pos = KeyOf(e),
         \/ d2.ok = d.ok \cup {e} /\ d2.lost = d.lost
         \/ d2.ok = d.ok /\ d2.lost = d.lost \cup {e}
  PROVE  DrainPlaces(s, d2) /\ DrainSkipsNone(s, d2)
<1>1. /\ cursor[s] \in Key /\ d.pos \in Key
      /\ \A x \in EventIds : KeyOf(x) \in Key
      /\ d.todo \subseteq EventIds /\ d.ok \subseteq EventIds /\ d.lost \subseteq EventIds
  BY KeyTyped DEF TypeOK, Drain
<1>2. /\ e \in Relevant(s) /\ e \in table
      /\ Before(d.pos, KeyOf(e)) /\ Before(cursor[s], KeyOf(e))
  BY <1>1, BeforeOrder DEF DrainPlaces, Relevant
<1>3. e \notin d.ok \cup d.lost
  BY <1>1, <1>2 DEF DrainPlaces
<1>4. DrainPlaces(s, d2)
  <2>1. ~Before(d2.pos, cursor[s])
    BY <1>1, <1>2, BeforeOrder
  <2>2. ASSUME NEW x \in d2.ok \cup d2.lost
        PROVE  x \in table /\ Before(cursor[s], KeyOf(x)) /\ ~Before(d2.pos, KeyOf(x))
    <3>1. CASE x = e
      BY <1>1, <1>2, <3>1, BeforeOrder
    <3>2. CASE x # e
      <4>1. x \in d.ok \cup d.lost
        BY <2>2, <3>2
      <4>2. x \in table /\ Before(cursor[s], KeyOf(x)) /\ ~Before(d.pos, KeyOf(x))
        BY <4>1 DEF DrainPlaces
      <4> QED BY <1>1, <1>2, <4>1, <4>2, BeforeOrder
    <3> QED BY <3>1, <3>2
  <2>3. \E x \in d2.ok \cup d2.lost : d2.pos = KeyOf(x)
    OBVIOUS
  <2>4. \A x \in d2.todo : x \in Relevant(s) /\ Before(d2.pos, KeyOf(x))
    BY DEF DrainPlaces, IsFirst
  <2>5. d2.ok \cap d2.lost = {}
    BY <1>3 DEF DrainPlaces
  <2> QED BY <2>1, <2>2, <2>3, <2>4, <2>5 DEF DrainPlaces
<1>5. DrainSkipsNone(s, d2)
  <2> SUFFICES ASSUME NEW x \in Relevant(s) \ overtaken[s]
               PROVE  /\ Before(cursor[s], KeyOf(x)) /\ ~Before(KeyOf(e), KeyOf(x))
                           => x \in d2.ok \cup d2.lost
                      /\ \A f \in d2.todo :
                           Before(KeyOf(e), KeyOf(x)) /\ Before(KeyOf(x), KeyOf(f))
                             => x \in d2.todo
    BY DEF DrainSkipsNone
  <2>0. x \in EventIds
    BY DEF Relevant, TypeOK
  <2>1. ASSUME Before(cursor[s], KeyOf(x)), ~Before(KeyOf(e), KeyOf(x))
        PROVE  x \in d2.ok \cup d2.lost
    <3>1. CASE ~Before(d.pos, KeyOf(x))
      BY <2>1, <3>1 DEF DrainSkipsNone
    <3>2. CASE x = e
      BY <3>2
    <3>3. CASE Before(d.pos, KeyOf(x)) /\ x # e
      <4>1. Before(KeyOf(x), KeyOf(e))
        BY <1>1, <2>0, <2>1, <3>3, BeforeOrder, KeyInjective
      <4>2. x \in d.todo
        BY <3>3, <4>1 DEF DrainSkipsNone
      <4> QED BY <1>1, <2>0, <2>1, <3>3, <4>2 DEF IsFirst
    <3> QED BY <3>1, <3>2, <3>3
  <2>2. ASSUME NEW f \in d2.todo, Before(KeyOf(e), KeyOf(x)), Before(KeyOf(x), KeyOf(f))
        PROVE  x \in d2.todo
    <3>1. Before(d.pos, KeyOf(x)) /\ x # e
      BY <1>1, <1>2, <2>0, <2>2, BeforeOrder
    <3> QED BY <2>2, <3>1 DEF DrainSkipsNone
  <2> QED BY <2>1, <2>2
<1> QED BY <1>4, <1>5

\* The drain d of s keeps its part of the invariant when only fresh events are drawn.
LEMMA DrainCarries ==
  ASSUME TypeOK, LogInv, Evolve, NEW s \in Subs, NEW d \in Drain,
         UNCHANGED <<table, cursor, failures, overtaken>>,
         DrainPlaces(s, d), DrainSkipsNone(s, d), DrainCounts(s, d)
  PROVE  DrainPlaces(s, d)' /\ DrainSkipsNone(s, d)' /\ DrainCounts(s, d)'
<1>1. /\ Relevant(s)' = Relevant(s)
      /\ \A e \in table : KeyOf(e)' = KeyOf(e)
  BY KeyStable DEF Relevant
<1>2. \A e \in Relevant(s) : e \in table
  BY DEF Relevant
<1>3. DrainPlaces(s, d)'
  BY <1>1, <1>2 DEF DrainPlaces
<1>4. DrainSkipsNone(s, d)'
  <2>1. \A f \in d.todo : f \in table
    BY <1>2 DEF DrainPlaces
  <2> QED BY <1>1, <1>2, <2>1 DEF DrainSkipsNone
<1>5. DrainCounts(s, d)'
  BY <1>1, <1>2 DEF DrainCounts
<1> QED BY <1>3, <1>4, <1>5

\* One event of the batch: the drain of l goes from drain[l] to d2 and nothing commits.
LEMMA DrainSteps ==
  ASSUME BusInv, TypeOK', Evolve, NEW l \in Loops, Draining(l), NEW d2 \in Drain,
         d2.stage = "draining", drain' = [drain EXCEPT ![l] = d2],
         UNCHANGED <<tx, table, cursor, applied, dead, failure, failures, overtaken>>,
         DrainPlaces(SubOf[l], d2), DrainSkipsNone(SubOf[l], d2), DrainCounts(SubOf[l], d2),
         DrainEmits(SubOf[l], d2)'
  PROVE  BusInv'
<1> USE DEF BusInv
<1>1. SubOf[l] \in Subs
  BY SubsAssumption
<1>2. drain'[l] = d2 /\ \A m \in Loops \ {l} : drain'[m] = drain[m]
  BY DEF TypeOK
<1>3. LogInv' /\ NoPhantomCascade' /\ FailureKept
  BY DEF LogInv, NoPhantomCascade, FailureKept, Evolve
<1>4. LockExclusive'
  BY <1>2 DEF LockExclusive, Draining
<1>5. DrainPlaces(SubOf[l], d2)' /\ DrainSkipsNone(SubOf[l], d2)' /\ DrainCounts(SubOf[l], d2)'
  BY <1>1, DrainCarries
<1>6. DrainInv(l)'
  BY <1>2, <1>5 DEF DrainInv
<1> QED BY <1>2, <1>3, <1>4, <1>6, CommitsNothing

LEMMA HandleInv ==
  ASSUME BusInv, TypeOK', Evolve, NEW l \in Loops, NEW e \in drain[l].todo, Handle(l, e)
  PROVE  BusInv'
<1> USE DEF BusInv
<1>1. /\ SubOf[l] \in Subs /\ drain[l] \in Drain /\ e \in EventIds
      /\ Draining(l) /\ IsFirst(e, drain[l].todo)
  BY DrainTyped DEF Handle, Drain
<1>2. UNCHANGED <<tx, table, cursor, applied, dead, failure, failures, overtaken>>
  BY DEF Handle, subVars
<1> DEFINE Emitted(N) ==
             /\ drain' = [drain EXCEPT ![l] = Handled(drain[l], e, N)]
             /\ \A n \in N : n \in drawn' /\ row'[n].cause = SubOf[l] /\ row'[n].of = e
<1>3. PICK N \in SUBSET Fresh : Emitted(N)
  <2>1. CASE /\ drain' = [drain EXCEPT ![l] = Handled(drain[l], e, {})]
             /\ UNCHANGED <<row, drawn>>
    <3>1. {} \in SUBSET Fresh /\ Emitted({})
      BY <2>1
    <3> QED BY <3>1
  <2>2. ASSUME NEW n \in Fresh, NEW t \in Cascades[SubOf[l]],
               Draw(n, drain[l].began, t, SubOf[l], e),
               drain' = [drain EXCEPT ![l] = Handled(drain[l], e, {n})]
        PROVE  \E N \in SUBSET Fresh : Emitted(N)
    <3>1. n \in drawn' /\ row'[n].cause = SubOf[l] /\ row'[n].of = e
      BY <2>2 DEF Draw, Fresh, TypeOK
    <3>2. {n} \in SUBSET Fresh /\ Emitted({n})
      BY <2>2, <3>1
    <3> QED BY <3>2
  <2> QED BY <2>1, <2>2 DEF Handle
<1>4. PICK d \in Drain : d = drain[l]
  BY <1>1
<1>5. PICK d2 \in Drain : d2 = Handled(d, e, N)
  <2>1. N \in SUBSET EventIds
    BY DEF Fresh
  <2> QED BY <1>1, <2>1, StepsTyped
<1>6. /\ d2.stage = d.stage /\ d2.todo = d.todo \ {e} /\ d2.ok = d.ok \cup {e}
      /\ d2.pos = KeyOf(e) /\ d2.lost = d.lost /\ d2.failed = d.failed /\ d2.fail = None
      /\ d2.out = d.out \cup N
  BY <1>5 DEF Handled, Drain
<1>7. /\ DrainPlaces(SubOf[l], d)
      /\ DrainSkipsNone(SubOf[l], d)
      /\ DrainCounts(SubOf[l], d)
      /\ DrainEmits(SubOf[l], d)
  BY <1>1, <1>4 DEF DrainInv
<1>8. DrainPlaces(SubOf[l], d2) /\ DrainSkipsNone(SubOf[l], d2)
  BY <1>1, <1>4, <1>6, <1>7, Advance
<1>9. DrainCounts(SubOf[l], d2)
  BY <1>6, <1>7 DEF DrainCounts
<1>10. DrainEmits(SubOf[l], d2)'
  BY <1>3, <1>6, <1>7 DEF DrainEmits, Evolve
<1> QED BY <1>1, <1>2, <1>3, <1>4, <1>5, <1>6, <1>8, <1>9, <1>10, DrainSteps DEF Draining

LEMMA FailAndHaltInv ==
  ASSUME BusInv, TypeOK', Evolve, NEW l \in Loops, NEW e \in drain[l].todo, FailAndHalt(l, e)
  PROVE  BusInv'
<1> DEFINE s == SubOf[l]
<1> USE DEF BusInv
<1>1. /\ s \in Subs /\ drain[l] \in Drain /\ e \in EventIds
      /\ Draining(l) /\ IsFirst(e, drain[l].todo)
  BY DrainTyped DEF FailAndHalt, Drain
<1>2. UNCHANGED <<tx, table, cursor, applied, dead, failure, failures, overtaken>>
  BY DEF FailAndHalt, subVars, producerVars
<1>4. PICK d \in Drain : d = drain[l]
  BY <1>1
<1>5. PICK d2 \in Drain : d2 = Halted(d, e)
  BY <1>1, StepsTyped
<1>6. /\ d2.stage = d.stage /\ d2.todo = {} /\ d2.ok = d.ok
      /\ d2.pos = d.pos /\ d2.lost = d.lost /\ d2.failed = d.failed \cup {e}
      /\ d2.fail = [of |-> e, attempts |-> Bumped(d.fail, e), waiting |-> TRUE]
      /\ d2.out = d.out
  BY <1>5 DEF Halted, Drain
<1>7. DrainPlaces(s, d) /\ DrainSkipsNone(s, d) /\ DrainCounts(s, d) /\ DrainEmits(s, d)
  BY <1>1, <1>4 DEF DrainInv
<1>8. DrainPlaces(s, d2) /\ DrainSkipsNone(s, d2)
  BY <1>6, <1>7 DEF DrainPlaces, DrainSkipsNone
<1>9. DrainCounts(s, d2)
  <2>1. d2.fail.of = e /\ e \in d2.failed /\ d2.fail.attempts = Bumped(d.fail, e)
    BY <1>6
  <2>2. /\ e \in d.todo /\ e \notin d.failed
        /\ e \in Relevant(s) /\ Before(d2.pos, KeyOf(e))
    <3>1. e \in d.todo
      BY <1>4
    <3>2. e \notin d.failed
      BY <1>7, <3>1 DEF DrainCounts
    <3> QED BY <1>6, <1>7, <3>1, <3>2 DEF DrainPlaces
  <2>3. failures[s][e] + 1 >= Bumped(d.fail, e)
    <3>1. failures[s][e] \in Nat
      BY <1>1 DEF TypeOK
    <3>2. CASE d.fail # None /\ d.fail.of = e
      <4>1. d.fail.attempts \in Nat
        BY <3>2 DEF Drain, Failure
      <4>2. failures[s][e] >= d.fail.attempts
        BY <1>7, <2>2, <3>2 DEF DrainCounts
      <4> QED BY <3>1, <3>2, <4>1, <4>2 DEF Bumped
    <3>3. CASE ~(d.fail # None /\ d.fail.of = e)
      BY <3>1, <3>3 DEF Bumped
    <3> QED BY <3>2, <3>3
  <2>4. \A x \in d2.lost : x \in d2.failed /\ failures[s][x] + 1 >= MaxAttempts
    BY <1>6, <1>7 DEF DrainCounts
  <2> QED BY <1>6, <2>1, <2>2, <2>3, <2>4 DEF DrainCounts
<1>10. DrainEmits(s, d2)'
  BY <1>6, <1>7 DEF DrainEmits, Evolve
<1>11. drain' = [drain EXCEPT ![l] = d2]
  BY <1>4, <1>5 DEF FailAndHalt
<1> QED BY <1>1, <1>2, <1>4, <1>6, <1>8, <1>9, <1>10, <1>11, DrainSteps DEF Draining

LEMMA FailForGoodInv ==
  ASSUME BusInv, TypeOK', Evolve, NEW l \in Loops, NEW e \in drain[l].todo, FailForGood(l, e)
  PROVE  BusInv'
<1> DEFINE s == SubOf[l]
<1> USE DEF BusInv
<1>1. /\ s \in Subs /\ drain[l] \in Drain /\ e \in EventIds
      /\ Draining(l) /\ IsFirst(e, drain[l].todo)
  BY DrainTyped DEF FailForGood, Drain
<1>2. UNCHANGED <<tx, table, cursor, applied, dead, failure, failures, overtaken>>
  BY DEF FailForGood, subVars, producerVars
<1>4. PICK d \in Drain : d = drain[l]
  BY <1>1
<1>5. PICK d2 \in Drain : d2 = Buried(d, e)
  BY <1>1, StepsTyped
<1>6. /\ d2.stage = d.stage /\ d2.todo = d.todo \ {e} /\ d2.ok = d.ok
      /\ d2.pos = KeyOf(e) /\ d2.lost = d.lost \cup {e} /\ d2.failed = d.failed \cup {e}
      /\ d2.fail = None /\ d2.out = d.out
  BY <1>5 DEF Buried, Drain
<1>7. DrainPlaces(s, d) /\ DrainSkipsNone(s, d) /\ DrainCounts(s, d) /\ DrainEmits(s, d)
  BY <1>1, <1>4 DEF DrainInv
<1>8. DrainPlaces(s, d2) /\ DrainSkipsNone(s, d2)
  BY <1>1, <1>4, <1>6, <1>7, Advance
<1>9. DrainCounts(s, d2)
  <2>1. failures[s][e] + 1 >= MaxAttempts
    <3>1. failures[s][e] \in Nat /\ e \notin d.failed
      BY <1>1, <1>4, <1>7 DEF TypeOK, DrainCounts
    <3>2. Bumped(d.fail, e) >= MaxAttempts
      BY <1>4 DEF FailForGood
    <3>3. CASE d.fail # None /\ d.fail.of = e
      <4>1. d.fail.attempts \in Nat
        BY <3>3 DEF Drain, Failure
      <4>2. failures[s][e] >= d.fail.attempts
        BY <1>7, <3>1, <3>3 DEF DrainCounts
      <4>3. Bumped(d.fail, e) = d.fail.attempts + 1
        BY <3>3 DEF Bumped
      <4> QED BY <3>1, <3>2, <4>1, <4>2, <4>3, BoundsAssumption
    <3>4. CASE ~(d.fail # None /\ d.fail.of = e)
      <4>1. Bumped(d.fail, e) = 1
        BY <3>4 DEF Bumped
      <4> QED BY <3>1, <3>2, <4>1, BoundsAssumption
    <3> QED BY <3>3, <3>4
  <2> QED BY <1>6, <1>7, <2>1 DEF DrainCounts
<1>10. DrainEmits(s, d2)'
  BY <1>6, <1>7 DEF DrainEmits, Evolve
<1>11. drain' = [drain EXCEPT ![l] = d2]
  BY <1>4, <1>5 DEF FailForGood
<1> QED BY <1>1, <1>2, <1>4, <1>6, <1>8, <1>9, <1>10, <1>11, DrainSteps DEF Draining

LEMMA SettleInv ==
  ASSUME BusInv, TypeOK', Evolve, NEW l \in Loops, Settle(l)
  PROVE  BusInv'
<1> DEFINE s == SubOf[l]
<1> USE DEF BusInv
<1>1. s \in Subs /\ drain[l] \in Drain /\ Draining(l)
  BY DrainTyped DEF Settle
<1>2. PICK d \in Drain : d = drain[l]
  BY <1>1
<1>3. DrainPlaces(s, d) /\ DrainSkipsNone(s, d) /\ DrainCounts(s, d) /\ DrainEmits(s, d)
  BY <1>1, <1>2 DEF DrainInv
<1>4. d.ok \subseteq EventIds /\ d.lost \subseteq EventIds /\ d.pos \in Key /\ cursor[s] \in Key
  BY <1>1 DEF Drain, TypeOK
<1>5. /\ row' = row /\ drawn' = drawn /\ tx' = tx /\ table' = table \cup d.out
      /\ cursor'[s] = d.pos /\ dead'[s] = dead[s] \cup d.lost /\ failure'[s] = d.fail
      /\ \A e \in EventIds :
           /\ applied'[s][e] = IF e \in d.ok THEN applied[s][e] + 1 ELSE applied[s][e]
           /\ failures'[s][e] = IF e \in d.failed THEN failures[s][e] + 1 ELSE failures[s][e]
      /\ drain'[l] = IdleDrain
  BY <1>1, <1>2 DEF Settle, Publish, producerVars, TypeOK
<1>6. \A r \in Subs \ {s} : /\ cursor'[r] = cursor[r] /\ applied'[r] = applied[r]
                            /\ dead'[r] = dead[r] /\ failure'[r] = failure[r]
                            /\ failures'[r] = failures[r]
  BY <1>1 DEF Settle, TypeOK
<1>7. \A m \in Loops \ {l} : drain'[m] = drain[m]
  BY <1>1 DEF Settle, TypeOK
<1>8. /\ \A e \in EventIds : KeyOf(e)' = KeyOf(e) /\ KeyOf(e) \in Key
      /\ Relevant(s) \subseteq Relevant(s)'
      /\ \A e \in EventIds : applied[s][e] \in Nat /\ failures[s][e] \in Nat
  BY <1>1, <1>5, KeyTyped, KeyStable DEF KeyOf, TypeOK
<1>9. \A e \in d.ok \cup d.lost : e \notin SettledBy(s) /\ e \in EventIds
  BY <1>1, <1>3, <1>4 DEF SubInv, DrainPlaces
<1>10. \A e \in EventIds : applied[s][e] > 0 => e \in SettledBy(s)
  BY DEF SettledBy
<1>11. \A e \in d.ok \cup d.lost : applied[s][e] = 0 /\ e \notin dead[s]
  BY <1>8, <1>9, <1>10 DEF SettledBy
<1>12. SettledBy(s)' = SettledBy(s) \cup d.ok \cup d.lost
  BY <1>1, <1>4, <1>5, <1>8 DEF SettledBy, TypeOK
<1>13. SubInv(s)'
  <2>1. \A e \in SettledBy(s)' : e \in table' /\ ~Before(cursor'[s], KeyOf(e)')
    <3>1. ASSUME NEW e \in SettledBy(s)
          PROVE  e \in table' /\ ~Before(d.pos, KeyOf(e))
      <4>1. e \in table /\ ~Before(cursor[s], KeyOf(e)) /\ e \in EventIds
        BY <1>1 DEF SubInv, TypeOK
      <4>2. ~Before(d.pos, cursor[s])
        BY <1>3 DEF DrainPlaces
      <4> QED BY <1>4, <1>5, <1>8, <4>1, <4>2, BeforeOrder
    <3>2. \A e \in d.ok \cup d.lost : e \in table' /\ ~Before(d.pos, KeyOf(e))
      BY <1>3, <1>5 DEF DrainPlaces
    <3>3. \A e \in SettledBy(s)' : e \in EventIds
      BY <1>1, <1>4, <1>12 DEF SettledBy, TypeOK
    <3> QED BY <1>5, <1>8, <1>12, <3>1, <3>2, <3>3
  <2>2. \A e \in EventIds : applied'[s][e] <= 1 /\ (applied'[s][e] = 1 => e \notin dead'[s])
    <3> SUFFICES ASSUME NEW e \in EventIds
                 PROVE  applied'[s][e] <= 1 /\ (applied'[s][e] = 1 => e \notin dead'[s])
      OBVIOUS
    <3>1. CASE e \in d.ok
      <4>1. applied'[s][e] = 1 /\ e \notin d.lost
        BY <1>3, <1>5, <1>11, <3>1 DEF DrainPlaces
      <4> QED BY <1>5, <1>11, <3>1, <4>1
    <3>2. CASE e \notin d.ok
      <4>1. applied'[s][e] = applied[s][e]
        BY <1>5, <3>2
      <4>2. applied[s][e] <= 1 /\ (applied[s][e] = 1 => e \notin dead[s])
        BY <1>1 DEF SubInv
      <4>3. e \in d.lost => applied[s][e] = 0
        BY <1>11
      <4> QED BY <1>5, <4>1, <4>2, <4>3
    <3> QED BY <3>1, <3>2
  <2>3. \A e \in Relevant(s)' :
          ~Before(cursor'[s], KeyOf(e)') => e \in SettledBy(s)' \cup overtaken'[s]
    <3> SUFFICES ASSUME NEW e \in Relevant(s)', ~Before(d.pos, KeyOf(e)),
                        e \notin SettledBy(s)', e \notin overtaken'[s]
                 PROVE  FALSE
      BY <1>5, <1>8 DEF Relevant, TypeOK
    <3>0. e \in EventIds
      BY DEF Relevant, TypeOK
    <3>1. CASE e \in table
      <4>1. e \in Relevant(s) /\ e \notin overtaken[s]
        BY <1>1, <3>1, KeyStable DEF Evolve
      <4>2. CASE Before(cursor[s], KeyOf(e))
        BY <1>3, <1>12, <4>1, <4>2 DEF DrainSkipsNone
      <4>3. CASE ~Before(cursor[s], KeyOf(e))
        BY <1>1, <1>12, <4>1, <4>3 DEF SubInv
      <4> QED BY <4>2, <4>3
    <3>2. CASE e \notin table
      <4>1. ~ReadPast(s, e)'
        BY <1>1, <3>2 DEF Evolve, Relevant
      <4>2. Before(cursor'[s], KeyOf(e)')
        BY <4>1 DEF ReadPast
      <4> QED BY <1>5, <1>8, <3>0, <4>2
    <3> QED BY <3>1, <3>2
  <2>4. \A e \in dead'[s] : failures'[s][e] >= MaxAttempts
    <3>1. ASSUME NEW e \in dead[s] PROVE failures'[s][e] >= MaxAttempts
      <4>1. failures[s][e] >= MaxAttempts /\ e \in EventIds
        BY <1>1 DEF SubInv, TypeOK
      <4> QED BY <1>5, <1>8, <4>1, BoundsAssumption
    <3>2. ASSUME NEW e \in d.lost PROVE failures'[s][e] >= MaxAttempts
      <4>1. e \in d.failed /\ failures[s][e] + 1 >= MaxAttempts /\ e \in EventIds
        BY <1>3, <1>4 DEF DrainCounts
      <4> QED BY <1>5, <4>1
    <3> QED BY <1>5, <3>1, <3>2
  <2>5. (failure[s] # None =>
           /\ failure[s].of \in Relevant(s)
           /\ Before(cursor[s], KeyOf(failure[s].of))
           /\ failures[s][failure[s].of] >= failure[s].attempts)'
    <3> SUFFICES ASSUME failure'[s] # None, NEW e, e = failure'[s].of
                 PROVE  /\ e \in Relevant(s)'
                        /\ Before(cursor'[s], KeyOf(e)')
                        /\ failures'[s][e] >= failure'[s].attempts
      OBVIOUS
    <3>1. /\ d.fail # None /\ e = d.fail.of /\ failure'[s] = d.fail
          /\ e \in Relevant(s) /\ Before(d.pos, KeyOf(e))
      BY <1>3, <1>5 DEF DrainCounts
    <3>2. e \in EventIds /\ d.fail.attempts \in Nat
      BY <3>1 DEF Relevant, TypeOK, Drain, Failure
    <3>3. IF e \in d.failed THEN failures[s][e] + 1 >= d.fail.attempts
                            ELSE failures[s][e] >= d.fail.attempts
      BY <1>3, <3>1 DEF DrainCounts
    <3> QED BY <1>5, <1>8, <3>1, <3>2, <3>3
  <2> QED BY <2>1, <2>2, <2>3, <2>4, <2>5 DEF SubInv
<1>14. ASSUME NEW r \in Subs PROVE SubInv(r)'
  BY <1>6, <1>13, SubKept
<1>15. ASSUME NEW m \in Loops PROVE DrainInv(m)'
  <2>1. CASE m = l
    BY <1>5, <2>1 DEF DrainInv, Draining, IdleDrain
  <2>2. CASE m # l /\ SubOf[m] = s
    BY <1>1, <1>7, <2>2 DEF DrainInv, Draining, LockExclusive
  <2>3. CASE m # l /\ SubOf[m] # s
    <3>1. SubOf[m] \in Subs
      BY SubsAssumption
    <3> QED BY <1>6, <1>7, <2>3, <3>1, DrainKept
  <2> QED BY <2>1, <2>2, <2>3
<1>16. LogInv'
  BY <1>3, <1>5 DEF LogInv, DrainEmits
<1>17. LockExclusive'
  BY <1>5, <1>7 DEF LockExclusive, Draining, IdleDrain
<1>18. NoPhantomCascade'
  <2> SUFFICES ASSUME NEW e \in table', row[e].cause # None
               PROVE  row[e].of \in EventIds /\ applied'[row[e].cause][row[e].of] = 1
    BY <1>5 DEF NoPhantomCascade
  <2>0. e \in EventIds /\ row[e].cause \in Subs /\ row[e].of \in EventIds \cup {None}
    BY DEF TypeOK, Row
  <2>1. CASE e \in d.out
    <3>1. row[e].cause = s /\ row[e].of \in d.ok
      BY <1>3, <2>1 DEF DrainEmits
    <3> QED BY <1>4, <1>5, <1>11, <3>1
  <2>2. CASE e \in table
    <3>1. row[e].of \in EventIds /\ applied[row[e].cause][row[e].of] = 1
      BY <2>2 DEF NoPhantomCascade
    <3>2. CASE row[e].cause # s
      BY <1>6, <2>0, <3>1, <3>2
    <3>3. CASE row[e].cause = s
      <4>1. row[e].of \notin d.ok
        BY <1>11, <3>1, <3>3
      <4> QED BY <1>5, <3>1, <3>3, <4>1
    <3> QED BY <3>2, <3>3
  <2> QED BY <1>5, <2>1, <2>2
<1> QED BY <1>14, <1>15, <1>16, <1>17, <1>18

THEOREM BusInvariant == Spec => []BusInv
<1>1. Init => BusInv
  <2> SUFFICES ASSUME Init PROVE BusInv
    OBVIOUS
  <2>1. TypeOK
    BY InitTyped
  <2>2. LogInv /\ LockExclusive /\ NoPhantomCascade
    BY DEF Init, LogInv, LockExclusive, NoPhantomCascade, Draining, IdleDrain
  <2>3. \A s \in Subs : SubInv(s)
    BY DEF Init, SubInv, SettledBy, Relevant
  <2>4. \A l \in Loops : DrainInv(l)
    BY DEF Init, DrainInv, Draining, IdleDrain
  <2> QED BY <2>1, <2>2, <2>3, <2>4 DEF BusInv
<1>2. BusInv /\ [Next]_vars => BusInv'
  <2> SUFFICES ASSUME BusInv, [Next]_vars PROVE BusInv'
    OBVIOUS
  <2>0. TypeOK' /\ Evolve
    BY NextTyped, NextEvolves DEF BusInv
  <2>1. ASSUME NEW p \in Txns, Begin(p) \/ Rollback(p) PROVE BusInv'
    <3>0. tx \in [Txns -> TxnState]
      BY DEF BusInv, TypeOK
    <3>1. \A q \in Txns : tx'[q].ids \subseteq tx[q].ids
      <4>1. tx'[p].ids = {}
        BY <2>1, <3>0 DEF Begin, Rollback
      <4>2. \A q \in Txns \ {p} : tx'[q] = tx[q]
        BY <2>1, <3>0 DEF Begin, Rollback
      <4> QED BY <4>1, <4>2
    <3>2. UNCHANGED <<table, cursor, applied, dead, failure, failures, drain>>
      BY <2>1 DEF Begin, Rollback, subVars
    <3> QED BY <2>0, <3>1, <3>2, Quiet DEF FailureKept
  <2>2. ASSUME NEW p \in Txns, NEW e \in Fresh, NEW t \in Types, Emit(p, e, t) PROVE BusInv'
    BY <2>0, <2>2, EmitInv
  <2>3. ASSUME NEW p \in Txns, Commit(p) PROVE BusInv'
    BY <2>0, <2>3, CommitInv
  <2>4. ASSUME NEW l \in Loops, Check(l) \/ Miss(l) \/ Seed(l) \/ NothingToDo(l) PROVE BusInv'
    <3>1. \A m \in Loops : drain'[m] = drain[m] \/ ~Draining(m)'
      <4>1. drain \in [Loops -> Drain]
        BY DEF BusInv, TypeOK
      <4>2. \A m \in Loops \ {l} : drain'[m] = drain[m]
        BY <2>4, <4>1 DEF Check, Miss, Seed, NothingToDo
      <4>3. drain[l] \in Drain
        BY <4>1
      <4>4. CASE Check(l)
        BY <4>1, <4>3, <4>4 DEF Check, Draining, Drain
      <4>5. CASE Miss(l)
        BY <4>1, <4>3, <4>5 DEF Miss, Draining, Drain
      <4>6. CASE Seed(l) \/ NothingToDo(l)
        BY <4>1, <4>6 DEF Seed, NothingToDo, Draining, IdleDrain
      <4> QED BY <2>4, <4>2, <4>4, <4>5, <4>6 DEF Draining
    <3> QED BY <2>0, <2>4, <3>1, Quiet
         DEF Check, Miss, Seed, NothingToDo, subVars, producerVars, FailureKept
  <2>5. ASSUME NEW l \in Loops, Open(l) PROVE BusInv'
    BY <2>0, <2>5, OpenInv
  <2>6. ASSUME NEW l \in Loops, NEW e \in drain[l].todo, Handle(l, e) PROVE BusInv'
    BY <2>0, <2>6, HandleInv
  <2>7. ASSUME NEW l \in Loops, NEW e \in drain[l].todo, FailAndHalt(l, e) PROVE BusInv'
    BY <2>0, <2>7, FailAndHaltInv
  <2>8. ASSUME NEW l \in Loops, NEW e \in drain[l].todo, FailForGood(l, e) PROVE BusInv'
    BY <2>0, <2>8, FailForGoodInv
  <2>9. ASSUME NEW l \in Loops, Settle(l) PROVE BusInv'
    BY <2>0, <2>9, SettleInv
  <2>10. ASSUME NEW s \in Subs, BackoffElapses(s) PROVE BusInv'
    <3>1. failure[s] \in Failure
      BY <2>10 DEF BackoffElapses, BusInv, TypeOK
    <3>2. FailureKept
      BY <2>10, <3>1 DEF BackoffElapses, FailureKept, BusInv, TypeOK, Failure
    <3> QED BY <2>0, <2>10, <3>2, Quiet DEF BackoffElapses, producerVars
  <2>11. ASSUME NEW l \in Loops, Abort(l) PROVE BusInv'
    <3>1. \A m \in Loops : drain'[m] = drain[m] \/ ~Draining(m)'
      BY <2>11 DEF Abort, BusInv, TypeOK, Draining, IdleDrain
    <3> QED BY <2>0, <2>11, <3>1, Quiet DEF Abort, subVars, producerVars, FailureKept
  <2>12. ASSUME NEW l \in Loops, Shutdown(l) \/ Start(l) PROVE BusInv'
    BY <2>0, <2>12, Quiet DEF Shutdown, Start, subVars, producerVars, FailureKept
  <2>13. CASE UNCHANGED vars
    BY <2>0, <2>13, Quiet DEF vars, FailureKept
  <2> QED
    BY <2>1, <2>2, <2>3, <2>4, <2>5, <2>6, <2>7, <2>8, <2>9, <2>10, <2>11, <2>12, <2>13
       DEF Next, Produce, DrainStep
<1> QED BY <1>1, <1>2, PTL DEF Spec

-----------------------------------------------------------------------------
(* What follows from the invariant. *)

\* The in-transaction effects of a handler on an event are committed at most once, and
\* never for a dead-lettered event, with any number of replicas, aborts and restarts.
THEOREM AtMostOnce == Spec => []AppliedAtMostOnce
<1>1. BusInv => AppliedAtMostOnce
  BY DEF BusInv, SubInv, AppliedAtMostOnce
<1> QED BY <1>1, BusInvariant, PTL

\* The cursor passes no event that was visible in time and has no outcome.
THEOREM NothingSkipped == Spec => []NoSilentSkip
<1>1. BusInv => NoSilentSkip
  BY DEF BusInv, SubInv, NoSilentSkip
<1> QED BY <1>1, BusInvariant, PTL

\* A dead-lettered event failed at least maxAttempts times.
THEOREM DeadLettersEarned == Spec => []DeadLetterEarned
<1>1. BusInv => DeadLetterEarned
  BY DEF BusInv, SubInv, DeadLetterEarned
<1> QED BY <1>1, BusInvariant, PTL

\* A failure row is about an unsettled event ahead of the cursor.
THEOREM FailuresAhead == Spec => []FailureIsAhead
<1>1. BusInv => FailureIsAhead
  BY DEF BusInv, SubInv, FailureIsAhead
<1> QED BY <1>1, BusInvariant, PTL

\* What a handler emitted is published only with the commit of its run.
THEOREM NoPhantoms == Spec => []NoPhantomCascade
<1>1. BusInv => NoPhantomCascade
  BY DEF BusInv
<1> QED BY <1>1, BusInvariant, PTL

-----------------------------------------------------------------------------
(* The bus implements EventDelivery. *)

LogMap == [e \in table |-> KeyOf(e)]
OutcomeMap == [s \in Subs |-> [e \in EventIds |-> Outcome(s, e)]]

LEMMA LogGrows ==
  ASSUME BusInv, Evolve
  PROVE  /\ DOMAIN LogMap' = table'
         /\ \A e \in table : LogMap'[e] = LogMap[e]
  BY KeyStable DEF BusInv, LogMap

\* A step that commits nothing for a subscription publishes, or is a stutter.
LEMMA Publishes ==
  ASSUME BusInv, TypeOK', Evolve, UNCHANGED <<applied, dead>>
  PROVE  Delivery!PublishSome(table' \ table)
<1>1. OutcomeMap' = OutcomeMap
  BY DEF OutcomeMap, Outcome
<1>2. table' \ table \subseteq EventIds \ table /\ table' = table \cup (table' \ table)
  BY DEF TypeOK, Evolve
<1>3. DOMAIN LogMap = table
  BY DEF LogMap
<1> QED BY <1>1, <1>2, <1>3, LogGrows
     DEF Delivery!PublishSome, Delivery!Grows, Delivery!Published, LogMap, OutcomeMap

LEMMA SettleRefines ==
  ASSUME BusInv, TypeOK', Evolve, NEW l \in Loops, Settle(l)
  PROVE  Delivery!SettleSome(SubOf[l], drain[l].ok, drain[l].lost, drain[l].out \ table)
<1> DEFINE s == SubOf[l]
           d == drain[l]
<1> USE DEF BusInv
<1>1. s \in Subs /\ d \in Drain /\ Draining(l)
  BY DrainTyped DEF Settle
<1>2. d.ok \subseteq EventIds /\ d.lost \subseteq EventIds /\ d.out \subseteq EventIds
  BY <1>1 DEF Drain
<1>3. DrainPlaces(s, d) /\ DrainEmits(s, d)
  BY <1>1 DEF DrainInv
<1>4. \A e \in d.ok \cup d.lost :
        e \in table /\ Before(cursor[s], KeyOf(e)) /\ e \notin SettledBy(s)
  BY <1>1, <1>3 DEF DrainPlaces, SubInv
<1>5. \A e \in EventIds : OutcomeMap[s][e] # "none" => e \in SettledBy(s)
  BY <1>1 DEF OutcomeMap, Outcome, SettledBy
<1>6. d.ok \cap d.lost = {}
  BY <1>3 DEF DrainPlaces
<1>7. d.ok \cup d.lost \subseteq table \ {e \in EventIds : OutcomeMap[s][e] # "none"}
  BY <1>4, <1>5
<1>8. ASSUME NEW e \in d.ok \cup d.lost, NEW f \in EventIds, OutcomeMap[s][f] # "none"
      PROVE  Delivery!Earlier(LogMap[f], LogMap[e])
  <2>1. f \in table /\ ~Before(cursor[s], KeyOf(f))
    BY <1>1, <1>5, <1>8 DEF SubInv
  <2>2. Before(cursor[s], KeyOf(e)) /\ e \in table /\ e \in EventIds
    BY <1>2, <1>4
  <2>3. KeyOf(f) \in Key /\ KeyOf(e) \in Key /\ cursor[s] \in Key
    BY <1>1, <2>2, KeyTyped DEF TypeOK
  <2>4. Before(KeyOf(f), KeyOf(e))
    BY <2>1, <2>2, <2>3, BeforeOrder
  <2> QED BY <2>1, <2>2, <2>4 DEF Delivery!Earlier, Before, LogMap
<1>9. d.out \ table # {} => d.ok # {}
  BY <1>3 DEF DrainEmits
<1>10. Delivery!Grows(d.out \ table)
  <2>1. table' = table \cup (d.out \ table) /\ DOMAIN LogMap = table
    BY DEF Settle, Publish, LogMap
  <2> QED BY <1>2, <2>1, LogGrows DEF Delivery!Grows, Delivery!Published, LogMap
<1>11. OutcomeMap' = [OutcomeMap EXCEPT ![s] =
         [e \in EventIds |-> IF e \in d.ok THEN "applied"
                             ELSE IF e \in d.lost THEN "dead" ELSE OutcomeMap[s][e]]]
  <2>1. /\ \A e \in EventIds :
             applied'[s][e] = IF e \in d.ok THEN applied[s][e] + 1 ELSE applied[s][e]
        /\ dead'[s] = dead[s] \cup d.lost
    BY <1>1 DEF Settle, TypeOK
  <2>2. \A r \in Subs \ {s} : applied'[r] = applied[r] /\ dead'[r] = dead[r]
    BY <1>1 DEF Settle, TypeOK
  <2>3. \A r \in Subs \ {s} : \A e \in EventIds : Outcome(r, e)' = Outcome(r, e)
    BY <2>2 DEF Outcome
  <2>4. ASSUME NEW e \in EventIds
        PROVE  Outcome(s, e)' = IF e \in d.ok THEN "applied"
                                ELSE IF e \in d.lost THEN "dead" ELSE Outcome(s, e)
    <3>1. applied[s][e] \in Nat
      BY <1>1 DEF TypeOK
    <3>2. e \in d.ok \cup d.lost => ~(applied[s][e] > 0) /\ e \notin dead[s]
      BY <1>4 DEF SettledBy
    <3> QED BY <1>6, <2>1, <3>1, <3>2 DEF Outcome
  <2> QED BY <1>1, <2>3, <2>4 DEF OutcomeMap
<1> QED BY <1>6, <1>7, <1>8, <1>9, <1>10, <1>11
     DEF Delivery!SettleSome, Delivery!Settled, Delivery!Published, LogMap, OutcomeMap

\* Every step of the dispatcher is a publication, a settlement in key order, or a stutter.
THEOREM Refinement == Spec => ImplementsDelivery
<1>1. Init => Delivery!Init
  BY DEF Init, Delivery!Init, Outcome
<1>2. BusInv /\ [Next]_vars => [Delivery!Next]_<<LogMap, OutcomeMap>>
  <2> SUFFICES ASSUME BusInv, [Next]_vars
               PROVE  [Delivery!Next]_<<LogMap, OutcomeMap>>
    OBVIOUS
  <2>1. TypeOK' /\ Evolve
    BY NextTyped, NextEvolves DEF BusInv
  <2>2. CASE UNCHANGED <<applied, dead>>
    <3>1. table' \ table \in SUBSET EventIds
      BY <2>1 DEF TypeOK
    <3> QED BY <2>1, <2>2, <3>1, Publishes DEF Delivery!Next
  <2>3. CASE ~UNCHANGED <<applied, dead>>
    <3>1. PICK l \in Loops : Settle(l)
      BY <2>3 DEF Next, Produce, Begin, Emit, Commit, Rollback, DrainStep, Check, Miss, Seed,
                  Open, NothingToDo, Handle, FailAndHalt, FailForGood, Abort, Shutdown, Start,
                  BackoffElapses, subVars, vars
    <3>2. /\ SubOf[l] \in Subs
          /\ drain[l].ok \in SUBSET EventIds /\ drain[l].lost \in SUBSET EventIds
          /\ drain[l].out \ table \in SUBSET EventIds
      BY DrainTyped DEF BusInv, Drain
    <3> QED BY <2>1, <3>1, <3>2, SettleRefines DEF Delivery!Next
  <2> QED BY <2>2, <2>3
<1> QED BY <1>1, <1>2, BusInvariant, PTL
     DEF Spec, ImplementsDelivery, Delivery!Spec, LogMap, OutcomeMap
=============================================================================
