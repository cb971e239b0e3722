-------------------------- MODULE BoardStreamProofs --------------------------
(***************************************************************************)
(* Proofs about BoardStream: that its state is typed, and that a value     *)
(* that was never written stays on the screen only after two overlapping   *)
(* edits both failed.                                                      *)
(***************************************************************************)
EXTENDS BoardStream, TLAPS

-----------------------------------------------------------------------------
(* The values that are shown.                                              *)

Failed(m) == mut[m].pc = "failed"

\* An edit that was accepted, or that failed and was brought back by one that failed.
Over(v) ==
    \/ mut[v].pc = "done"
    \/ Failed(v) /\ \E n \in Mutations : Failed(n) /\ v \in mut[n].under

\* Edits that were under way when another was made, were made.
UnderMade == \A n \in Mutations : \A v \in mut[n].under : v \in Mutations /\ mut[v].pc # "idle"

\* What the list shows of the user's edits is in flight or over.
ListAccounted ==
    \A t \in Tasks, f \in Fields :
        list[t].by[f] \in Mutations => list[t].by[f] \in InFlight \/ Over(list[t].by[f])

\* What a rollback would bring back was under way when its edit was made, or is over.
LedgersAccounted ==
    \A n \in InFlight : \A t \in Tasks, f \in Fields :
        LET v == mut[n].ledger[t].by[f] IN
        v \in Mutations => v \in mut[n].under \/ Over(v)

PhantomInv == UnderMade /\ ListAccounted /\ LedgersAccounted
IInv == TypeOK /\ PhantomInv

-----------------------------------------------------------------------------
(* Typing.                                                                 *)

LEMMA ConstantsTyped ==
  /\ AnyTask \in Tasks
  /\ Absent \in Row /\ First \in Row /\ Hidden \in Shown
  /\ Empty \in [Tasks -> Shown] /\ NotGot \in [Tasks -> Row]
  BY SomeTask DEF AnyTask, Absent, First, Hidden, Empty, NotGot, Row, Shown

LEMMA ListedTyped ==
  ASSUME NEW r \in Row PROVE Listed(r) \in Shown
  <1>1. r.ver \in Nat /\ r.by \in [Fields -> Nat \cup Mutations] BY DEF Row
  <1> QED BY <1>1, ConstantsTyped DEF Listed, Shown

LEMMA EditedTyped ==
  ASSUME NEW r \in Row, NEW kind, NEW fs
  PROVE  Edited(r, kind, fs) \in Row
  <1>1. r.ver + 1 \in Nat /\ r.by \in [Fields -> Nat] BY DEF Row
  <1>2. [f \in Fields |-> IF f \in fs THEN r.ver + 1 ELSE r.by[f]] \in [Fields -> Nat] BY <1>1
  <1> QED BY <1>1, <1>2, ConstantsTyped DEF Edited, Row

LEMMA PatchedTyped ==
  ASSUME NEW s \in Shown, NEW e \in Event PROVE Patched(s, e) \in Shown
  <1>1. e.ver \in Nat /\ s.by \in [Fields -> Nat \cup Mutations] BY DEF Event, Shown
  <1>2. Merged(s.by, e) \in [Fields -> Nat \cup Mutations] BY <1>1 DEF Merged
  <1> QED BY <1>1, <1>2, ConstantsTyped, ListedTyped DEF Patched, Shown

LEMMA OptimisticTyped ==
  ASSUME NEW m \in Mutations, NEW s \in Shown, NEW kind, NEW fs
  PROVE  Optimistic(m, s, kind, fs) \in Shown
  <1>1. /\ s.state \in {"hidden", "shown"} /\ s.ver \in Nat
        /\ s.by \in [Fields -> Nat \cup Mutations]
    BY DEF Shown
  <1>2. Tagged(m, s.by, fs) \in [Fields -> Nat \cup Mutations] BY <1>1 DEF Tagged
  <1> QED BY <1>1, <1>2, ConstantsTyped DEF Optimistic, Shown

LEMMA VersionedTyped ==
  ASSUME NEW s \in Shown, NEW v \in Nat PROVE Versioned(s, v) \in Shown
  BY DEF Versioned, Shown

LEMMA SpareTyped ==
  ASSUME NEW pc \in {"idle", "done", "failed"}, NEW under \in SUBSET Mutations, NEW answer \in Row
  PROVE  Spare(pc, under, answer) \in Mutation
  BY ConstantsTyped DEF Spare, Mutation

LEMMA TurnedTyped ==
  ASSUME NEW m \in Mutations, mut[m] \in Mutation, NEW answer \in Row,
         NEW pc \in {"ok", "conflict", "lost", "done", "failed"}
  PROVE  Turned(m, pc, answer) \in Mutation
  BY DEF Turned, Mutation

\* What the observers note.
LEMMA NotesTyped ==
  ASSUME NEW c, c \subseteq Mishaps, cause \subseteq Mishaps, Notes(c)
  PROVE  cause' \subseteq Mishaps /\ calm' \in BOOLEAN
  BY DEF Notes

LEMMA SpentTyped ==
  ASSUME NEW what \in {"edit", "extra"}, NEW bound, spent \in [{"edit", "extra"} -> Nat],
         Spend(what, bound)
  PROVE  spent' \in [{"edit", "extra"} -> Nat]
  BY DEF Spend

\* What every part of the state has.
LEMMA Parts ==
  ASSUME TypeOK
  PROVE  /\ \A t \in Tasks : row[t] \in Row /\ row[t].ver \in Nat /\ list[t] \in Shown
         /\ \A m \in Mutations : mut[m] \in Mutation /\ mut[m].answer \in Row
                                 /\ mut[m].under \subseteq Mutations /\ mut[m].task \in Tasks
                                 /\ mut[m].fields \subseteq Fields
         /\ \A e \in events : e \in Event /\ e.at \in Nat
         /\ \A x \in Edits : began[x] \in Nat
  BY SomeTask DEF TypeOK, Row, Mutation, Event

LEMMA BeginTyped ==
  ASSUME TypeOK, NEW x \in Edits, Begin(x)
  PROVE  TypeOK'
  <1>1. clock' \in Nat /\ began' \in [Edits -> Nat] BY DEF TypeOK, Begin
  <1>2. spent' \in [{"edit", "extra"} -> Nat] BY SpentTyped DEF TypeOK, Begin
  <1>3. cause' \subseteq Mishaps /\ calm' \in BOOLEAN
    BY NotesTyped DEF TypeOK, Begin, NoMishap, Mishaps
  <1> QED BY <1>1, <1>2, <1>3 DEF TypeOK, Begin, client

LEMMA PublishesTyped ==
  ASSUME TypeOK, NEW x \in Edits, NEW t \in Tasks, NEW fs \in SUBSET Fields,
         NEW kind \in {"edit", "delete", "restore", "create"}, Publishes(x, t, kind, fs)
  PROVE  /\ row' \in [Tasks -> Row] /\ row'[t] \in Row
         /\ events' \subseteq Event
         /\ began' \in [Edits -> Nat]
         /\ cause' \subseteq Mishaps /\ calm' \in BOOLEAN
  <1>1. Edited(row[t], kind, fs) \in Row BY EditedTyped, Parts
  <1>2. row' \in [Tasks -> Row] BY <1>1 DEF Publishes, TypeOK
  <1>3. row'[t] \in Row BY <1>2
  <1>4. row'[t].ver \in Nat BY <1>3 DEF Row
  <1>5. began[x] \in Nat BY Parts
  <1>6. [at |-> began[x], task |-> t, kind |-> kind, ver |-> row'[t].ver, fields |-> fs] \in Event
    BY <1>4, <1>5 DEF Event
  <1>7. events' \subseteq Event BY <1>6 DEF Publishes, TypeOK
  <1>8. cause' \subseteq Mishaps /\ calm' \in BOOLEAN
    BY NotesTyped DEF TypeOK, Publishes, Mishaps
  <1>9. began' \in [Edits -> Nat] BY DEF Publishes, TypeOK
  <1> QED BY <1>2, <1>3, <1>7, <1>8, <1>9

LEMMA AnsweredTyped ==
  ASSUME TypeOK, NEW m \in Mutations, NEW pc \in {"ok", "conflict", "lost"}, NEW r \in Row,
         Answered(m, pc, r)
  PROVE  mut' \in [Mutations -> Mutation]
  <1>1. Turned(m, pc, r) \in Mutation BY Parts, TurnedTyped
  <1> QED BY <1>1 DEF Answered, TypeOK

LEMMA CommitTyped ==
  ASSUME TypeOK,
         \/ \E x \in Others, t \in Tasks, fs \in SUBSET Fields,
                  kind \in {"edit", "delete", "restore", "create"} : CommitOther(x, t, kind, fs)
         \/ \E m \in Mutations : CommitMine(m)
  PROVE  TypeOK'
  <1>1. ASSUME NEW x \in Others, NEW t \in Tasks, NEW fs \in SUBSET Fields,
               NEW kind \in {"edit", "delete", "restore", "create"}, CommitOther(x, t, kind, fs)
        PROVE  TypeOK'
    <2>1. x \in Edits BY DEF Edits
    <2>2. Publishes(x, t, kind, fs) BY <1>1 DEF CommitOther
    <2>3. /\ row' \in [Tasks -> Row] /\ events' \subseteq Event /\ began' \in [Edits -> Nat]
          /\ cause' \subseteq Mishaps /\ calm' \in BOOLEAN
      BY <2>1, <2>2, PublishesTyped
    <2>4. over' \subseteq Others BY <1>1 DEF CommitOther, TypeOK
    <2> QED BY <1>1, <2>2, <2>3, <2>4 DEF TypeOK, CommitOther, Publishes
  <1>2. ASSUME NEW m \in Mutations, CommitMine(m)
        PROVE  TypeOK'
    <2> DEFINE t == mut[m].task
    <2>1. m \in Edits /\ t \in Tasks BY Parts DEF Edits
    <2>2. mut[m].kind \in {"edit", "delete", "restore", "create"} BY Parts DEF Mutation
    <2>3. PICK along \in SUBSET (Fields \ Folded) :
             Publishes(m, t, mut[m].kind, mut[m].fields \cup along)
      BY <1>2 DEF CommitMine
    <2>6. mut[m].fields \cup along \in SUBSET Fields BY Parts
    <2>4. /\ row' \in [Tasks -> Row] /\ row'[t] \in Row
          /\ events' \subseteq Event /\ began' \in [Edits -> Nat]
          /\ cause' \subseteq Mishaps /\ calm' \in BOOLEAN
      BY <2>1, <2>2, <2>3, <2>6, PublishesTyped
    <2>5. mut' \in [Mutations -> Mutation] BY <1>2, <2>4, AnsweredTyped DEF CommitMine
    <2> QED BY <1>2, <2>3, <2>4, <2>5 DEF TypeOK, CommitMine, Publishes
  <1> QED BY <1>1, <1>2

LEMMA MutationStepsTyped ==
  ASSUME TypeOK, NEW m \in Mutations, RefuseMine(m) \/ LoseMine(m)
  PROVE  TypeOK'
  <1>1. CASE RefuseMine(m)
    <2>1. mut' \in [Mutations -> Mutation] BY <1>1, Parts, AnsweredTyped DEF RefuseMine
    <2>2. began' \in [Edits -> Nat] BY <1>1 DEF RefuseMine, TypeOK
    <2>3. cause' \subseteq Mishaps /\ calm' \in BOOLEAN
      BY <1>1, NotesTyped DEF TypeOK, RefuseMine, NoMishap, Mishaps
    <2> QED BY <1>1, <2>1, <2>2, <2>3 DEF TypeOK, RefuseMine
  <1>2. CASE LoseMine(m)
    <2>1. Turned(m, "lost", Absent) \in Mutation BY Parts, TurnedTyped, ConstantsTyped
    <2>2. mut' \in [Mutations -> Mutation] BY <1>2, <2>1 DEF LoseMine, TypeOK
    <2>3. cause' \subseteq Mishaps /\ calm' \in BOOLEAN
      BY <1>2, NotesTyped DEF TypeOK, LoseMine, NoMishap, Mishaps
    <2>4. spent' \in [{"edit", "extra"} -> Nat] BY <1>2, SpentTyped DEF TypeOK, LoseMine, Extra
    <2> QED BY <1>2, <2>2, <2>3, <2>4 DEF TypeOK, LoseMine, server
  <1> QED BY <1>1, <1>2

LEMMA StreamTyped ==
  ASSUME TypeOK, Tap \/ Connect \/ Disconnect \/ Restart
  PROVE  TypeOK'
  <1>1. CASE Tap
    <2>1. PICK e \in Untapped : mark' = e.at /\ wire' = IF stream = "open" THEN Append(wire, e) ELSE wire
      BY <1>1 DEF Tap
    <2>2. e \in Event /\ e.at \in Nat BY <2>1, Parts DEF Untapped
    <2>3. wire' \in Seq(Event) BY <2>1, <2>2 DEF TypeOK
    <2>4. cause' \subseteq Mishaps /\ calm' \in BOOLEAN
      BY <1>1, NotesTyped DEF TypeOK, Tap, Mishaps
    <2> QED BY <1>1, <2>1, <2>2, <2>3, <2>4 DEF TypeOK, Tap, server, client
  <1>2. CASE Connect
    <2>1. cause' \subseteq Mishaps /\ calm' \in BOOLEAN
      BY <1>2, NotesTyped DEF TypeOK, Connect, NoMishap, Mishaps
    <2> QED BY <1>2, <2>1 DEF TypeOK, Connect, server, client
  <1>3. CASE Disconnect
    <2>1. cause' \subseteq Mishaps /\ calm' \in BOOLEAN
      BY <1>3, NotesTyped DEF TypeOK, Disconnect, Mishaps
    <2>2. spent' \in [{"edit", "extra"} -> Nat] BY <1>3, SpentTyped DEF TypeOK, Disconnect, Extra
    <2>3. wire' \in Seq(Event) BY <1>3 DEF Disconnect
    <2> QED BY <1>3, <2>1, <2>2, <2>3 DEF TypeOK, Disconnect, server, client
  <1>4. CASE Restart
    <2>1. cause' \subseteq Mishaps /\ calm' \in BOOLEAN
      BY <1>4, NotesTyped DEF TypeOK, Restart, Mishaps
    <2>2. spent' \in [{"edit", "extra"} -> Nat] BY <1>4, SpentTyped DEF TypeOK, Restart, Extra
    <2>3. wire' \in Seq(Event) BY <1>4 DEF Restart
    <2>4. mark' \in Nat BY <1>4, Parts DEF Restart
    <2>5. mut' \in [Mutations -> Mutation]
      <3>1. \A m \in Mutations : mut[m] \in Mutation /\ Turned(m, "lost", Absent) \in Mutation
        BY Parts, TurnedTyped, ConstantsTyped
      <3> QED BY <1>4, <3>1 DEF Restart
    <2>6. over' \subseteq Others /\ began' \in [Edits -> Nat] BY <1>4 DEF Restart, TypeOK
    <2> QED BY <1>4, <2>1, <2>2, <2>3, <2>4, <2>5, <2>6 DEF TypeOK, Restart
  <1> QED BY <1>1, <1>2, <1>3, <1>4

LEMMA FetchTyped ==
  ASSUME TypeOK, Focus \/ AnswerFetch \/ LandFetch
  PROVE  TypeOK'
  <1>1. CASE Focus
    <2>1. cause' \subseteq Mishaps /\ calm' \in BOOLEAN
      BY <1>1, NotesTyped DEF TypeOK, Focus, NoMishap, Mishaps
    <2>2. spent' \in [{"edit", "extra"} -> Nat] BY <1>1, SpentTyped DEF TypeOK, Focus, Extra
    <2> QED BY <1>1, <2>1, <2>2, ConstantsTyped DEF TypeOK, Focus, server
  <1>2. CASE AnswerFetch
    <2>1. calm' \in BOOLEAN BY <1>2 DEF AnswerFetch
    <2> QED BY <1>2, <2>1 DEF TypeOK, AnswerFetch, server
  <1>3. CASE LandFetch
    <2>1. \A t \in Tasks : Listed(fetch.got[t]) \in Shown BY ListedTyped DEF TypeOK
    <2>2. list' \in [Tasks -> Shown] BY <1>3, <2>1 DEF LandFetch
    <2>3. upset' \subseteq Mutations BY <1>3 DEF LandFetch, InFlight
    <2>4. fetch' \in [pc: {"idle", "asked", "answered"}, got: [Tasks -> Row]]
      BY <1>3, ConstantsTyped DEF LandFetch
    <2>5. cause' \subseteq Mishaps /\ patched' \subseteq Tasks /\ skipped' \subseteq Tasks \X Fields
      BY <1>3 DEF LandFetch, TypeOK
    <2> QED BY <1>3, <2>2, <2>3, <2>4, <2>5 DEF TypeOK, LandFetch, server
  <1> QED BY <1>1, <1>2, <1>3

LEMMA ReceiveTyped ==
  ASSUME TypeOK, Receive
  PROVE  TypeOK'
  <1> DEFINE e == Head(wire)
  <1>1. e \in Event /\ wire' \in Seq(Event) BY DEF TypeOK, Receive
  <1>2. e.task \in Tasks BY <1>1 DEF Event
  <1>3. Patched(list[e.task], e) \in Shown BY <1>1, <1>2, Parts, PatchedTyped
  <1>4. list' \in [Tasks -> Shown] BY <1>3 DEF Receive, TypeOK
  <1>5. fetch' \in [pc: {"idle", "asked", "answered"}, got: [Tasks -> Row]]
    BY ConstantsTyped DEF Receive, TypeOK, Invalidated
  <1>6. upset' \subseteq Mutations BY DEF Receive, InFlight
  <1>7. cause' \subseteq Mishaps /\ calm' \in BOOLEAN
    BY NotesTyped DEF TypeOK, Receive, Mishaps
  <1>8. e.fields \subseteq Fields BY <1>1 DEF Event
  <1>9. skipped' \subseteq Tasks \X Fields BY <1>2, <1>8 DEF TypeOK, Receive, Passed
  <1> QED BY <1>1, <1>4, <1>5, <1>6, <1>7, <1>9 DEF TypeOK, Receive, server

LEMMA MutateTyped ==
  ASSUME TypeOK, NEW m \in Mutations, NEW t \in Tasks, NEW fs \in SUBSET Folded,
         NEW kind \in {"edit", "delete"}, Mutate(m, t, kind, fs)
  PROVE  TypeOK'
  <1> DEFINE d == IF cause # {} THEN "mishap" ELSE IF t \in patched THEN "patched" ELSE "none"
             new == [pc |-> "sent", task |-> t, kind |-> kind, fields |-> fs,
                     expected |-> list[t].ver, ledger |-> Snapshot(m, t, kind, fs),
                     under |-> InFlight, doubt |-> d,
                     missed |-> {f \in Fields : <<t, f>> \in skipped}, answer |-> Absent]
  <1>1. list[t].ver \in Nat /\ list \in [Tasks -> Shown] BY Parts DEF TypeOK, Shown
  <1>2. InFlight \subseteq Mutations /\ d \in {"none", "mishap", "patched"} BY DEF InFlight
  <1>3. new \in Mutation
    <2> HIDE DEF d
    <2> QED BY <1>1, <1>2, ConstantsTyped DEF Mutation, Snapshot
  <1>4. mut' \in [Mutations -> Mutation] BY <1>3 DEF Mutate, TypeOK
  <1>5. Optimistic(m, list[t], kind, fs) \in Shown BY Parts, OptimisticTyped
  <1>6. list' \in [Tasks -> Shown] BY <1>5 DEF Mutate, TypeOK
  <1>7. cause' \subseteq Mishaps /\ calm' \in BOOLEAN
    BY NotesTyped DEF TypeOK, Mutate, NoMishap, Mishaps
  <1>8. spent' \in [{"edit", "extra"} -> Nat] BY SpentTyped DEF TypeOK, Mutate
  <1> QED BY <1>4, <1>6, <1>7, <1>8 DEF TypeOK, Mutate, server

LEMMA SettleTyped ==
  ASSUME TypeOK, NEW m \in Mutations, NEW pc \in {"done", "failed"}, Settle(m, pc)
  PROVE  mut' \in [Mutations -> Mutation]
  <1>1. Turned(m, pc, mut[m].answer) \in Mutation BY Parts, TurnedTyped
  <1>2. Spare(pc, mut[m].under, mut[m].answer) \in Mutation BY Parts, SpareTyped
  <1> QED BY <1>1, <1>2 DEF Settle, TypeOK

LEMMA SettledTyped ==
  ASSUME TypeOK, NEW m \in Mutations, Succeed(m) \/ Fail(m)
  PROVE  TypeOK'
  <1> DEFINE t == mut[m].task
  <1>1. t \in Tasks /\ mut[m].answer \in Row BY Parts
  <1>2. CASE Succeed(m)
    <2>1. mut' \in [Mutations -> Mutation] BY <1>2, SettleTyped DEF Succeed
    <2>2. Listed(mut[m].answer) \in Shown BY <1>1, ListedTyped
    <2>3. list' \in [Tasks -> Shown] BY <1>2, <2>2 DEF Succeed, TypeOK
    <2>4. cause' \subseteq Mishaps /\ calm' \in BOOLEAN
      BY <1>2, NotesTyped DEF TypeOK, Succeed, Mishaps
    <2>5. upset' \subseteq Mutations BY <1>2 DEF Succeed, TypeOK
    <2> QED BY <1>2, <2>1, <2>3, <2>4, <2>5 DEF TypeOK, Succeed, server
  <1>3. CASE Fail(m)
    <2>1. mut' \in [Mutations -> Mutation] BY <1>3, SettleTyped DEF Fail
    <2>2. mut[m].ledger \in [Tasks -> Shown] /\ mut[m].answer.ver \in Nat
      BY <1>1, Parts DEF Mutation, Row
    <2>3. Versioned(mut[m].ledger[t], mut[m].answer.ver) \in Shown
      BY <1>1, <2>2, VersionedTyped
    <2>4. list' \in [Tasks -> Shown] BY <1>3, <2>2, <2>3 DEF Fail
    <2>5. cause' \subseteq Mishaps /\ calm' \in BOOLEAN
      BY <1>3, NotesTyped DEF TypeOK, Fail, Mishaps
    <2>6. upset' \subseteq Mutations BY <1>3 DEF Fail, InFlight
    <2>7. patched' \subseteq Tasks BY <1>1, <1>3 DEF Fail, TypeOK
    <2> QED BY <1>3, <2>1, <2>4, <2>5, <2>6, <2>7 DEF TypeOK, Fail, server
  <1> QED BY <1>2, <1>3

LEMMA NextTyped ==
  ASSUME TypeOK, [Next]_vars
  PROVE  TypeOK'
  <1>1. CASE ServerStep
    BY <1>1, BeginTyped, CommitTyped, MutationStepsTyped, StreamTyped, FetchTyped DEF ServerStep
  <1>2. CASE ClientStep
    BY <1>2, FetchTyped, ReceiveTyped, SettledTyped, MutateTyped DEF ClientStep
  <1>3. CASE UNCHANGED vars
    BY <1>3 DEF vars, TypeOK
  <1> QED BY <1>1, <1>2, <1>3 DEF Next

-----------------------------------------------------------------------------
(* Phantoms.                                                               *)

\* Rows and events show no edit's own value.
LEMMA NumbersOnly ==
  /\ \A r \in Row, f \in Fields : Listed(r).by[f] \notin Mutations
  /\ \A f \in Fields : Hidden.by[f] \notin Mutations
  /\ \A v \in Nat : v \notin Mutations
  BY EditsAreApart DEF Listed, Hidden, Row

\* As long as no edit ends or is made, its part in the invariant stays.
LEMMA TurningKeeps ==
  ASSUME UnderMade, LedgersAccounted,
         \A n \in Mutations :
            /\ mut'[n].under = mut[n].under /\ mut'[n].ledger = mut[n].ledger
            /\ mut'[n].pc = mut[n].pc \/ {mut[n].pc, mut'[n].pc} \subseteq Flying
  PROVE  /\ UnderMade' /\ LedgersAccounted'
         /\ \A v \in Mutations : Over(v) => Over(v)'
         /\ InFlight' = InFlight
  <1>1. \A n \in Mutations : Failed(n) => Failed(n)' BY DEF Failed, Flying
  <1>2. ASSUME NEW v \in Mutations, Over(v) PROVE Over(v)'
    BY <1>1, <1>2 DEF Over, Flying
  <1>3. InFlight' = InFlight BY DEF InFlight
  <1>4. UnderMade' BY DEF UnderMade, Flying
  <1>5. LedgersAccounted' BY <1>2, <1>3 DEF LedgersAccounted, InFlight
  <1> QED BY <1>2, <1>3, <1>4, <1>5

LEMMA TurningKeepsAll ==
  ASSUME PhantomInv, list' = list,
         \A n \in Mutations :
            /\ mut'[n].under = mut[n].under /\ mut'[n].ledger = mut[n].ledger
            /\ mut'[n].pc = mut[n].pc \/ {mut[n].pc, mut'[n].pc} \subseteq Flying
  PROVE  PhantomInv'
  BY TurningKeeps DEF PhantomInv, ListAccounted

\* The answer of the server, or none.
LEMMA AnsweredKeeps ==
  ASSUME TypeOK, PhantomInv, list' = list, NEW m \in Mutations,
         NEW pc \in {"ok", "conflict", "lost"}, NEW r, Answered(m, pc, r)
  PROVE  PhantomInv'
  <1>1. /\ Turned(m, pc, r).under = mut[m].under /\ Turned(m, pc, r).ledger = mut[m].ledger
        /\ Turned(m, pc, r).pc = pc
    BY DEF Turned
  <1>2. mut \in [Mutations -> Mutation] BY DEF TypeOK
  <1> QED BY <1>1, <1>2, TurningKeepsAll DEF Answered, Flying

LEMMA ServerKeeps ==
  ASSUME TypeOK, PhantomInv, ServerStep
  PROVE  PhantomInv'
  <1>1. ASSUME UNCHANGED <<list, mut>> PROVE PhantomInv'
    BY <1>1, TurningKeepsAll
  <1>2. ASSUME NEW x \in Edits, Begin(x) PROVE PhantomInv'
    BY <1>1, <1>2 DEF Begin, client
  <1>3. ASSUME NEW x, NEW t, NEW fs, NEW kind, CommitOther(x, t, kind, fs) PROVE PhantomInv'
    BY <1>1, <1>3 DEF CommitOther, Publishes
  <1>4. ASSUME NEW m \in Mutations, CommitMine(m) PROVE PhantomInv'
    BY <1>4, AnsweredKeeps DEF CommitMine, Publishes
  <1>5. ASSUME NEW m \in Mutations, RefuseMine(m) PROVE PhantomInv'
    BY <1>5, AnsweredKeeps DEF RefuseMine
  <1>6. ASSUME NEW m \in Mutations, LoseMine(m) PROVE PhantomInv'
    <2>1. /\ Turned(m, "lost", Absent).under = mut[m].under
          /\ Turned(m, "lost", Absent).ledger = mut[m].ledger
          /\ Turned(m, "lost", Absent).pc = "lost"
      BY DEF Turned
    <2>2. mut \in [Mutations -> Mutation] BY DEF TypeOK
    <2> QED BY <1>6, <2>1, <2>2, TurningKeepsAll DEF LoseMine, Flying
  <1>7. CASE Tap \/ Connect \/ Disconnect \/ AnswerFetch
    BY <1>1, <1>7 DEF Tap, Connect, Disconnect, AnswerFetch, client
  <1>8. CASE Restart
    <2>1. \A m \in Mutations :
            /\ Turned(m, "lost", Absent).under = mut[m].under
            /\ Turned(m, "lost", Absent).ledger = mut[m].ledger
            /\ Turned(m, "lost", Absent).pc = "lost"
      BY DEF Turned
    <2>2. \A m \in Mutations : mut'[m] = IF began[m] # 0 /\ mut[m].pc = "sent"
                                          THEN Turned(m, "lost", Absent) ELSE mut[m]
      BY <1>8 DEF Restart
    <2>3. list' = list BY <1>8 DEF Restart
    <2> QED BY <2>1, <2>2, <2>3, TurningKeepsAll DEF Flying
  <1> QED BY <1>2, <1>3, <1>4, <1>5, <1>6, <1>7, <1>8 DEF ServerStep

\* Events and fetches bring versions.
LEMMA NewsKeeps ==
  ASSUME TypeOK, PhantomInv, Focus \/ LandFetch \/ Receive
  PROVE  PhantomInv'
  <1>1. mut' = mut BY DEF Focus, LandFetch, Receive
  <1>2. \A t \in Tasks, f \in Fields :
           list'[t].by[f] = list[t].by[f] \/ list'[t].by[f] \notin Mutations
    <2>1. CASE Focus BY <2>1 DEF Focus
    <2>2. CASE LandFetch
      <3>1. \A t \in Tasks : fetch.got[t] \in Row BY DEF TypeOK
      <3> QED BY <2>2, <3>1, NumbersOnly DEF LandFetch
    <2>3. CASE Receive
      <3> DEFINE e == Head(wire)
      <3>1. e \in Event BY <2>3 DEF TypeOK, Receive
      <3>2. e.ver \in Nat /\ e.task \in Tasks BY <3>1 DEF Event
      <3>3. ASSUME NEW s \in Shown, NEW f \in Fields
            PROVE  Patched(s, e).by[f] = s.by[f] \/ Patched(s, e).by[f] \notin Mutations
        <4>1. Merged(s.by, e)[f] \in {s.by[f], e.ver} BY DEF Merged
        <4> QED BY <4>1, <3>2, NumbersOnly, ConstantsTyped DEF Patched
      <3>4. list' = list \/ list' = [list EXCEPT ![e.task] = Patched(list[e.task], e)]
        BY <2>3 DEF Receive
      <3> HIDE DEF e
      <3> QED BY <3>2, <3>3, <3>4 DEF TypeOK
    <2> QED BY <2>1, <2>2, <2>3
  <1>3. UnderMade' /\ LedgersAccounted' /\ (\A v \in Mutations : Over(v) => Over(v)') /\ InFlight' = InFlight
    BY <1>1, TurningKeeps DEF PhantomInv
  <1>4. ListAccounted' BY <1>2, <1>3 DEF PhantomInv, ListAccounted
  <1> QED BY <1>3, <1>4 DEF PhantomInv

\* The user's edit is shown, and its ledger holds what was shown before.
LEMMA MutateKeeps ==
  ASSUME TypeOK, PhantomInv, NEW m \in Mutations, NEW t \in Tasks, NEW fs,
         NEW kind, Mutate(m, t, kind, fs)
  PROVE  PhantomInv'
  <1>1. /\ mut[m].pc = "idle" /\ mut'[m].pc = "sent"
        /\ mut'[m].ledger = list /\ mut'[m].under = InFlight
        /\ \A n \in Mutations : n # m => mut'[n] = mut[n]
        /\ list' = [list EXCEPT ![t] = Optimistic(m, list[t], kind, fs)]
    BY DEF Mutate, TypeOK, Snapshot
  <1>2. \A v \in Mutations : Over(v) => Over(v)' BY <1>1 DEF Over, Failed
  <1>3. InFlight' = InFlight \cup {m} BY <1>1 DEF InFlight, Flying
  <1>4. UnderMade' BY <1>1 DEF PhantomInv, UnderMade, InFlight, Flying
  <1>5. LedgersAccounted'
    <2>1. SUFFICES ASSUME NEW n \in InFlight', NEW u \in Tasks, NEW g \in Fields,
                          mut'[n].ledger[u].by[g] \in Mutations
                   PROVE  mut'[n].ledger[u].by[g] \in mut'[n].under \/ Over(mut[n].ledger[u].by[g])'
      BY DEF LedgersAccounted
    <2>2. CASE n = m BY <1>1, <1>2, <2>1, <2>2 DEF PhantomInv, ListAccounted
    <2>3. CASE n # m
      <3>1. n \in InFlight /\ mut'[n] = mut[n] BY <1>1, <1>3, <2>1, <2>3 DEF InFlight
      <3> QED BY <1>2, <2>1, <3>1 DEF PhantomInv, LedgersAccounted
    <2> QED BY <2>2, <2>3
  <1>6. ListAccounted'
    <2>1. SUFFICES ASSUME NEW u \in Tasks, NEW g \in Fields, list'[u].by[g] \in Mutations
                   PROVE  list'[u].by[g] \in InFlight' \/ Over(list[u].by[g])'
      BY DEF ListAccounted
    <2>2. list'[u].by[g] = list[u].by[g] \/ list'[u].by[g] = m
      <3>1. CASE u # t BY <1>1, <3>1 DEF TypeOK
      <3>2. CASE u = t
        <4>1. list'[u] = Optimistic(m, list[t], kind, fs) BY <1>1, <3>2 DEF TypeOK
        <4> QED BY <2>1, <3>2, <4>1, NumbersOnly DEF Optimistic, Tagged
      <3> QED BY <3>1, <3>2
    <2> QED BY <1>2, <1>3, <2>1, <2>2 DEF PhantomInv, ListAccounted
  <1> QED BY <1>4, <1>5, <1>6 DEF PhantomInv

LEMMA SettleEffect ==
  ASSUME TypeOK, NEW m \in Mutations, NEW pc, Settle(m, pc)
  PROVE  /\ mut'[m].pc = pc /\ mut'[m].under = mut[m].under
         /\ \A n \in Mutations : n # m => mut'[n] = mut[n]
  BY DEF Settle, TypeOK, Spare, Turned

LEMMA SucceedKeeps ==
  ASSUME TypeOK, PhantomInv, NEW m \in Mutations, Succeed(m)
  PROVE  PhantomInv'
  <1>1. /\ mut[m].pc = "ok" /\ mut'[m].pc = "done" /\ mut'[m].under = mut[m].under
        /\ \A n \in Mutations : n # m => mut'[n] = mut[n]
    BY SettleEffect DEF Succeed
  <1>2. \A v \in Mutations : Over(v) => Over(v)' BY <1>1 DEF Over, Failed
  <1>3. InFlight' = InFlight \ {m} /\ Over(m)' BY <1>1 DEF InFlight, Flying, Over
  <1>4. UnderMade' BY <1>1 DEF PhantomInv, UnderMade
  <1>5. LedgersAccounted' BY <1>1, <1>2, <1>3 DEF PhantomInv, LedgersAccounted, InFlight
  <1>6. \A t \in Tasks, f \in Fields :
           list'[t].by[f] = list[t].by[f] \/ list'[t].by[f] \notin Mutations
    <2>1. mut[m].answer \in Row BY Parts
    <2>2. list' = list \/ list' = [list EXCEPT ![mut[m].task] = Listed(mut[m].answer)]
      BY DEF Succeed
    <2> QED BY <2>1, <2>2, NumbersOnly DEF TypeOK
  <1>7. ListAccounted' BY <1>2, <1>3, <1>6 DEF PhantomInv, ListAccounted
  <1> QED BY <1>4, <1>5, <1>7 DEF PhantomInv

LEMMA FailKeeps ==
  ASSUME TypeOK, PhantomInv, NEW m \in Mutations, Fail(m)
  PROVE  PhantomInv'
  <1>1. /\ m \in InFlight /\ ~Over(m)
        /\ mut'[m].pc = "failed" /\ mut'[m].under = mut[m].under
        /\ \A n \in Mutations : n # m => mut'[n] = mut[n]
    BY SettleEffect DEF Fail, InFlight, Flying, Over, Failed
  <1>2. \A v \in Mutations : Over(v) => Over(v)' BY <1>1 DEF Over, Failed
  <1>3. InFlight' = InFlight \ {m} BY <1>1 DEF InFlight, Flying
  <1>4. UnderMade' BY <1>1 DEF PhantomInv, UnderMade
  <1>5. LedgersAccounted' BY <1>1, <1>2, <1>3 DEF PhantomInv, LedgersAccounted, InFlight
  <1>6. \A v \in mut[m].under : v \in InFlight' \/ Over(v)'
    <2>1. ASSUME NEW v \in mut[m].under PROVE v \in InFlight' \/ Over(v)'
      <3>1. v \in Mutations /\ mut[v].pc # "idle" BY DEF PhantomInv, UnderMade
      <3>2. mut[v].pc \in {"idle", "sent", "ok", "conflict", "lost", "done", "failed"}
        BY <3>1, Parts DEF Mutation
      <3>3. CASE v = m BY <1>1, <3>3 DEF Over, Failed
      <3>4. CASE v # m BY <1>1, <3>1, <3>2, <3>4 DEF Over, Failed, InFlight, Flying
      <3> QED BY <3>3, <3>4
    <2> QED BY <2>1
  <1>7. \A t \in Tasks, f \in Fields : list'[t].by[f] = mut[m].ledger[t].by[f]
    <2>1. mut[m].ledger \in [Tasks -> Shown] BY Parts DEF Mutation
    <2>2. \A s, v : Versioned(s, v).by = s.by BY DEF Versioned
    <2>3. \/ list' = mut[m].ledger
          \/ list' = [mut[m].ledger EXCEPT ![mut[m].task] =
                        Versioned(mut[m].ledger[mut[m].task], mut[m].answer.ver)]
      BY DEF Fail
    <2> QED BY <2>1, <2>2, <2>3
  <1>8. ListAccounted'
    <2>1. SUFFICES ASSUME NEW t \in Tasks, NEW f \in Fields, list'[t].by[f] \in Mutations
                   PROVE  list'[t].by[f] \in InFlight' \/ Over(list[t].by[f])'
      BY DEF ListAccounted
    <2>2. list'[t].by[f] \in mut[m].under \/ Over(mut[m].ledger[t].by[f])
      BY <1>1, <1>7, <2>1 DEF PhantomInv, LedgersAccounted
    <2> QED BY <1>2, <1>6, <1>7, <2>1, <2>2
  <1> QED BY <1>4, <1>5, <1>8 DEF PhantomInv

-----------------------------------------------------------------------------
(* The theorems.                                                           *)

LEMMA InitInv == Init => IInv
  <1> SUFFICES ASSUME Init PROVE IInv OBVIOUS
  <1>1. TypeOK
    <2>1. \A m \in Mutations : Spare("idle", {}, Absent) \in Mutation
      BY SpareTyped, ConstantsTyped
    <2>2. row \in [Tasks -> Row] /\ list \in [Tasks -> Shown] /\ mut \in [Mutations -> Mutation]
      BY <2>1, ConstantsTyped DEF Init
    <2>3. fetch \in [pc: {"idle", "asked", "answered"}, got: [Tasks -> Row]]
      BY ConstantsTyped DEF Init
    <2>4. wire \in Seq(Event) BY DEF Init
    <2> QED BY <2>2, <2>3, <2>4 DEF Init, TypeOK
  <1>2. PhantomInv
    <2>1. \A m \in Mutations : mut[m].pc = "idle" /\ mut[m].under = {} BY DEF Init, Spare
    <2>2. InFlight = {} BY <2>1 DEF InFlight, Flying
    <2>3. \A t \in Tasks, f \in Fields : list[t].by[f] \notin Mutations
      BY NumbersOnly DEF Init, Empty
    <2> QED BY <2>1, <2>2, <2>3 DEF PhantomInv, UnderMade, ListAccounted, LedgersAccounted
  <1> QED BY <1>1, <1>2 DEF IInv

LEMMA NextInv == IInv /\ [Next]_vars => IInv'
  <1> SUFFICES ASSUME IInv, [Next]_vars PROVE IInv' OBVIOUS
  <1>0. TypeOK /\ PhantomInv BY DEF IInv
  <1>1. TypeOK' BY <1>0, NextTyped
  <1>2. CASE ServerStep BY <1>0, <1>1, <1>2, ServerKeeps DEF IInv
  <1>3. CASE ClientStep
    BY <1>0, <1>1, <1>3, NewsKeeps, MutateKeeps, SucceedKeeps, FailKeeps DEF IInv, ClientStep
  <1>4. CASE UNCHANGED vars BY <1>0, <1>1, <1>4, TurningKeepsAll DEF IInv, vars
  <1> QED BY <1>2, <1>3, <1>4 DEF Next

LEMMA SpecInv == Spec => []IInv
  BY InitInv, NextInv, PTL DEF Spec

\* The rows, the events, the list and its ledgers keep their shape, for any tasks,
\* fields, users and edits: a field shows a version, or one of the user's edits, and a
\* version is a number.
THEOREM TypeCorrect == Spec => []TypeOK
  <1>1. IInv => TypeOK BY DEF IInv
  <1> QED BY <1>1, SpecInv, PTL

\* With no edit in flight, the list shows a value that was never written only if an
\* edit that failed later had it in its ledger (use-optimistic-mutation.ts).
THEOREM PhantomOnlyForCause == Spec => []PhantomForCause
  <1>1. IInv => PhantomForCause
    <2> SUFFICES ASSUME PhantomInv, InFlight = {}, NEW t \in Tasks, NEW f \in Fields,
                        list[t].by[f] \in Mutations, Failed(list[t].by[f])
                 PROVE  \E n \in Mutations : Failed(n) /\ list[t].by[f] \in mut[n].under
      BY DEF IInv, PhantomForCause, Failed
    <2>1. Over(list[t].by[f]) BY DEF PhantomInv, ListAccounted
    <2> QED BY <2>1 DEF Over, Failed
  <1> QED BY <1>1, SpecInv, PTL
=============================================================================
